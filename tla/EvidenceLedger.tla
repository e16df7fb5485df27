--------------------------- MODULE EvidenceLedger ---------------------------
(***************************************************************************)
(* The evidence an investigation of a station needs, and what may still be *)
(* read to get it (domain/investigation_evidence.py and                    *)
(* application/evidence_source_capabilities.py).                           *)
(*                                                                         *)
(* An EvidenceLedger is what was observed of the one station: machines,    *)
(* its observed states, and documented, the faults that a retrieved        *)
(* document is about.  Sources, classifications and document names are     *)
(* left out: they decide nothing here.                                     *)
(***************************************************************************)
CONSTANTS Faults, None

Requirements == {"CURRENT_MACHINE_STATE", "ACTIVE_FAULT", "RELEVANT_FAULT_DOCUMENTATION"}

(* What each intent requires: STATION_LIST and PHYSICAL_RECOVERY nothing,  *)
(* STATION_STATUS the state, STATION_TROUBLESHOOTING everything.           *)
Contracts == {{}, {"CURRENT_MACHINE_STATE"}, Requirements}

(* "STOPPED" stands for every state that is not RUNNING.                   *)
MachineObservations == [state : {"RUNNING", "STOPPED"}, fault : Faults \union {None}]

ActiveFaults(machines) == {m.fault : m \in machines} \ {None}

ObservedHealthy(machines) == \E m \in machines : m.state = "RUNNING" /\ m.fault = None

(* A fault: any retrieved documentation will do.                           *)
IsSatisfiedByAnyDocument(q, machines, documented) ==
    \/ q = "CURRENT_MACHINE_STATE" /\ machines # {}
    \/ q = "ACTIVE_FAULT" /\ (ActiveFaults(machines) # {} \/ ObservedHealthy(machines))
    \/ q = "RELEVANT_FAULT_DOCUMENTATION" /\ (documented # {} \/ ObservedHealthy(machines))

(* Observations are only added, so that what is satisfied stays so.  A     *)
(* station seen running without a fault needs no fault and no document.    *)
IsSatisfied(q, machines, documented) ==
    \/ q = "CURRENT_MACHINE_STATE" /\ machines # {}
    \/ q = "ACTIVE_FAULT" /\ (ActiveFaults(machines) # {} \/ ObservedHealthy(machines))
    \/ /\ q = "RELEVANT_FAULT_DOCUMENTATION"
       /\ ActiveFaults(machines) \intersect documented # {} \/ ObservedHealthy(machines)

Satisfied(required, machines, documented) ==
    {q \in required : IsSatisfied(q, machines, documented)}

Missing(required, machines, documented) ==
    required \ Satisfied(required, machines, documented)

Complete(required, machines, documented) == Missing(required, machines, documented) = {}

EvidenceTools == {"get_machine_status", "search_documentation"}

(* A fault: the state of a machine is all a status says.                   *)
ProducesStateOnly(tool) ==
    IF tool = "get_machine_status" THEN {"CURRENT_MACHINE_STATE"}
    ELSE {"RELEVANT_FAULT_DOCUMENTATION"}

Produces(tool) ==
    IF tool = "get_machine_status" THEN {"CURRENT_MACHINE_STATE", "ACTIVE_FAULT"}
    ELSE {"RELEVANT_FAULT_DOCUMENTATION"}

Prerequisites(tool) == IF tool = "get_machine_status" THEN {} ELSE {"ACTIVE_FAULT"}

(* The admitted tools that can produce what is missing.                    *)
EligibleTools(required, machines, documented, admitted) ==
    {tool \in admitted \intersect EvidenceTools :
        /\ Produces(tool) \intersect Missing(required, machines, documented) # {}
        /\ Prerequisites(tool) \subseteq Satisfied(required, machines, documented)}
=============================================================================
