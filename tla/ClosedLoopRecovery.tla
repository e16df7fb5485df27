------------------------- MODULE ClosedLoopRecovery -------------------------
(***************************************************************************)
(* Reference calibration of a position encoder: the recovery branch of the *)
(* agent's graph, the hardware MCP server's closed loop, and the device    *)
(* behind PhysicalDevicePort.                                              *)
(*                                                                         *)
(* A run reads the reference status and either needs no recovery, is       *)
(* prepared and put to a human, or goes on as the model likes; an approved *)
(* calibration is executed by the server, which claims the approval,       *)
(* observes, operates, observes again and verifies.  Runs share the one    *)
(* device, and the device does not wait for anybody: the station is        *)
(* started, a product arrives, the reference is lost between any two of    *)
(* these steps.  Only the closed loop itself runs without an await, so     *)
(* that two of them never overlap in the server.                           *)
(*                                                                         *)
(* The approval of a run is its one generation (ApprovalStore keeps it);   *)
(* here it is only its phase.  Budget, texts and telemetry are left out,   *)
(* and so is the second authorization inside the loop, which asks what the *)
(* tool call has checked before it.                                        *)
(***************************************************************************)
EXTENDS Naturals

CONSTANTS RecoveryRuns,   \* runs, each with its one approval
          ToolCalls,      \* calls of execute_reference_calibration (a bound)
          Preconditions,  \* what must hold of the station and the device
          Deviations,     \* the position deviations a device can show
          Tolerance,      \* configured_tolerance_mm, in the same unit
          Nil             \* no run, no execution, no outcome, no deviation

ASSUME DeviationsAssumption == Deviations \subseteq Nat /\ Tolerance \in Nat

VARIABLES
    device,        \* what an observation of the device's reference shows
    operator,      \* the execution that operated the device last, while its
                   \* loop is in progress (history)
    witnessed,     \* the executions whose last observation showed the device
                   \* as they had calibrated it, and recovered (history)
    approvals,     \* the phase of each run's approval
    recoveries,    \* the runs, as the graph's recovery branch keeps them
    executions     \* the executions, as the server's closed loop keeps them

recoveryVars == <<device, operator, witnessed, approvals, recoveries, executions>>

(* A value that is not observed is "unknown", or Nil for the deviation.    *)
DeviceState ==
    [reference : {"valid", "invalid", "unknown"}, deviation : Deviations \union {Nil}]

(* What an observation shows of the preconditions.  Nothing keeps them as  *)
(* they are, so each observation makes its own.                            *)
Observations == [Preconditions -> {"PASSED", "FAILED", "NOT_EVALUATED"}]

PreconditionsPassed(observed) == \A p \in Preconditions : observed[p] = "PASSED"

(* Both criteria of the verification plan.                                 *)
Verified(state) ==
    /\ state.reference = "valid"
    /\ state.deviation # Nil
    /\ state.deviation <= Tolerance

(* What the graph trusts of a status: one it can parse, with no unknowns.  *)
DeviceStatus == [reference : {"valid", "invalid"}, deviation : Deviations]

StatusOf(state) ==
    IF state.reference = "unknown" \/ state.deviation = Nil THEN Nil
    ELSE [reference |-> state.reference, deviation |-> state.deviation]

Recoverable(status) ==
    /\ status # Nil
    /\ status.reference = "invalid"
    /\ status.deviation > Tolerance

Healthy(status) == status # Nil /\ status.reference = "valid"

(* A preparation is trusted when every precondition was evaluated, and     *)
(* blocked when one failed.                                                *)
IsTrustedPreparation(observed) == \A p \in Preconditions : observed[p] # "NOT_EVALUATED"
IsBlocked(observed) == \E p \in Preconditions : observed[p] = "FAILED"

Phases == {"unknown", "proposed", "approved", "rejected", "consumed"}

(* The kinds of run that may calibrate: one that must recover (profile     *)
(* CONFIDENTIAL_RECOVERY) and one that may (CONFIDENTIAL_TROUBLESHOOTING). *)
Recovery ==
    [kind : {"recovery", "troubleshooting"},
     pc : {"model", "preparing", "approval", "deciding", "executing", "ended"},
     status : DeviceStatus \union {Nil},             \* the latest that is trusted
     prepared : BOOLEAN,                        \* it saw a trusted preparation
     execution : ToolCalls \union {Nil},
     outcome : {"SUCCEEDED", "NOT_REQUIRED", "FAILED", "BLOCKED", "INCOMPLETE",
                "answered", "error", Nil}]

(* "DENIED": the claim failed.  "ERROR": there is no result, whether or not *)
(* the device was operated.                                                *)
Execution ==
    [run : RecoveryRuns,
     pc : {"claimed", "guarded", "operated", "ended"},
     operated : BOOLEAN,
     outcome : {"SUCCEEDED", "FAILED", "BLOCKED", "DENIED", "ERROR", Nil}]

ASSUME NilAssumption ==
    /\ Nil \notin ToolCalls
    /\ Nil \notin DeviceStatus
    /\ Nil \notin Recovery
    /\ Nil \notin Execution
    /\ Nil \notin {"SUCCEEDED", "NOT_REQUIRED", "FAILED", "BLOCKED", "INCOMPLETE",
                   "answered", "error", "DENIED", "ERROR"}

RecoveryTypeOK ==
    /\ device \in DeviceState
    /\ operator \in ToolCalls \union {Nil}
    /\ witnessed \subseteq ToolCalls
    /\ approvals \in [RecoveryRuns -> Phases]
    /\ recoveries \in [RecoveryRuns -> Recovery \union {Nil}]
    /\ executions \in [ToolCalls -> Execution \union {Nil}]

(* The encoder has lost its reference.                                     *)
InitRecovery ==
    /\ device \in DeviceState
    /\ device.reference = "invalid"
    /\ device.deviation # Nil
    /\ device.deviation > Tolerance
    /\ operator = Nil
    /\ witnessed = {}
    /\ approvals = [r \in RecoveryRuns |-> "unknown"]
    /\ recoveries = [r \in RecoveryRuns |-> Nil]
    /\ executions = [e \in ToolCalls |-> Nil]
-----------------------------------------------------------------------------
(* The graph of a run.                                                     *)

At(r, pc) == recoveries[r] # Nil /\ recoveries[r].pc = pc

Ends(r, outcome) ==
    recoveries' = [recoveries EXCEPT ![r] = [@ EXCEPT !.pc = "ended", !.outcome = outcome]]

Begins(r, kind) ==
    /\ recoveries[r] = Nil
    /\ recoveries' = [recoveries EXCEPT ![r] =
          [kind |-> kind, pc |-> "model", status |-> Nil, prepared |-> FALSE,
           execution |-> Nil, outcome |-> Nil]]
    /\ UNCHANGED <<device, operator, witnessed, approvals, executions>>

(* The model has the status read; where a recovery is required the graph   *)
(* takes over as soon as the status says whether it is.  Elsewhere it      *)
(* makes nothing of it.                                                    *)
ReadsStatus(r) ==
    /\ At(r, "model")
    /\ recoveries[r].kind = "recovery"
    /\ LET status == StatusOf(device)
           read == [recoveries[r] EXCEPT !.status = status]
       IN recoveries' = [recoveries EXCEPT ![r] =
             IF Recoverable(status) THEN [read EXCEPT !.pc = "preparing"]
             ELSE IF Healthy(status)
             THEN [read EXCEPT !.pc = "ended", !.outcome = "NOT_REQUIRED"]
             ELSE read]
    /\ UNCHANGED <<device, operator, witnessed, approvals, executions>>

(* The model has a calibration prepared.                                   *)
CallsPrepare(r, observed) ==
    /\ At(r, "model")
    /\ recoveries' = [recoveries EXCEPT ![r].prepared = @ \/ IsTrustedPreparation(observed)]
    /\ UNCHANGED <<device, operator, witnessed, approvals, executions>>

PutsToHuman(r) ==
    /\ recoveries' = [recoveries EXCEPT ![r].pc = "approval"]
    /\ approvals' = [approvals EXCEPT ![r] = "proposed"]

(* The graph has it prepared, and puts it to a human unless it is blocked. *)
Prepares(r, observed) ==
    /\ At(r, "preparing")
    /\ IF IsTrustedPreparation(observed) /\ ~ IsBlocked(observed)
       THEN PutsToHuman(r)
       ELSE /\ Ends(r, IF IsTrustedPreparation(observed) THEN "BLOCKED" ELSE "INCOMPLETE")
            /\ UNCHANGED approvals
    /\ UNCHANGED <<device, operator, witnessed, executions>>

(* A fault: the model's word is taken for the preparation.                 *)
ProposesUnprepared(r) ==
    /\ At(r, "model")
    /\ PutsToHuman(r)
    /\ UNCHANGED <<device, operator, witnessed, executions>>

(* The model proposes the calibration of what was prepared, at any time.   *)
Proposes(r) ==
    /\ At(r, "model")
    /\ recoveries[r].prepared
    /\ PutsToHuman(r)
    /\ UNCHANGED <<device, operator, witnessed, executions>>

(* The model answers.                                                      *)
Finishes(r) ==
    /\ At(r, "model")
    /\ Ends(r, IF recoveries[r].kind = "recovery" THEN "INCOMPLETE" ELSE "answered")
    /\ UNCHANGED <<device, operator, witnessed, approvals, executions>>

(* A human decides, and the graph is resumed with the decision.            *)
Decides(r, decision) ==
    /\ At(r, "approval")
    /\ approvals' = [approvals EXCEPT ![r] = decision]
    /\ recoveries' = [recoveries EXCEPT ![r].pc = "deciding"]
    /\ UNCHANGED <<device, operator, witnessed, executions>>

Cancels(r) ==
    /\ At(r, "deciding")
    /\ approvals[r] = "rejected"
    /\ Ends(r, "BLOCKED")
    /\ UNCHANGED <<device, operator, witnessed, approvals, executions>>

(* What the graph makes of an answer: only a verified success succeeds.    *)
OutcomeOf(execution) ==
    IF execution.outcome \in {"SUCCEEDED", "BLOCKED"} THEN execution.outcome
    ELSE IF execution.outcome = "FAILED" THEN "FAILED" ELSE "error"

Receives(r) ==
    /\ At(r, "executing")
    /\ executions[recoveries[r].execution].pc = "ended"
    /\ Ends(r, OutcomeOf(executions[recoveries[r].execution]))
    /\ UNCHANGED <<device, operator, witnessed, approvals, executions>>

(* The run raises, times out or is stopped; what it has called goes on.    *)
Fails(r) ==
    /\ recoveries[r] # Nil
    /\ recoveries[r].pc \notin {"approval", "ended"}
    /\ Ends(r, "error")
    /\ UNCHANGED <<device, operator, witnessed, approvals, executions>>
-----------------------------------------------------------------------------
(* The hardware MCP server.                                                *)

ExecutionEnds(e, outcome) ==
    executions' = [executions EXCEPT ![e] = [@ EXCEPT !.pc = "ended", !.outcome = outcome]]

NewExecution(r, pc, outcome) == [run |-> r, pc |-> pc, operated |-> FALSE, outcome |-> outcome]

(* The tool is refused: the fresh preparation cannot read the device, or   *)
(* the claim fails because the approval is spent or its run has ended.     *)
(* Which runs have ended the store says, so that a claim may fail or not.  *)
IsDenied(e, r) ==
    /\ executions[e] = Nil
    /\ executions' = [executions EXCEPT ![e] = NewExecution(r, "ended", "DENIED")]
    /\ UNCHANGED approvals

(* A fault: the approval is checked and left as it is.                     *)
ClaimsUnconsumed(e, r) ==
    /\ executions[e] = Nil
    /\ approvals[r] = "approved"
    /\ executions' = [executions EXCEPT ![e] = NewExecution(r, "claimed", Nil)]
    /\ UNCHANGED approvals

(* The tool is called and claims the approval.                             *)
Claims(e, r) ==
    /\ executions[e] = Nil
    /\ approvals[r] = "approved"
    /\ executions' = [executions EXCEPT ![e] = NewExecution(r, "claimed", Nil)]
    /\ approvals' = [approvals EXCEPT ![r] = "consumed"]

(* By the resumed graph, or by another principal that knows the approval.  *)
CallsExecute(r, e) ==
    /\ At(r, "deciding")
    /\ approvals[r] \in {"approved", "consumed"}
    /\ Claims(e, r) \/ IsDenied(e, r)
    /\ recoveries' = [recoveries EXCEPT ![r] = [@ EXCEPT !.pc = "executing", !.execution = e]]
    /\ UNCHANGED <<device, operator, witnessed>>

OtherCalls(r, e) ==
    /\ approvals[r] # "unknown"
    /\ Claims(e, r) \/ IsDenied(e, r)
    /\ UNCHANGED <<device, operator, witnessed, recoveries>>

Looping(e) == executions[e] # Nil /\ executions[e].pc \in {"guarded", "operated"}

(* A fault: other calls are served between the loop's steps.               *)
ObservesConcurrently(e, observed) ==
    /\ executions[e] # Nil
    /\ executions[e].pc = "claimed"
    /\ IF PreconditionsPassed(observed)
       THEN executions' = [executions EXCEPT ![e].pc = "guarded"]
       ELSE ExecutionEnds(e, "BLOCKED")
    /\ UNCHANGED <<device, operator, witnessed, approvals, recoveries>>

(* The loop observes the device; unless every precondition is observed to  *)
(* hold, the recovery is blocked.  From here to its result nothing awaits. *)
Observes(e, observed) ==
    /\ executions[e] # Nil
    /\ executions[e].pc = "claimed"
    /\ \A f \in ToolCalls : ~ Looping(f)
    /\ IF PreconditionsPassed(observed)
       THEN executions' = [executions EXCEPT ![e].pc = "guarded"]
       ELSE ExecutionEnds(e, "BLOCKED")
    /\ UNCHANGED <<device, operator, witnessed, approvals, recoveries>>

(* The device is told to calibrate, and does: its reference is valid, its  *)
(* deviation is what it is.                                                *)
Operates(e) ==
    /\ executions[e] # Nil
    /\ executions[e].pc = "guarded"
    /\ \E d \in Deviations \union {Nil} :
          device' = [device EXCEPT !.reference = "valid", !.deviation = d]
    /\ operator' = e
    /\ executions' = [executions EXCEPT ![e] = [@ EXCEPT !.pc = "operated", !.operated = TRUE]]
    /\ UNCHANGED <<witnessed, approvals, recoveries>>

(* The device rejects or fails the operation, and is as it was.            *)
OperationFails(e) ==
    /\ executions[e] # Nil
    /\ executions[e].pc = "guarded"
    /\ ExecutionEnds(e, "FAILED")
    /\ UNCHANGED <<device, operator, witnessed, approvals, recoveries>>

(* What a reader of the device would see at the loop's last observation.   *)
Witness(e) ==
    /\ operator' = Nil
    /\ witnessed' = IF operator = e /\ Verified(device) THEN witnessed \union {e} ELSE witnessed

(* The device is observed anew and verified.  A deviation that is not      *)
(* observed raises, although the operation was executed.                   *)
Verifies(e) ==
    /\ executions[e] # Nil
    /\ executions[e].pc = "operated"
    /\ ExecutionEnds(e, IF device.deviation = Nil THEN "ERROR"
                        ELSE IF Verified(device) THEN "SUCCEEDED" ELSE "FAILED")
    /\ Witness(e)
    /\ UNCHANGED <<device, approvals, recoveries>>

(* The call is cancelled at its claim, the device raises, or the server    *)
(* stops.                                                                  *)
IsCutShort(e) ==
    /\ executions[e] # Nil
    /\ executions[e].pc # "ended"
    /\ ExecutionEnds(e, "ERROR")
    /\ operator' = IF operator = e THEN Nil ELSE operator
    /\ UNCHANGED <<device, witnessed, approvals, recoveries>>
-----------------------------------------------------------------------------
(* The device loses its reference, or shows none.  It finds one only by    *)
(* calibrating.                                                            *)
ReferenceLost ==
    /\ \E state \in DeviceState : state.reference # "valid" /\ device' = state
    /\ UNCHANGED <<operator, witnessed, approvals, recoveries, executions>>

GraphStep(r) ==
    \/ \E kind \in {"recovery", "troubleshooting"} : Begins(r, kind)
    \/ ReadsStatus(r)
    \/ \E observed \in Observations : CallsPrepare(r, observed) \/ Prepares(r, observed)
    \/ Proposes(r)
    \/ Finishes(r)
    \/ \E decision \in {"approved", "rejected"} : Decides(r, decision)
    \/ Cancels(r)
    \/ \E e \in ToolCalls : CallsExecute(r, e)
    \/ Receives(r)
    \/ Fails(r)

ServerStep(e) ==
    \/ \E r \in RecoveryRuns : OtherCalls(r, e)
    \/ \E observed \in Observations : Observes(e, observed)
    \/ Operates(e)
    \/ OperationFails(e)
    \/ Verifies(e)
    \/ IsCutShort(e)

NextRecovery ==
    \/ \E r \in RecoveryRuns : GraphStep(r)
    \/ \E e \in ToolCalls : ServerStep(e)
    \/ ReferenceLost

RecoverySpec == InitRecovery /\ [][NextRecovery]_recoveryVars
-----------------------------------------------------------------------------
(* "The Agent must never report recovery success solely because the        *)
(* calibration command completed" (ADR-018): a run that reports success    *)
(* had the device observed, by its own execution after its own operation,  *)
(* with a valid reference within tolerance, whatever other runs and the    *)
(* factory did meanwhile.                                                  *)
SuccessIsWitnessed ==
    \A r \in RecoveryRuns : recoveries[r] # Nil /\ recoveries[r].outcome = "SUCCEEDED" =>
        /\ recoveries[r].execution \in witnessed
        /\ executions[recoveries[r].execution].run = r

(* A run that ended blocked, not required, incomplete or without a         *)
(* calibration has changed nothing on the device, and nobody else can do   *)
(* so any more with its approval.                                          *)
UnrecoveredIsUntouched ==
    \A r \in RecoveryRuns, e \in ToolCalls :
        /\ recoveries[r] # Nil
        /\ recoveries[r].outcome \in {"BLOCKED", "NOT_REQUIRED", "INCOMPLETE", "answered"}
        /\ executions[e] # Nil /\ executions[e].run = r
        => ~ executions[e].operated

(* Nothing is calibrated but what its run had prepared by the server, or   *)
(* found invalid and out of tolerance, whoever sends the call.             *)
CalibratedWasPrepared ==
    \A e \in ToolCalls : executions[e] # Nil /\ executions[e].operated =>
        LET recovery == recoveries[executions[e].run]
        IN recovery # Nil /\ (recovery.prepared \/ Recoverable(recovery.status))

(* A run is told that no recovery is required only when it is              *)
(* "demonstrably unnecessary" (_healthy_position_reference_status): the    *)
(* status it saw would pass the verification of a recovery.                *)
NotRequiredIsHealthy ==
    \A r \in RecoveryRuns : recoveries[r] # Nil /\ recoveries[r].outcome = "NOT_REQUIRED" =>
        recoveries[r].status.deviation <= Tolerance

CalibrationAction == "execute_reference_calibration"

OperatedFor(r) ==
    {c \in {CalibrationAction} : \E e \in ToolCalls :
        executions[e] # Nil /\ executions[e].run = r /\ executions[e].operated}

boundBar     == [r \in RecoveryRuns |-> IF approvals[r] = "unknown" THEN {} ELSE {CalibrationAction}]
performedBar == [r \in RecoveryRuns |-> OperatedFor(r)]

Approval == INSTANCE ProtectedAction
    WITH Keys <- RecoveryRuns, Proposals <- {CalibrationAction},
         phase <- approvals, bound <- boundBar, performed <- performedBar

(* The device is operated as the abstract approval allows.                 *)
ImplementsApproval == Approval!Spec
=============================================================================
