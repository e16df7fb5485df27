----------------------------- MODULE AgentGraph -----------------------------
(***************************************************************************)
(* The graph of one run of the troubleshooting agent                       *)
(* (agent/langgraph_troubleshooting_agent.py): the bounded loop of model   *)
(* decisions and tool calls, the evidence it insists on, the approval of a *)
(* write, and the branch that recovers a device.  One action is one node   *)
(* and its outgoing route, which LangGraph runs as one superstep; a        *)
(* superstep is checkpointed, and at most RecursionLimit of them run       *)
(* between the start, or a resume, and the next interrupt.                 *)
(*                                                                         *)
(* The model decides as it likes: it may answer at any time and call any   *)
(* tool of the session, also one it was not shown.  A tool returns any     *)
(* result.  A first call that the graph makes in the model's place (exact  *)
(* reference reads and discovery) is one of the calls the model may make.  *)
(***************************************************************************)
EXTENDS Naturals, EvidenceLedger

CONSTANTS MaxToolCalls,     \* MAX_TOOL_CALLS
          RecursionLimit    \* "recursion_limit" of _checkpoint_config

ASSUME LimitsAssumption == MaxToolCalls \in Nat \ {0} /\ RecursionLimit \in Nat

Ticket == "create_maintenance_ticket"
Calibration == "execute_reference_calibration"
Preparation == "prepare_reference_calibration"
ReferenceStatus == "get_position_reference_status"

Writes == {Ticket, Calibration}

(* "list_stations" stands for every read that is no evidence.              *)
Tools == EvidenceTools \union Writes \union {Preparation, ReferenceStatus, "list_stations"}

(* Kinds of run, by profile and request: what evidence they require,       *)
(* whether they require a verified recovery or were asked for the stations *)
(* explicitly, and the tools of their session.                             *)
RecoveryTools == {ReferenceStatus, Preparation, Calibration}

Scopes ==
    [required : Contracts, recovery : {FALSE}, discovery : BOOLEAN, tools : {Tools}]
    \union [required : {{}, {"CURRENT_MACHINE_STATE"}}, recovery : {FALSE},
            discovery : BOOLEAN, tools : {{"list_stations", "get_machine_status"}}]
    \union [required : {{}}, recovery : {TRUE}, discovery : {FALSE}, tools : {RecoveryTools}]
    \* an agent composed without the knowledge server
    \union [required : {Requirements}, recovery : {FALSE}, discovery : {FALSE},
            tools : {Tools \ {"search_documentation"}}]

VARIABLES
    scope,         \* the kind of the run
    pc,            \* the next node, "waiting" for a decision, or "ended"
    called,        \* the tool of the model's last call, or the pending action
    steps,         \* supersteps of the current invocation
    calls,         \* executed_tool_count
    machines,      \* the ledger's observations of the station
    documented,    \* and of documentation
    attempts,      \* evidence_finalization_attempts
    reference,     \* what the latest reference status says, if it is trusted
    prepared,      \* a trusted preparation was observed
    status,        \* run_status, SUCCESS split by what it stands on
    answer         \* final_answer is not None

evidence == <<machines, documented, attempts>>
recovery == <<reference, prepared>>
vars == <<scope, pc, called, steps, calls, evidence, recovery, status, answer>>

Successes == {"ANSWERED", "CANCELLED", "RECOVERED", "NOT_REQUIRED"}

Statuses ==
    Successes \union
    {"LIMIT_REACHED", "EVIDENCE_REQUIREMENTS_UNSATISFIED", "EVIDENCE_SOURCE_UNAVAILABLE",
     "RECOVERY_INCOMPLETE", "RECOVERY_BLOCKED", "RECOVERY_FAILED",
     "error", "recursion"}   \* raised, out of supersteps: no run_status

(* None is a value of its own.                                             *)
ASSUME NoneAssumption == None \notin Faults /\ None \notin Statuses

TypeOK ==
    /\ scope \in Scopes
    /\ pc \in {"model", "tool", "prepare_recovery", "recovery_not_required", "prepare_action",
               "approval", "waiting", "execute_action", "cancel_action", "ended"}
    /\ called \in Tools \union {None}
    /\ steps \in 0..RecursionLimit
    /\ calls \in 0..MaxToolCalls
    /\ machines \subseteq MachineObservations
    /\ documented \subseteq Faults
    /\ attempts \in 0..(MaxToolCalls - 1)
    /\ reference \in {"recoverable", "healthy", None}
    /\ prepared \in BOOLEAN
    /\ status \in Statuses \union {None}
    /\ answer \in BOOLEAN

Init ==
    /\ scope \in Scopes
    /\ pc = "model"
    /\ called = None
    /\ steps = 0
    /\ calls = 0
    /\ machines = {}
    /\ documented = {}
    /\ attempts = 0
    /\ reference = None
    /\ prepared = FALSE
    /\ status = None
    /\ answer = FALSE

IsComplete == Complete(scope.required, machines, documented)

HasSource == EligibleTools(scope.required, machines, documented, scope.tools) # {}

(* The node is run in a superstep.                                         *)
Runs(node) ==
    /\ pc = node
    /\ steps < RecursionLimit
    /\ steps' = steps + 1
    /\ UNCHANGED scope

GoesTo(node) == pc' = node /\ UNCHANGED <<status, answer>>

EndsWith(verdict, hasAnswer) ==
    /\ pc' = "ended"
    /\ status' = verdict
    /\ answer' = hasAnswer
-----------------------------------------------------------------------------
(* The model node (_model_node, _route_after_model).                       *)

(* Evidence is missing and nothing admitted can produce it.                *)
FindsNoSource ==
    /\ Runs("model")
    /\ ~ IsComplete /\ ~ HasSource
    /\ EndsWith("EVIDENCE_SOURCE_UNAVAILABLE", TRUE)
    /\ UNCHANGED <<called, calls, evidence, recovery>>

(* The model is asked, and has answered without a call.                    *)
AnswersWithoutCall ==
    /\ Runs("model")
    /\ IsComplete \/ HasSource
    /\ UNCHANGED <<called, calls, machines, documented, recovery>>

(* An explicit request for the stations is not answered unread.            *)
MustDiscover == scope.discovery /\ calls = 0

IsToldToDiscover ==
    /\ AnswersWithoutCall
    /\ MustDiscover
    /\ GoesTo("model")
    /\ UNCHANGED attempts

GivesUpRecovery ==
    /\ AnswersWithoutCall
    /\ ~ MustDiscover
    /\ scope.recovery
    /\ EndsWith("RECOVERY_INCOMPLETE", TRUE)
    /\ UNCHANGED attempts

(* A draft without the evidence is refused, and the last one is fatal.     *)
IsRefused ==
    /\ AnswersWithoutCall
    /\ ~ MustDiscover /\ ~ scope.recovery /\ ~ IsComplete
    /\ IF attempts + 1 >= MaxToolCalls
       THEN EndsWith("EVIDENCE_REQUIREMENTS_UNSATISFIED", TRUE) /\ UNCHANGED attempts
       ELSE GoesTo("model") /\ attempts' = attempts + 1

Answers ==
    /\ AnswersWithoutCall
    /\ ~ MustDiscover /\ ~ scope.recovery /\ IsComplete
    /\ EndsWith("ANSWERED", TRUE)
    /\ UNCHANGED attempts

(* The model calls a tool, and gets no further one when all are spent.     *)
Calls(tool) ==
    /\ Runs("model")
    /\ IsComplete \/ HasSource
    /\ tool \in scope.tools
    /\ IF calls < MaxToolCalls
       THEN /\ GoesTo(IF tool \in Writes THEN "prepare_action" ELSE "tool")
            /\ called' = tool
       ELSE /\ IF IsComplete THEN EndsWith("LIMIT_REACHED", FALSE)
               ELSE EndsWith("EVIDENCE_REQUIREMENTS_UNSATISFIED", TRUE)
            /\ UNCHANGED called
    /\ UNCHANGED <<calls, evidence, recovery>>
-----------------------------------------------------------------------------
(* The tool node (_atool_node, _route_after_tool).                         *)

(* A read has returned; the attempts to answer start anew.                 *)
Returns(tool) ==
    /\ Runs("tool")
    /\ called = tool
    /\ calls' = calls + 1
    /\ called' = None
    /\ attempts' = 0

(* The station is not found, is another one, or is observed.               *)
ReturnsMachineStatus ==
    /\ Returns("get_machine_status")
    /\ \/ UNCHANGED machines
       \/ \E m \in MachineObservations : machines' = machines \union {m}
    /\ GoesTo("model")
    /\ UNCHANGED <<documented, recovery>>

(* Documents are found about any faults, whatever was searched for.        *)
ReturnsDocumentation ==
    /\ Returns("search_documentation")
    /\ \E found \in SUBSET Faults : documented' = documented \union found
    /\ GoesTo("model")
    /\ UNCHANGED <<machines, recovery>>

(* Where a recovery is required, its branch follows the latest status,     *)
(* after whatever read.                                                    *)
RouteAfterTool ==
    GoesTo(IF scope.recovery /\ reference' = "recoverable" THEN "prepare_recovery"
           ELSE IF scope.recovery /\ reference' = "healthy" THEN "recovery_not_required"
           ELSE "model")

ReturnsReferenceStatus ==
    /\ Returns(ReferenceStatus)
    /\ reference' \in {"recoverable", "healthy", None}
    /\ RouteAfterTool
    /\ UNCHANGED <<machines, documented, prepared>>

ReturnsPreparation ==
    /\ Returns(Preparation)
    /\ prepared' \in {prepared, TRUE}
    /\ UNCHANGED <<machines, documented, reference>>
    /\ RouteAfterTool

ReturnsOther ==
    /\ Returns("list_stations")
    /\ GoesTo("model")
    /\ UNCHANGED <<machines, documented, recovery>>
-----------------------------------------------------------------------------
(* The recovery branch (_aprepare_reference_calibration_node,              *)
(* _recovery_not_required_node).                                           *)

(* A fault: room is kept for the preparation, not for its execution.       *)
PreparesRecoveryUnreserved ==
    /\ Runs("prepare_recovery")
    /\ \/ /\ calls + 1 > MaxToolCalls
          /\ EndsWith("LIMIT_REACHED", TRUE)
          /\ UNCHANGED <<called, calls, prepared>>
       \/ /\ calls + 1 <= MaxToolCalls
          /\ calls' = calls + 1
          /\ \/ \E verdict \in {"RECOVERY_INCOMPLETE", "RECOVERY_BLOCKED"} :
                   EndsWith(verdict, TRUE) /\ UNCHANGED <<called, prepared>>
             \/ GoesTo("approval") /\ called' = Calibration /\ prepared' = TRUE
    /\ UNCHANGED <<evidence, reference>>

(* The graph has the calibration prepared while there is room for its      *)
(* execution too, and goes on to a human unless the preparation is not     *)
(* trusted or is blocked.                                                  *)
PreparesRecovery ==
    /\ Runs("prepare_recovery")
    /\ \/ /\ calls + 2 > MaxToolCalls
          /\ EndsWith("LIMIT_REACHED", TRUE)
          /\ UNCHANGED <<called, calls, prepared>>
       \/ /\ calls + 2 <= MaxToolCalls
          /\ calls' = calls + 1
          /\ \/ \E verdict \in {"RECOVERY_INCOMPLETE", "RECOVERY_BLOCKED"} :
                   EndsWith(verdict, TRUE) /\ UNCHANGED <<called, prepared>>
             \/ GoesTo("approval") /\ called' = Calibration /\ prepared' = TRUE
    /\ UNCHANGED <<evidence, reference>>

NeedsNoRecovery ==
    /\ Runs("recovery_not_required")
    /\ EndsWith("NOT_REQUIRED", TRUE)
    /\ UNCHANGED <<called, calls, evidence, recovery>>
-----------------------------------------------------------------------------
(* Writes: proposed, put to a human, executed or cancelled.                *)

(* A calibration that nothing prepared raises.                             *)
PreparesAction ==
    /\ Runs("prepare_action")
    /\ called = Calibration => prepared
    /\ GoesTo("approval")
    /\ UNCHANGED <<called, calls, evidence, recovery>>

Interrupts ==
    /\ Runs("approval")
    /\ GoesTo("waiting")
    /\ UNCHANGED <<called, calls, evidence, recovery>>

(* The run is resumed, in a new invocation whose first superstep runs the  *)
(* approval node again, now with the decision.                             *)
IsResumed(decision) ==
    /\ pc = "waiting"
    /\ RecursionLimit > 0
    /\ steps' = 1
    /\ GoesTo(IF decision = "approve" THEN "execute_action" ELSE "cancel_action")
    /\ UNCHANGED <<scope, called, calls, evidence, recovery>>

ExecutesAction ==
    /\ Runs("execute_action")
    /\ called' = None
    /\ IF calls >= MaxToolCalls
       THEN EndsWith("LIMIT_REACHED", FALSE) /\ UNCHANGED calls
       ELSE /\ calls' = calls + 1
            /\ IF called = Ticket THEN GoesTo("model")
               ELSE \E verdict \in {"RECOVERED", "RECOVERY_BLOCKED", "RECOVERY_FAILED"} :
                        EndsWith(verdict, TRUE)
    /\ UNCHANGED <<evidence, recovery>>

CancelsAction ==
    /\ Runs("cancel_action")
    /\ called' = None
    /\ EndsWith(IF called = Ticket THEN "CANCELLED" ELSE "RECOVERY_BLOCKED", TRUE)
    /\ UNCHANGED <<calls, evidence, recovery>>
-----------------------------------------------------------------------------
(* A node raises, or the run is stopped; the checkpoint stays as it is.    *)
Raises ==
    /\ pc \notin {"waiting", "ended"}
    /\ EndsWith("error", FALSE)
    /\ UNCHANGED <<scope, called, steps, calls, evidence, recovery>>

(* LangGraph runs no further superstep (GraphRecursionError).              *)
IsOutOfSteps ==
    /\ pc \notin {"waiting", "ended"}
    /\ steps = RecursionLimit
    /\ EndsWith("recursion", FALSE)
    /\ UNCHANGED <<scope, called, steps, calls, evidence, recovery>>

ModelNode ==
    \/ FindsNoSource
    \/ IsToldToDiscover
    \/ GivesUpRecovery
    \/ IsRefused
    \/ Answers
    \/ \E tool \in Tools : Calls(tool)

ToolNode ==
    \/ ReturnsMachineStatus
    \/ ReturnsDocumentation
    \/ ReturnsReferenceStatus
    \/ ReturnsPreparation
    \/ ReturnsOther

ActionNode ==
    \/ PreparesAction
    \/ Interrupts
    \/ \E decision \in {"approve", "reject"} : IsResumed(decision)
    \/ ExecutesAction
    \/ CancelsAction

Next ==
    \/ ModelNode
    \/ ToolNode
    \/ PreparesRecovery
    \/ NeedsNoRecovery
    \/ ActionNode
    \/ Raises
    \/ IsOutOfSteps

Spec == Init /\ [][Next]_vars
-----------------------------------------------------------------------------
(* "A grounded root-cause analysis needs facts to exist before it can be   *)
(* accepted" (ADR-020): a troubleshooting run that answered has observed   *)
(* the station running without a fault, or a fault of it and a document    *)
(* about that very fault, however the reads, the refused drafts and the    *)
(* approvals came between.                                                 *)
AnswersAreGrounded ==
    status = "ANSWERED" /\ scope.required = Requirements =>
        \E m \in machines : IF m.fault = None THEN m.state = "RUNNING" ELSE m.fault \in documented

(* What a human is asked for can still be done when it is approved: the    *)
(* tool budget is never spent between the proposal and its execution.      *)
ApprovedIsAffordable ==
    pc \in {"approval", "waiting", "execute_action"} => calls < MaxToolCalls

(* What the two invariants above stand on: a node that spends a call has   *)
(* one left, and a run that has a verdict does nothing any more.           *)
IInv ==
    /\ TypeOK
    /\ pc \in {"tool", "prepare_action", "approval", "waiting", "execute_action"} =>
           calls < MaxToolCalls
    /\ status # None => pc = "ended"
    /\ AnswersAreGrounded

(* The prerequisites of the sources never lock each other out: a run whose *)
(* session has both evidence tools always has one that can bring it on.    *)
SourcesNeverDeadlock ==
    EvidenceTools \subseteq scope.tools => status # "EVIDENCE_SOURCE_UNAVAILABLE"

(* "LIMIT_REACHED cannot contain a final answer", "LIMIT_REACHED requires  *)
(* {MAX_TOOL_CALLS} executed tool calls" (AgentRunResult).                 *)
LimitIsReached == status = "LIMIT_REACHED" => ~ answer /\ calls = MaxToolCalls

(* A model that "repeatedly attempts unsupported finalization without      *)
(* acquiring evidence, terminates as EVIDENCE_REQUIREMENTS_UNSATISFIED"    *)
(* (ADR-020), which is a verdict on the run and no crash of the graph.     *)
UnsupportedIsJudged ==
    ~ scope.discovery /\ scope.required # {} /\ machines = {} /\ documented = {} =>
        status # "recursion"
=============================================================================
