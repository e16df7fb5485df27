------------------------- MODULE AgentGraph_proofs --------------------------
(***************************************************************************)
(* Proofs about a request to the agent: about the graph of its run, for    *)
(* any faults, tool budget and recursion limit; about its sessions, for    *)
(* any servers and number of retries; about what it publishes, for any     *)
(* tools, ids, requests and limits; and about the knowledge server behind  *)
(* one of its tools, for any documents and rankers.                        *)
(***************************************************************************)
EXTENDS AgentRequest, KnowledgeSearch, SumTheorems, Sequences

USE NoneAssumption

(* A complete contract of a troubleshooting run holds an observation that  *)
(* is healthy, or a fault that is documented.                              *)
LEMMA CompleteIsGrounded ==
    ASSUME NEW M \in SUBSET MachineObservations, NEW D \in SUBSET Faults,
           Complete(Requirements, M, D)
    PROVE  \E m \in M : IF m.fault = None THEN m.state = "RUNNING" ELSE m.fault \in D
<1>1. IsSatisfied("RELEVANT_FAULT_DOCUMENTATION", M, D)
  BY DEF Complete, Missing, Satisfied, Requirements
<1>2. CASE ActiveFaults(M) \intersect D # {}
  <2>1. PICK f \in D : f \in ActiveFaults(M)
    BY <1>2
  <2>2. PICK m \in M : m.fault = f
    BY <2>1 DEF ActiveFaults
  <2> QED
    BY <2>1, <2>2 DEF ActiveFaults
<1>3. CASE ObservedHealthy(M)
  BY <1>3 DEF ObservedHealthy
<1> QED
  BY <1>1, <1>2, <1>3 DEF IsSatisfied

(* Whatever is missing of a contract, one of the two tools can produce it. *)
LEMMA EvidenceToolsSuffice ==
    ASSUME NEW required \in Contracts,
           NEW M \in SUBSET MachineObservations, NEW D \in SUBSET Faults,
           NEW admitted, EvidenceTools \subseteq admitted,
           ~ Complete(required, M, D)
    PROVE  EligibleTools(required, M, D, admitted) # {}
<1> DEFINE missing == Missing(required, M, D)
<1>1. PICK q \in missing : TRUE
  BY DEF Complete
<1>2. q \in Requirements /\ q \in required
  BY <1>1 DEF Missing, Contracts, Requirements
<1>3. CASE "CURRENT_MACHINE_STATE" \in missing \/ "ACTIVE_FAULT" \in missing
  <2>1. "get_machine_status" \in EligibleTools(required, M, D, admitted)
    BY <1>3 DEF EligibleTools, EvidenceTools, Produces, Prerequisites
  <2> QED
    BY <2>1
<1>4. CASE "CURRENT_MACHINE_STATE" \notin missing /\ "ACTIVE_FAULT" \notin missing
  <2>1. q = "RELEVANT_FAULT_DOCUMENTATION"
    BY <1>1, <1>2, <1>4 DEF Requirements
  <2>2. required = Requirements
    BY <1>2, <2>1 DEF Contracts
  <2>3. "ACTIVE_FAULT" \in Satisfied(required, M, D)
    BY <1>4, <2>2 DEF Missing, Requirements
  <2>4. "search_documentation" \in EligibleTools(required, M, D, admitted)
    BY <1>1, <2>1, <2>3 DEF EligibleTools, EvidenceTools, Produces, Prerequisites
  <2> QED
    BY <2>4
<1> QED
  BY <1>3, <1>4

(* A run starts without a call, an observation or a verdict, so the        *)
(* invariant holds.                                                        *)
LEMMA InitHolds == Init => IInv
<1> SUFFICES ASSUME Init PROVE IInv
  OBVIOUS
<1>1. steps \in 0..RecursionLimit /\ calls \in 0..MaxToolCalls /\ attempts \in 0..(MaxToolCalls - 1)
  BY LimitsAssumption DEF Init
<1>2. TypeOK
  BY <1>1 DEF Init, TypeOK
<1> QED
  BY <1>2 DEF Init, IInv, AnswersAreGrounded, Statuses, Successes

(* A node runs before there is a verdict.                                  *)
LEMMA RunsInTime ==
    ASSUME IInv, NEW node, node # "ended", Runs(node)
    PROVE  pc = node /\ scope' = scope /\ steps' \in 0..RecursionLimit /\ status = None
  BY LimitsAssumption DEF IInv, TypeOK, Runs

(* A verdict that is no answer needs no evidence.                          *)
LEMMA EndsWithVerdict ==
    ASSUME IInv, NEW verdict \in Statuses \ {"ANSWERED"}, NEW hasAnswer \in BOOLEAN,
           EndsWith(verdict, hasAnswer), UNCHANGED <<machines, documented>>,
           scope' = scope, called' \in Tools \union {None}, steps' \in 0..RecursionLimit,
           calls' \in 0..MaxToolCalls, attempts' \in 0..(MaxToolCalls - 1),
           reference' = reference, prepared' \in BOOLEAN
    PROVE  IInv'
  BY DEF IInv, TypeOK, EndsWith, AnswersAreGrounded

(* The run goes on, with a call left if the next node is to spend one.     *)
LEMMA GoesOn ==
    ASSUME IInv, status = None,
           NEW node \in {"model", "tool", "prepare_recovery", "recovery_not_required",
                         "prepare_action", "approval", "waiting", "execute_action", "cancel_action"},
           GoesTo(node),
           node \in {"tool", "prepare_action", "approval", "waiting", "execute_action"} =>
               calls' < MaxToolCalls,
           scope' = scope, called' \in Tools \union {None}, steps' \in 0..RecursionLimit,
           calls' \in 0..MaxToolCalls, attempts' \in 0..(MaxToolCalls - 1),
           machines' \subseteq MachineObservations, documented' \subseteq Faults,
           reference' \in {"recoverable", "healthy", None}, prepared' \in BOOLEAN
    PROVE  IInv'
  BY DEF IInv, TypeOK, GoesTo, AnswersAreGrounded, Statuses, Successes

(* The model node keeps the invariant: it answers a troubleshooting run    *)
(* only when its contract is complete, and lets a call pass only while one *)
(* is left.                                                                *)
LEMMA ModelNodeKeepsInvariant ==
    ASSUME IInv, ModelNode
    PROVE  IInv'
<1> USE DEF IInv, TypeOK, evidence, recovery
<1>1. CASE FindsNoSource
  BY <1>1, RunsInTime, EndsWithVerdict DEF FindsNoSource, Statuses
<1>2. ASSUME AnswersWithoutCall
      PROVE  /\ status = None /\ scope' = scope /\ steps' \in 0..RecursionLimit
             /\ UNCHANGED <<called, calls, machines, documented, reference, prepared>>
  BY <1>2, RunsInTime DEF AnswersWithoutCall
<1>3. CASE IsToldToDiscover
  BY <1>2, <1>3, GoesOn DEF IsToldToDiscover
<1>4. CASE GivesUpRecovery
  BY <1>2, <1>4, EndsWithVerdict DEF GivesUpRecovery, Statuses
<1>5. CASE IsRefused
  <2>1. CASE attempts + 1 >= MaxToolCalls
    BY <1>2, <1>5, <2>1, EndsWithVerdict DEF IsRefused, Statuses
  <2>2. CASE ~ attempts + 1 >= MaxToolCalls
    <3>1. attempts + 1 \in 0..(MaxToolCalls - 1)
      BY <2>2, LimitsAssumption
    <3> QED
      BY <1>2, <1>5, <2>2, <3>1, GoesOn DEF IsRefused
  <2> QED
    BY <2>1, <2>2
<1>6. CASE Answers
  <2>1. TypeOK' /\ pc' = "ended"
    BY <1>2, <1>6 DEF Answers, EndsWith, Statuses, Successes
  <2>2. AnswersAreGrounded'
    BY <1>2, <1>6, CompleteIsGrounded DEF Answers, IsComplete, AnswersAreGrounded
  <2> QED
    BY <2>1, <2>2
<1>7. ASSUME NEW tool \in Tools, Calls(tool) PROVE IInv'
  <2>1. status = None /\ scope' = scope /\ steps' \in 0..RecursionLimit
    BY <1>7, RunsInTime DEF Calls
  <2>2. CASE calls < MaxToolCalls
    BY <1>7, <2>1, <2>2, GoesOn DEF Calls
  <2>3. CASE ~ calls < MaxToolCalls
    BY <1>7, <2>1, <2>3, EndsWithVerdict DEF Calls, Statuses
  <2> QED
    BY <2>2, <2>3
<1> QED
  BY <1>1, <1>3, <1>4, <1>5, <1>6, <1>7 DEF ModelNode

(* A tool's return keeps it: the call that is counted was still to be had. *)
LEMMA ToolNodeKeepsInvariant ==
    ASSUME IInv, ToolNode
    PROVE  IInv'
<1> USE DEF IInv, TypeOK, recovery
<1>1. ASSUME NEW tool, Returns(tool)
      PROVE  /\ status = None /\ scope' = scope /\ steps' \in 0..RecursionLimit
             /\ calls' \in 0..MaxToolCalls /\ called' = None
             /\ attempts' \in 0..(MaxToolCalls - 1)
  <2>1. pc = "tool" /\ status = None /\ scope' = scope /\ steps' \in 0..RecursionLimit
    BY <1>1, RunsInTime DEF Returns
  <2>2. calls < MaxToolCalls
    BY <2>1
  <2> QED
    BY <1>1, <2>1, <2>2, LimitsAssumption DEF Returns
<1>2. CASE ReturnsMachineStatus
  BY <1>1, <1>2, GoesOn DEF ReturnsMachineStatus
<1>3. CASE ReturnsDocumentation
  BY <1>1, <1>3, GoesOn DEF ReturnsDocumentation
<1>4. CASE ReturnsReferenceStatus
  BY <1>1, <1>4, GoesOn DEF ReturnsReferenceStatus, RouteAfterTool
<1>5. CASE ReturnsPreparation
  BY <1>1, <1>5, GoesOn DEF ReturnsPreparation, RouteAfterTool
<1>6. CASE ReturnsOther
  BY <1>1, <1>6, GoesOn DEF ReturnsOther
<1> QED
  BY <1>2, <1>3, <1>4, <1>5, <1>6 DEF ToolNode

(* The recovery branch keeps it: two calls are left before it goes to a    *)
(* human.                                                                  *)
LEMMA PreparesRecoveryKeepsInvariant ==
    ASSUME IInv, PreparesRecovery
    PROVE  IInv'
<1> USE DEF IInv, TypeOK, evidence
<1>1. /\ status = None /\ scope' = scope /\ steps' \in 0..RecursionLimit
      /\ UNCHANGED <<machines, documented, attempts, reference>>
  BY RunsInTime DEF PreparesRecovery
<1>2. CASE calls + 2 > MaxToolCalls
  <2>1. EndsWith("LIMIT_REACHED", TRUE) /\ UNCHANGED <<called, calls, prepared>>
    BY <1>2, LimitsAssumption DEF PreparesRecovery, EndsWith, GoesTo
  <2> QED
    BY <1>1, <2>1, EndsWithVerdict DEF Statuses
<1>3. CASE calls + 2 <= MaxToolCalls
  <2>1. calls + 1 \in 0..MaxToolCalls /\ calls + 1 < MaxToolCalls
    BY <1>3, LimitsAssumption
  <2>2. /\ calls' = calls + 1
        /\ \/ \E verdict \in {"RECOVERY_INCOMPLETE", "RECOVERY_BLOCKED"} :
                 EndsWith(verdict, TRUE) /\ UNCHANGED <<called, prepared>>
           \/ GoesTo("approval") /\ called' = Calibration /\ prepared' = TRUE
    BY <1>3, LimitsAssumption DEF PreparesRecovery, EndsWith, GoesTo
  <2>3. CASE \E verdict \in {"RECOVERY_INCOMPLETE", "RECOVERY_BLOCKED"} :
                 EndsWith(verdict, TRUE) /\ UNCHANGED <<called, prepared>>
    BY <1>1, <2>1, <2>2, <2>3, EndsWithVerdict DEF Statuses
  <2>4. CASE GoesTo("approval") /\ called' = Calibration /\ prepared' = TRUE
    BY <1>1, <2>1, <2>2, <2>4, GoesOn DEF Tools, Writes
  <2> QED
    BY <2>2, <2>3, <2>4
<1> QED
  BY <1>2, <1>3 DEF PreparesRecovery

(* Proposals, decisions and executions keep it: none of them spends a call *)
(* between the proposal and its execution.                                 *)
LEMMA ActionNodeKeepsInvariant ==
    ASSUME IInv, ActionNode
    PROVE  IInv'
<1> USE DEF IInv, TypeOK, evidence, recovery
<1>1. CASE PreparesAction
  BY <1>1, RunsInTime, GoesOn DEF PreparesAction
<1>2. CASE Interrupts
  BY <1>2, RunsInTime, GoesOn DEF Interrupts
<1>3. ASSUME NEW decision \in {"approve", "reject"}, IsResumed(decision) PROVE IInv'
  <2>1. status = None /\ calls < MaxToolCalls /\ steps' \in 0..RecursionLimit
    BY <1>3, LimitsAssumption DEF IsResumed
  <2> QED
    BY <1>3, <2>1, GoesOn DEF IsResumed
<1>4. CASE ExecutesAction
  <2>1. /\ status = None /\ scope' = scope /\ steps' \in 0..RecursionLimit
        /\ calls < MaxToolCalls
    BY <1>4, RunsInTime DEF ExecutesAction
  <2>2. /\ calls + 1 \in 0..MaxToolCalls /\ calls' = calls + 1
        /\ called' = None /\ UNCHANGED <<machines, documented, attempts, reference, prepared>>
        /\ IF called = Ticket THEN GoesTo("model")
           ELSE \E verdict \in {"RECOVERED", "RECOVERY_BLOCKED", "RECOVERY_FAILED"} :
                    EndsWith(verdict, TRUE)
    BY <1>4, <2>1, LimitsAssumption DEF ExecutesAction, EndsWith, GoesTo
  <2>3. CASE called = Ticket
    BY <2>1, <2>2, <2>3, GoesOn
  <2>4. CASE called # Ticket
    <3>1. PICK verdict \in {"RECOVERED", "RECOVERY_BLOCKED", "RECOVERY_FAILED"} :
              EndsWith(verdict, TRUE)
      BY <2>2, <2>4
    <3> QED
      BY <2>1, <2>2, <3>1, EndsWithVerdict DEF Statuses, Successes
  <2> QED
    BY <2>3, <2>4
<1>5. CASE CancelsAction
  BY <1>5, RunsInTime, EndsWithVerdict DEF CancelsAction, Statuses, Successes
<1> QED
  BY <1>1, <1>2, <1>3, <1>4, <1>5 DEF ActionNode

(* Every step keeps the invariant.                                         *)
LEMMA NextKeepsInvariant ==
    ASSUME IInv, [Next]_vars
    PROVE  IInv'
<1> USE DEF evidence, recovery
<1>1. CASE NeedsNoRecovery
  BY <1>1, RunsInTime, EndsWithVerdict DEF NeedsNoRecovery, IInv, TypeOK, Statuses, Successes
<1>2. CASE Raises
  BY <1>2, EndsWithVerdict DEF Raises, IInv, TypeOK, Statuses
<1>3. CASE IsOutOfSteps
  BY <1>3, EndsWithVerdict DEF IsOutOfSteps, IInv, TypeOK, Statuses
<1>4. CASE UNCHANGED vars
  BY <1>4 DEF vars, IInv, TypeOK, AnswersAreGrounded
<1> QED
  BY <1>1, <1>2, <1>3, <1>4, ModelNodeKeepsInvariant, ToolNodeKeepsInvariant,
     PreparesRecoveryKeepsInvariant, ActionNodeKeepsInvariant DEF Next

(* The state of every run's graph is of its types.                         *)
THEOREM TypeCorrect == Spec => []TypeOK
<1>1. IInv => TypeOK
  BY DEF IInv
<1> QED
  BY <1>1, InitHolds, NextKeepsInvariant, PTL DEF Spec

(* A troubleshooting run that answers has observed what its answer needs,  *)
(* whatever the model, the tools and the humans did.                       *)
THEOREM GroundedAnswers == Spec => []AnswersAreGrounded
<1>1. IInv => AnswersAreGrounded
  BY DEF IInv
<1> QED
  BY <1>1, InitHolds, NextKeepsInvariant, PTL DEF Spec

(* A write that a human is asked for can be executed within the tool       *)
(* budget, whatever the budget is.                                         *)
THEOREM AffordableApprovals == Spec => []ApprovedIsAffordable
<1>1. IInv => ApprovedIsAffordable
  BY DEF IInv, ApprovedIsAffordable
<1> QED
  BY <1>1, InitHolds, NextKeepsInvariant, PTL DEF Spec

(* No step ends a run whose session has both evidence tools for want of a  *)
(* source: only the model node could, and it finds one.                    *)
LEMMA NextFindsASource ==
    ASSUME IInv, SourcesNeverDeadlock, [Next]_vars
    PROVE  SourcesNeverDeadlock'
<1> USE DEF SourcesNeverDeadlock
<1>1. CASE FindsNoSource
  <2>1. scope \in Scopes /\ machines \in SUBSET MachineObservations /\ documented \in SUBSET Faults
    BY DEF IInv, TypeOK
  <2>2. scope.required \in Contracts
    BY <2>1 DEF Scopes, Contracts
  <2>3. ~ EvidenceTools \subseteq scope.tools
    BY <1>1, <2>1, <2>2, EvidenceToolsSuffice DEF FindsNoSource, IsComplete, HasSource
  <2> QED
    BY <1>1, <2>3 DEF FindsNoSource, Runs
<1>2. CASE IsToldToDiscover \/ GivesUpRecovery \/ IsRefused \/ Answers
  BY <1>2 DEF IsToldToDiscover, GivesUpRecovery, IsRefused, Answers, AnswersWithoutCall, Runs,
              GoesTo, EndsWith
<1>3. ASSUME NEW tool \in Tools, Calls(tool) PROVE SourcesNeverDeadlock'
  BY <1>3 DEF Calls, Runs, GoesTo, EndsWith
<1>4. CASE ToolNode
  BY <1>4 DEF ToolNode, ReturnsMachineStatus, ReturnsDocumentation, ReturnsReferenceStatus,
              ReturnsPreparation, ReturnsOther, Returns, Runs, RouteAfterTool, GoesTo
<1>5. CASE PreparesRecovery \/ NeedsNoRecovery
  BY <1>5 DEF PreparesRecovery, NeedsNoRecovery, Runs, GoesTo, EndsWith
<1>6. CASE ActionNode
  BY <1>6 DEF ActionNode, PreparesAction, Interrupts, IsResumed, ExecutesAction, CancelsAction,
              Runs, GoesTo, EndsWith
<1>7. CASE Raises \/ IsOutOfSteps
  BY <1>7 DEF Raises, IsOutOfSteps, EndsWith
<1>8. CASE UNCHANGED vars
  BY <1>8 DEF vars
<1> QED
  BY <1>1, <1>2, <1>3, <1>4, <1>5, <1>6, <1>7, <1>8 DEF Next, ModelNode

(* The prerequisites of the sources never lock a run out of its evidence.  *)
THEOREM SourcesNeverLockOut == Spec => []SourcesNeverDeadlock
<1>1. Init => SourcesNeverDeadlock
  BY DEF Init, SourcesNeverDeadlock, Statuses
<1> QED
  BY <1>1, InitHolds, NextKeepsInvariant, NextFindsASource, PTL DEF Spec
-----------------------------------------------------------------------------
(* A code is true of every kind of error it is told for, whatever groups   *)
(* and translations these went through.                                    *)
LEMMA CodesAreTrue ==
  ASSUME NEW kinds, kinds # {}, NEW members, NEW path, NEW code,
         code = Sessions!ErrorCode(path,
                   Sessions!Unwrapped(path, Sessions!Translated(Sessions!Error(kinds, members))))
  PROVE  /\ code \in ErrorCodes
         /\ code # "internal_error" => kinds \subseteq Sessions!KindsOf(code)
         /\ kinds = {"transport"} /\ path # "resume" => code = "mcp_service_unavailable"
<1> DEFINE e == Sessions!Error(kinds, members)
           translated == Sessions!Translated(e)
           told == Sessions!Unwrapped(path, translated)
<1>1. e.kinds = kinds /\ e.members = members
  BY DEF Sessions!Error
<1>2. \A k : Sessions!Bare(k).kinds = {k} /\ Sessions!Bare(k).members = 0
  BY DEF Sessions!Bare, Sessions!Error
<1>3. told.kinds = translated.kinds
  BY DEF Sessions!Unwrapped, Sessions!Error
<1>4. code = Sessions!ErrorCode(path, told)
  BY SMTT(30)
<1>5. CASE "transport" \notin kinds
  <2>1. translated = e
    BY <1>1, <1>5 DEF Sessions!Translated
  <2> HIDE DEF e, translated, told
  <2>2. told.kinds = kinds
    BY <1>1, <1>3, <2>1
  <2>. QED
    BY <1>2, <1>4, <1>5, <2>2, ZenonT(50)
       DEF Sessions!ErrorCode, Sessions!AllLeavesAre, Sessions!KindsOf, ErrorCodes
<1>6. CASE kinds = {"transport"}
  <2>1. translated = Sessions!Bare("unavailable")
    BY <1>1, <1>6 DEF Sessions!Translated
  <2>2. told = Sessions!Bare("unavailable")
    BY <1>2, <2>1 DEF Sessions!Unwrapped
  <2> HIDE DEF e, translated, told
  <2>. QED
    BY <1>2, <1>4, <1>6, <2>2, ZenonT(50)
       DEF Sessions!ErrorCode, Sessions!AllLeavesAre, Sessions!KindsOf, ErrorCodes
<1>7. CASE "transport" \in kinds /\ kinds # {"transport"}
  <2>1. translated = Sessions!Error({"unavailable"} \union (kinds \ {"transport"}), 2)
    BY <1>1, <1>7 DEF Sessions!Translated
  <2>2. /\ translated.kinds = {"unavailable"} \union (kinds \ {"transport"})
        /\ translated.members = 2
    BY <2>1 DEF Sessions!Error
  <2>3. told = translated
    BY <2>2 DEF Sessions!Unwrapped
  <2> HIDE DEF e, translated, told
  <2>4. "unavailable" \in told.kinds
    BY <2>2, <2>3
  <2>5. \A k : told # Sessions!Bare(k)
    BY <1>2, <2>2, <2>3
  <2>6. \A k : k # "unavailable" => told.kinds # {k}
    BY <2>4
  <2>7. code = "internal_error"
    BY <1>4, <2>5, <2>6 DEF Sessions!ErrorCode, Sessions!AllLeavesAre
  <2>. QED
    BY <1>7, <2>7 DEF ErrorCodes
<1>. QED
  BY <1>5, <1>6, <1>7

(* The graph was started exactly if its sessions were opened, and nothing  *)
(* has gone wrong for good before the end.                                 *)
SessionInv ==
    /\ DOMAIN session = {"path", "pc", "attempt", "found", "opened", "calls", "code"}
    /\ session.opened \in BOOLEAN
    /\ bodies = IF session.opened THEN 1 ELSE 0
    /\ session.opened <=> session.pc = "running" \/ (session.pc = "ended" /\ session.opened)
    /\ session.pc # "ended" => causes = {}
    /\ Sessions!EndsAreTold

LEMMA EndsTold ==
  ASSUME SessionInv, session.pc # "ended", None \notin ErrorCodes,
         NEW code, Sessions!Ends(code), UNCHANGED bodies,
         code = None <=> causes' = {},
         code \notin {None, "internal_error"} => causes' \subseteq Sessions!KindsOf(code),
         ~ session.opened /\ causes' = {"transport"} /\ session.path # "resume"
            => code = "mcp_service_unavailable"
  PROVE  SessionInv'
BY DEF SessionInv, Sessions!Ends, Sessions!EndsAreTold, Sessions!At

LEMMA FailsTold ==
  ASSUME SessionInv, session.pc # "ended", None \notin ErrorCodes,
         NEW kinds, kinds # {}, NEW members, Sessions!Fails(Sessions!Error(kinds, members))
  PROVE  SessionInv'
<1> DEFINE e == Sessions!Error(kinds, members)
           translated == Sessions!Translated(e)
           code == Sessions!ErrorCode(session.path, Sessions!Unwrapped(session.path, translated))
<1>1. e.kinds = kinds
  BY DEF Sessions!Error
<1>2. CASE Sessions!IsRetried(translated)
  <2>1. /\ session' = [session EXCEPT !.pc = "pausing"]
        /\ causes' = {} /\ bodies' = bodies /\ ~ session.opened
    BY <1>2 DEF Sessions!Fails, Sessions!IsRetried
  <2>. QED
    BY <2>1 DEF SessionInv, Sessions!EndsAreTold, Sessions!At
<1>3. CASE ~ Sessions!IsRetried(translated)
  <2>1. Sessions!Ends(code) /\ causes' = causes \union e.kinds /\ bodies' = bodies
    BY <1>3 DEF Sessions!Fails
  <2>2. causes' = kinds
    BY <1>1, <2>1 DEF SessionInv
  <2>3. /\ code \in ErrorCodes
        /\ code # "internal_error" => kinds \subseteq Sessions!KindsOf(code)
        /\ kinds = {"transport"} /\ session.path # "resume" => code = "mcp_service_unavailable"
    BY CodesAreTrue
  <2> HIDE DEF code
  <2>. QED
    BY <2>1, <2>2, <2>3, EndsTold
<1>. QED
  BY <1>2, <1>3

LEMMA GatheredIs ==
  ASSUME NEW kind, NEW e \in Sessions!Gathered(kind)
  PROVE  \E kinds, members : kinds # {} /\ e = Sessions!Error(kinds, members)
BY DEF Sessions!Gathered

(* What fails before any session is open is told as it is.                 *)
LEMMA BareIsTold ==
  ASSUME NEW kind, NEW path
  PROVE  LET code == Sessions!ErrorCode(path, Sessions!Bare(kind))
         IN /\ code \in ErrorCodes
            /\ code # "internal_error" => {kind} \subseteq Sessions!KindsOf(code)
<1>1. \A k : Sessions!Bare(kind) = Sessions!Bare(k) <=> kind = k
  BY DEF Sessions!Bare, Sessions!Error
<1>2. \A k : Sessions!AllLeavesAre(Sessions!Bare(kind), k) <=> kind = k
  BY DEF Sessions!Bare, Sessions!Error, Sessions!AllLeavesAre
<1>. QED
  BY <1>1, <1>2 DEF Sessions!ErrorCode, Sessions!KindsOf, ErrorCodes

LEMMA SessionStepKeeps ==
  ASSUME SessionInv, None \notin ErrorCodes, Sessions!NextSession
  PROVE  SessionInv'
<1>1. CASE \E path \in Sessions!Paths : Sessions!Begins(path)
  BY <1>1 DEF SessionInv, Sessions!Begins, Sessions!At, Sessions!EndsAreTold
<1>2. CASE Sessions!Resolves \/ Sessions!Pauses \/ Sessions!Opens \/ Sessions!CallsTool
  <2>1. CASE Sessions!Resolves
    BY <2>1 DEF SessionInv, Sessions!Resolves, Sessions!At, Sessions!EndsAreTold
  <2>2. CASE Sessions!Pauses
    BY <2>2 DEF SessionInv, Sessions!Pauses, Sessions!At, Sessions!EndsAreTold
  <2>3. CASE Sessions!Opens
    BY <2>3 DEF SessionInv, Sessions!Opens, Sessions!At, Sessions!EndsAreTold
  <2>4. CASE Sessions!CallsTool
    BY <2>4 DEF SessionInv, Sessions!CallsTool, Sessions!At, Sessions!EndsAreTold
  <2>. QED
    BY <1>2, <2>1, <2>2, <2>3, <2>4
<1>3. CASE Sessions!IsNotResolved
  <2>1. PICK kind \in {"resolution", "other"} :
           /\ Sessions!Ends(Sessions!ErrorCode(session.path, Sessions!Bare(kind)))
           /\ causes' = {kind} /\ bodies' = bodies /\ session.pc = "resolving"
    BY <1>3 DEF Sessions!IsNotResolved, Sessions!At
  <2> DEFINE code == Sessions!ErrorCode(session.path, Sessions!Bare(kind))
  <2>2. /\ code \in ErrorCodes
        /\ code # "internal_error" => {kind} \subseteq Sessions!KindsOf(code)
    BY BareIsTold
  <2> HIDE DEF code
  <2>3. Sessions!Ends(code) /\ causes' # {"transport"} /\ causes' # {} /\ code # None
    BY <2>1, <2>2 DEF code
  <2>. QED
    BY <2>1, <2>2, <2>3, EndsTold
<1>4. ASSUME NEW listed, Sessions!Discovers(listed)
      PROVE  SessionInv'
  <2>1. session.pc = "discovering"
    BY <1>4 DEF Sessions!Discovers, Sessions!At
  <2>2. CASE \E members \in {0, 1} : Sessions!Fails(Sessions!Error({"other"}, members))
    BY <2>1, <2>2, FailsTold
  <2>3. CASE \E found : \E at \in {"open", "discovering"} :
                /\ session' = [session EXCEPT !.found = found, !.pc = at]
                /\ UNCHANGED <<causes, bodies>>
    BY <2>1, <2>3 DEF SessionInv, Sessions!At, Sessions!EndsAreTold
  <2>. QED
    BY <1>4, <2>1, <2>2, <2>3 DEF Sessions!Discovers
<1>5. CASE Sessions!DiscoveryFails \/ Sessions!ToolFails \/ Sessions!GraphRaises
  <2>1. PICK kind : \E e \in Sessions!Gathered(kind) : Sessions!Fails(e)
    BY <1>5 DEF Sessions!DiscoveryFails, Sessions!ToolFails, Sessions!GraphRaises
  <2>2. PICK kinds, members : kinds # {} /\ Sessions!Fails(Sessions!Error(kinds, members))
    BY <2>1, GatheredIs
  <2>3. session.pc # "ended"
    BY <1>5 DEF Sessions!DiscoveryFails, Sessions!ToolFails, Sessions!GraphRaises, Sessions!At
  <2>. QED
    BY <2>2, <2>3, FailsTold
<1>6. CASE Sessions!Closes
  <2>1. Sessions!Ends(None) /\ UNCHANGED <<causes, bodies>> /\ session.pc = "running"
    BY <1>6 DEF Sessions!Closes, Sessions!At
  <2>. QED
    BY <2>1, EndsTold DEF SessionInv
<1>7. CASE Sessions!TimesOut
  <2> DEFINE code == Sessions!ErrorCode(session.path, Sessions!Bare("timeout"))
  <2>1. Sessions!Ends(code) /\ causes' = {"timeout"} /\ bodies' = bodies /\ session.pc # "ended"
    BY <1>7 DEF Sessions!TimesOut, SessionInv
  <2>2. /\ code \in ErrorCodes
        /\ code # "internal_error" => {"timeout"} \subseteq Sessions!KindsOf(code)
    BY BareIsTold
  <2> HIDE DEF code
  <2>. QED
    BY <2>1, <2>2, EndsTold
<1>. QED
  BY <1>1, <1>2, <1>3, <1>4, <1>5, <1>6, <1>7 DEF Sessions!NextSession

(* A request is told how the one run of its graph ended: attempts to reach *)
(* the servers are repeated, the graph never is, and a code is told only   *)
(* if it is true of everything that went wrong; for any servers, number of *)
(* retries and tool budget.                                                *)
THEOREM RequestsAreTold ==
  Sessions!InitSession /\ [][Sessions!NextSession]_(Sessions!sessionVars) => []EndsAreTold
<1>1. Sessions!InitSession => SessionInv
  BY DEF Sessions!InitSession, SessionInv, Sessions!Idle, Sessions!EndsAreTold, Sessions!At
<1>2. SessionInv /\ [Sessions!NextSession]_(Sessions!sessionVars) => SessionInv'
  <2>1. SessionInv /\ UNCHANGED Sessions!sessionVars => SessionInv'
    BY DEF Sessions!sessionVars, SessionInv, Sessions!EndsAreTold, Sessions!At
  <2>. QED
    BY <2>1, CodesAssumption, SessionStepKeeps
<1>3. SessionInv => EndsAreTold
  BY DEF SessionInv, EndsAreTold
<1>. QED
  BY <1>1, <1>2, <1>3, PTL
-----------------------------------------------------------------------------
(* What a run publishes: the first entries of a list of lists.             *)

LEMMA FinalCardinality == \A S : Final!Cardinality(S) = Cardinality(S)
BY DEF Final!Cardinality, Cardinality

Precedes(p, q) == p[1] < q[1] \/ (p[1] = q[1] /\ p[2] < q[2])

(* Of some places in a list of lists one is the first.                     *)
LEMMA FirstPlace ==
  ASSUME NEW S \in SUBSET (Nat \X Nat), S # {}
  PROVE  \E p \in S : \A q \in S : ~ Precedes(q, p)
<1> DEFINE rows == {p[1] : p \in S}
<1>1. rows \in SUBSET Nat /\ rows # {}
  OBVIOUS
<1>2. PICK i \in rows : \A j \in rows : i <= j
  BY <1>1, LeastNumber
<1> DEFINE places == {p[2] : p \in {q \in S : q[1] = i}}
<1>3. places \in SUBSET Nat /\ places # {}
  BY <1>2
<1>4. PICK k \in places : \A l \in places : k <= l
  BY <1>3, LeastNumber
<1>5. PICK p \in S : p[1] = i /\ p[2] = k
  BY <1>4
<1>6. \A q \in S : q[1] \in rows /\ (q[1] = i => q[2] \in places)
  OBVIOUS
<1> HIDE DEF rows, places
<1>7. ASSUME NEW q \in S PROVE ~ Precedes(q, p)
  <2>1. q[1] \in Nat /\ q[2] \in Nat /\ p[1] \in Nat /\ p[2] \in Nat
    OBVIOUS
  <2>. QED
    BY <1>2, <1>4, <1>5, <1>6, <2>1 DEF Precedes
<1>. QED
  BY <1>5, <1>7

Places(entries) == UNION {{i} \X DOMAIN entries[i] : i \in DOMAIN entries}

EntriesOf(entries) == {entries[p[1]][p[2]] : p \in Places(entries)}

FirstEntries(entries, limit) == {entries[p[1]][p[2]] : p \in Final!FirstPlaces(entries, limit)}

LEMMA PlacesAreFinite ==
  ASSUME NEW S, NEW entries \in Seq(Seq(S))
  PROVE  /\ Places(entries) \in SUBSET (Nat \X Nat)
         /\ IsFiniteSet(Places(entries))
<1>1. \A i \in DOMAIN entries : entries[i] \in Seq(S) /\ i \in Nat
  OBVIOUS
<1>2. \A i \in DOMAIN entries : DOMAIN entries[i] = 1 .. Len(entries[i]) /\ Len(entries[i]) \in Nat
  BY <1>1
<1>3. ASSUME NEW i \in DOMAIN entries
      PROVE  IsFiniteSet({i} \X DOMAIN entries[i])
  <2>1. IsFiniteSet(DOMAIN entries[i])
    BY <1>2, FS_Interval
  <2>2. IsFiniteSet({i})
    BY FS_Singleton
  <2>. QED
    BY <2>1, <2>2, FS_Product
<1> DEFINE f == [i \in DOMAIN entries |-> {i} \X DOMAIN entries[i]]
           rows == {f[i] : i \in DOMAIN entries}
<1>4. DOMAIN entries = 1 .. Len(entries) /\ Len(entries) \in Nat
  OBVIOUS
<1>5. IsFiniteSet(DOMAIN entries)
  BY <1>4, FS_Interval
<1>6. f \in Surjection(DOMAIN entries, rows)
  BY DEF Surjection
<1>7. IsFiniteSet(rows)
  BY <1>5, <1>6, FS_Surjection
<1>8. \A T \in rows : IsFiniteSet(T)
  BY <1>3
<1>9. rows = {{i} \X DOMAIN entries[i] : i \in DOMAIN entries}
  OBVIOUS
<1>10. IsFiniteSet(Places(entries))
  BY <1>7, <1>8, <1>9, FS_UNION DEF Places
<1>. QED
  BY <1>1, <1>2, <1>10 DEF Places

NewPlaces(entries) ==
    {p \in Places(entries) :
        \A q \in Places(entries) : Precedes(q, p) => entries[q[1]][q[2]] # entries[p[1]][p[2]]}

LEMMA FirstPlacesAre ==
  ASSUME NEW entries, NEW limit
  PROVE  Final!FirstPlaces(entries, limit)
           = {p \in NewPlaces(entries) :
                 Cardinality({q \in NewPlaces(entries) : Precedes(q, p)}) < limit}
BY FinalCardinality DEF Final!FirstPlaces, NewPlaces, Places, Precedes

(* Every entry has a first place, and no two first places the same entry.  *)
LEMMA EntriesHaveNewPlaces ==
  ASSUME NEW S, NEW entries \in Seq(Seq(S)), NEW p \in Places(entries)
  PROVE  \E q \in NewPlaces(entries) :
            /\ entries[q[1]][q[2]] = entries[p[1]][p[2]]
            /\ q = p \/ ~ Precedes(p, q)
<1> DEFINE same == {q \in Places(entries) : entries[q[1]][q[2]] = entries[p[1]][p[2]]}
<1>1. same \in SUBSET (Nat \X Nat) /\ p \in same
  BY PlacesAreFinite
<1>2. PICK q \in same : \A r \in same : ~ Precedes(r, q)
  BY <1>1, FirstPlace
<1>3. \A r \in Places(entries) : Precedes(r, q) => entries[r[1]][r[2]] # entries[q[1]][q[2]]
  BY <1>2
<1>. QED
  BY <1>1, <1>2, <1>3 DEF NewPlaces

LEMMA NewPlacesDiffer ==
  ASSUME NEW S, NEW entries \in Seq(Seq(S)),
         NEW p \in NewPlaces(entries), NEW q \in NewPlaces(entries), p # q
  PROVE  entries[p[1]][p[2]] # entries[q[1]][q[2]]
<1>1. p \in Places(entries) /\ q \in Places(entries)
  BY DEF NewPlaces
<1>2. p \in Nat \X Nat /\ q \in Nat \X Nat
  BY <1>1, PlacesAreFinite
<1>3. Precedes(p, q) \/ Precedes(q, p)
  BY <1>2 DEF Precedes
<1>. QED
  BY <1>1, <1>3 DEF NewPlaces

(* A limit that there are not more entries than drops none.                *)
LEMMA AllFitTheLimit ==
  ASSUME NEW S, NEW entries \in Seq(Seq(S)), NEW limit \in Nat
  PROVE  /\ FirstEntries(entries, limit) \subseteq EntriesOf(entries)
         /\ IsFiniteSet(EntriesOf(entries))
         /\ Cardinality(EntriesOf(entries)) <= limit =>
                FirstEntries(entries, limit) = EntriesOf(entries)
<1> DEFINE new == NewPlaces(entries)
           named == EntriesOf(entries)
           place == [p \in new |-> entries[p[1]][p[2]]]
           all == [p \in Places(entries) |-> entries[p[1]][p[2]]]
<1>1. FirstEntries(entries, limit) \subseteq named
  BY FirstPlacesAre DEF FirstEntries, EntriesOf, NewPlaces
<1>2. new \subseteq Places(entries)
  BY DEF NewPlaces
<1>3. all \in Surjection(Places(entries), named)
  BY DEF Surjection, EntriesOf
<1>4. IsFiniteSet(named)
  BY <1>3, PlacesAreFinite, FS_Surjection
<1>5. place \in Injection(new, named)
  <2>1. place \in [new -> named]
    BY <1>2 DEF EntriesOf
  <2>2. \A p, q \in new : place[p] = place[q] => p = q
    BY NewPlacesDiffer
  <2>. QED
    BY <2>1, <2>2 DEF Injection, IsInjective
<1>6. IsFiniteSet(new) /\ Cardinality(new) <= Cardinality(named)
  BY <1>4, <1>5, FS_Injection
<1>7. ASSUME Cardinality(named) <= limit, NEW n \in named
      PROVE  n \in FirstEntries(entries, limit)
  <2>1. PICK p \in Places(entries) : n = entries[p[1]][p[2]]
    BY DEF EntriesOf
  <2>2. PICK q \in new : entries[q[1]][q[2]] = n
    BY <2>1, EntriesHaveNewPlaces
  <2> DEFINE before == {r \in new : Precedes(r, q)}
  <2>3. before \in SUBSET (new \ {q})
    <3>1. q \in Nat \X Nat
      BY <1>2, PlacesAreFinite
    <3>. QED
      BY <3>1 DEF Precedes
  <2>4. IsFiniteSet(new \ {q}) /\ Cardinality(new \ {q}) = Cardinality(new) - 1
    BY <1>6, FS_RemoveElement
  <2>5. IsFiniteSet(before) /\ Cardinality(before) <= Cardinality(new \ {q})
    BY <2>3, <2>4, FS_Subset
  <2>6. /\ Cardinality(before) \in Nat /\ Cardinality(new) \in Nat
        /\ Cardinality(named) \in Nat
    BY <1>4, <1>6, <2>5, FS_CardinalityType
  <2>7. Cardinality(before) < limit
    BY <1>6, <1>7, <2>4, <2>5, <2>6
  <2>. QED
    BY <2>2, <2>7, FirstPlacesAre DEF FirstEntries
<1>. QED
  BY <1>1, <1>4, <1>7

(* The first list is kept if it fits the limit, whatever follows.          *)
LEMMA FirstListIsKept ==
  ASSUME NEW S, NEW entries \in Seq(Seq(S)), NEW limit \in Nat,
         1 \in DOMAIN entries, Len(entries[1]) <= limit,
         NEW k \in DOMAIN entries[1]
  PROVE  entries[1][k] \in FirstEntries(entries, limit)
<1>1. entries[1] \in Seq(S) /\ DOMAIN entries[1] = 1 .. Len(entries[1]) /\ Len(entries[1]) \in Nat
  OBVIOUS
<1>2. <<1, k>> \in Places(entries)
  BY DEF Places
<1>3. PICK q \in NewPlaces(entries) :
          entries[q[1]][q[2]] = entries[1][k] /\ (q = <<1, k>> \/ ~ Precedes(<<1, k>>, q))
  BY <1>2, EntriesHaveNewPlaces
<1>4. q \in Places(entries) /\ q \in Nat \X Nat
  BY PlacesAreFinite DEF NewPlaces
<1>5. q[1] \in DOMAIN entries /\ q[2] \in DOMAIN entries[q[1]]
  BY <1>4 DEF Places
<1>6. q[1] = 1 /\ q[2] \in 1 .. k
  BY <1>1, <1>3, <1>4, <1>5 DEF Precedes
<1> DEFINE before == {r \in NewPlaces(entries) : Precedes(r, q)}
           at == [r \in before |-> r[2]]
<1>7. \A r \in before : r \in Nat \X Nat /\ r[1] = 1 /\ r[2] \in 1 .. (k - 1)
  <2> TAKE r \in before
  <2>1. r \in Places(entries) /\ r \in Nat \X Nat
    BY PlacesAreFinite DEF NewPlaces
  <2>2. r[1] \in DOMAIN entries /\ r[2] \in DOMAIN entries[r[1]] /\ Precedes(r, q)
    BY <2>1 DEF Places
  <2>3. r[1] = 1 /\ r[2] < q[2] /\ r[2] \in Nat
    BY <1>6, <2>1, <2>2 DEF Precedes
  <2>. QED
    BY <1>1, <1>6, <2>1, <2>2, <2>3
<1>8. at \in Injection(before, 1 .. (k - 1))
  <2>1. at \in [before -> 1 .. (k - 1)]
    BY <1>7
  <2>2. ASSUME NEW r \in before, NEW t \in before, at[r] = at[t] PROVE r = t
    <3>1. r = <<r[1], r[2]>> /\ t = <<t[1], t[2]>>
      BY <1>7
    <3>2. r[1] = t[1] /\ r[2] = t[2]
      BY <1>7, <2>2
    <3>. QED
      BY <3>1, <3>2
  <2> HIDE DEF at, before
  <2>. QED
    BY <2>1, <2>2 DEF Injection, IsInjective
<1>9. IsFiniteSet(1 .. (k - 1)) /\ Cardinality(1 .. (k - 1)) = k - 1
  <2>1. PICK n \in Nat : n = k - 1
    BY <1>1
  <2>2. n \in Int /\ 1 \in Int
    BY <2>1
  <2>3. /\ IsFiniteSet(1 .. n)
        /\ Cardinality(1 .. n) = IF 1 > n THEN 0 ELSE n - 1 + 1
    BY ONLY <2>2, FS_Interval
  <2>4. Cardinality(1 .. n) = n
    BY ONLY <2>1, <2>3
  <2>. QED
    BY <2>1, <2>3, <2>4
<1>10. IsFiniteSet(before) /\ Cardinality(before) <= k - 1
  BY <1>8, <1>9, FS_Injection
<1>11. Cardinality(before) < limit
  BY <1>1, <1>10, FS_CardinalityType
<1>. QED
  BY <1>3, <1>11, FirstPlacesAre DEF FirstEntries
-----------------------------------------------------------------------------
(* What a run has been told.                                               *)

CallIds == Ids \union Nat
CallRecords == [tool : Toolset, arguments : Seq(Names), id : CallIds]
MessageRecords == [id : CallIds, content : Final!Observations]
Trails == Seq(CallRecords)
Conversations == Seq(MessageRecords)

LEMMA SerializedKeeps ==
  ASSUME NEW o \in Final!Observations
  PROVE  LET s == Final!Serialized(o)
         IN  /\ s \in Final!Observations
             /\ s.from = o.from /\ s.about = o.about
             /\ s.facts = o.facts /\ s.names = o.names
<1> DEFINE Documents == [id : STRING, metadata : SUBSET STRING]
           shown == [k \in DOMAIN o.documents |-> Final!Projected(o.documents[k])]
<1>3. Final!Serialized(o) = [o EXCEPT !.documents = shown]
  BY DEF Final!Serialized
<1>0. \A d \in Documents : Final!Projected(d) \in Documents
  BY DEF Final!Projected
<1>1. o.documents \in Seq(Documents)
  BY DEF Final!Observations
<1> HIDE DEF Documents
<1>2. ASSUME NEW k \in DOMAIN o.documents
      PROVE  shown[k] \in Documents
  BY <1>0, <1>1
<1>4. DOMAIN o.documents = 1 .. Len(o.documents) /\ Len(o.documents) \in Nat
  BY <1>1
<1>5. DOMAIN shown = 1 .. Len(o.documents)
  BY <1>4
<1> HIDE DEF shown
<1>6. shown \in [1 .. Len(o.documents) -> Documents]
  <2>1. \A k \in 1 .. Len(o.documents) : shown[k] \in Documents
    BY <1>2, <1>4
  <2>2. shown = [k \in 1 .. Len(o.documents) |-> shown[k]]
    BY <1>5 DEF shown
  <2>. QED
    BY <2>1, <2>2
<1>7. shown \in Seq(Documents)
  BY <1>4, <1>6
<1>. QED
  BY <1>3, <1>7 DEF Final!Observations, Documents

LEMMA ObservationIsTheLast ==
  ASSUME NEW told \in Conversations, NEW call
  PROVE  LET same == {i \in DOMAIN told : told[i].id = call.id}
         IN  \/ same = {} /\ Final!ObservationOf(call, told) = None
             \/ \E j \in same : /\ \A i \in same : i <= j
                               /\ Final!ObservationOf(call, told) = told[j].content
<1> DEFINE same == {i \in DOMAIN told : told[i].id = call.id}
           after == {Len(told) - i : i \in same}
<1>1. CASE same = {}
  BY <1>1 DEF Final!ObservationOf
<1>2. CASE same # {}
  <2>1. \A i \in same : i \in Nat /\ i <= Len(told) /\ Len(told) \in Nat
    BY DEF Conversations
  <2>2. after \in SUBSET Nat /\ after # {}
    BY <1>2, <2>1
  <2>3. PICK n \in after : \A m \in after : n <= m
    BY <2>2, LeastNumber
  <2>4. PICK j \in same : n = Len(told) - j
    BY <2>3
  <2>5. \A i \in same : i <= j
    <3> TAKE i \in same
    <3>1. Len(told) - j <= Len(told) - i
      BY <2>3, <2>4
    <3>. QED
      BY <2>1, <3>1
  <2> DEFINE last == CHOOSE i \in same : \A k \in same : k <= i
  <2>6. last \in same /\ \A k \in same : k <= last
    BY <2>5
  <2>7. Final!ObservationOf(call, told) = told[last].content
    BY <1>2 DEF Final!ObservationOf
  <2>. QED
    BY <2>6, <2>7
<1>. QED
  BY <1>1, <1>2

(* A finding that says something is of an observation with the id of its   *)
(* call, the last one.                                                     *)
LEMMA FindingIsObserved ==
  ASSUME NEW told \in Conversations, NEW call,
         Final!FindingOf(call, told).finding # Final!Fallback
  PROVE  LET f == Final!FindingOf(call, told)
         IN  /\ f.action = call.tool
             /\ \E j \in DOMAIN told :
                   /\ told[j].id = call.id
                   /\ \A i \in DOMAIN told : told[i].id = call.id => i <= j
                   /\ Final!Finding(call.tool, told[j].content) = f.finding
                   /\ told[j].content.about = f.about
<1> DEFINE o == Final!ObservationOf(call, told)
<1>1. Final!FindingOf(call, told) =
        [action |-> call.tool, finding |-> Final!Finding(call.tool, o),
         about |-> IF Final!Finding(call.tool, o) = Final!Fallback THEN None ELSE o.about]
  BY DEF Final!FindingOf, Final!StepOf
<1>2. Final!Finding(call.tool, o) # Final!Fallback
  BY <1>1
<1>3. o # None
  BY <1>2 DEF Final!Finding
<1>4. PICK j \in DOMAIN told :
        /\ told[j].id = call.id
        /\ \A i \in DOMAIN told : told[i].id = call.id => i <= j
        /\ o = told[j].content
  BY <1>3, ObservationIsTheLast
<1> HIDE DEF o
<1>. QED
  BY <1>1, <1>2, <1>4

(* Only a calibration's own finding tells of success.                      *)
LEMMA SuccessIsACalibrations ==
  ASSUME NEW action, NEW o, Final!Finding(action, o) = "succeeded"
  PROVE  action = Final!Calibration /\ o.from = Final!Calibration /\ Final!IsVerified(o)
BY DEF Final!Finding, Final!HasFields, Final!Fallback, Final!MachineStatusFinding,
       Final!DocumentationSearchFinding, Final!ProductHistoryFinding,
       Final!PositionReferenceFinding, Final!PreparationFinding, Final!ExecutionFinding,
       Final!Calibration, Final!Preparation, Final!ReferenceStatus, Final!Search

LEMMA VerifiedIsSuccess ==
  ASSUME NEW o, o # None, o.from = Final!Calibration, Final!IsVerified(o)
  PROVE  Final!Finding(Final!Calibration, o) = "succeeded"
BY DEF Final!Finding, Final!HasFields, Final!ExecutionFinding, Final!Calibration,
       Final!Preparation, Final!ReferenceStatus, Final!Search
-----------------------------------------------------------------------------
(* References.                                                             *)

(* Every call has its message, and what a device says is about the station *)
(* its call named.                                                         *)
TrailIsTold ==
    /\ run \in Asked
    /\ executed \in Trails
    /\ messages \in Conversations
    /\ Len(messages) = Len(executed)
    /\ \A i \in DOMAIN executed :
          /\ messages[i].id = executed[i].id
          /\ messages[i].content.from = executed[i].tool
          /\ executed[i].tool \in {Final!ReferenceStatus, Final!Preparation} =>
                 executed[i].arguments = <<messages[i].content.about>>

LEMMA TrailElements ==
  ASSUME TrailIsTold, NEW i \in DOMAIN executed
  PROVE  /\ i \in DOMAIN messages /\ i \in Nat
         /\ executed[i].arguments \in Seq(Names)
         /\ messages[i].content \in Final!Observations
         /\ messages[i].content.names \in Seq(Names)
<1>1. /\ i \in DOMAIN messages /\ i \in Nat
      /\ executed[i] \in CallRecords /\ messages[i] \in MessageRecords
  BY DEF TrailIsTold, Trails, Conversations
<1>2. executed[i].arguments \in Seq(Names) /\ messages[i].content \in Final!Observations
  BY <1>1 DEF CallRecords, MessageRecords
<1>. QED
  BY <1>1, <1>2 DEF Final!Observations

LEMMA MembersOfBoth ==
  ASSUME NEW s \in Seq(Names), NEW t \in Seq(Names)
  PROVE  /\ s \o t \in Seq(Names)
         /\ Final!Members(s \o t) = Final!Members(s) \union Final!Members(t)
<1>1. ASSUME NEW n \in Final!Members(s \o t)
      PROVE  n \in Final!Members(s) \union Final!Members(t)
  <2>1. PICK i \in 1 .. Len(s) + Len(t) : n = (s \o t)[i]
    BY <1>1 DEF Final!Members
  <2>2. CASE i <= Len(s)
    BY <2>1, <2>2 DEF Final!Members
  <2>3. CASE i > Len(s)
    <3>1. i - Len(s) \in DOMAIN t /\ n = t[i - Len(s)]
      BY <2>1, <2>3
    <3>. QED
      BY <3>1 DEF Final!Members
  <2>. QED
    BY <2>1, <2>2, <2>3
<1>2. ASSUME NEW n \in Final!Members(s)
      PROVE  n \in Final!Members(s \o t)
  <2>1. PICK i \in DOMAIN s : n = s[i]
    BY <1>2 DEF Final!Members
  <2>2. i \in DOMAIN (s \o t) /\ n = (s \o t)[i]
    BY <2>1
  <2>. QED
    BY <2>2 DEF Final!Members
<1>3. ASSUME NEW n \in Final!Members(t)
      PROVE  n \in Final!Members(s \o t)
  <2>1. PICK i \in DOMAIN t : n = t[i]
    BY <1>3 DEF Final!Members
  <2>2. Len(s) + i \in DOMAIN (s \o t) /\ n = (s \o t)[Len(s) + i]
    BY <2>1
  <2>. QED
    BY <2>2 DEF Final!Members
<1>. QED
  BY <1>1, <1>2, <1>3

(* What the i-th call contributes, and the i-th message.                   *)
NamesTold(i) ==
    Final!Members(executed[i].arguments) \union
        IF messages[i].content.from \in Final!Discovering
        THEN Final!Members(messages[i].content.names) ELSE {}

LEMMA NamesOfCallAre ==
  ASSUME TrailIsTold, NEW i \in DOMAIN executed
  PROVE  /\ Final!NamesOfCall(i) \in Seq(Names)
         /\ Final!Members(Final!NamesOfCall(i)) = NamesTold(i)
<1> DEFINE found == IF messages[i].content.from \in Final!Discovering
                    THEN messages[i].content.names ELSE << >>
<1>1. messages[i].content.from = executed[i].tool
  BY DEF TrailIsTold
<1>2. Final!NamesOfCall(i) = executed[i].arguments \o found
  BY <1>1, TrailElements DEF Final!NamesOfCall, Final!NamesIn
<1>3. found \in Seq(Names)
  BY TrailElements
<1>4. Final!Members(found) = IF messages[i].content.from \in Final!Discovering
                             THEN Final!Members(messages[i].content.names) ELSE {}
  BY DEF Final!Members
<1> HIDE DEF found
<1>. QED
  BY <1>2, <1>3, <1>4, TrailElements, MembersOfBoth DEF NamesTold

NamesAsked == UNION {Final!Members(executed[i].arguments) : i \in DOMAIN executed}

NamesFound ==
    UNION {Final!Members(messages[i].content.names) : i \in Final!InRun(Final!Discovering)}

LEMMA NamesOfRunAre ==
  ASSUME TrailIsTold
  PROVE  Final!NamesOfRun
           = Final!Members(run.names) \union (UNION {NamesTold(i) : i \in DOMAIN executed})
<1>1. DOMAIN messages = DOMAIN executed
  BY DEF TrailIsTold, Trails, Conversations
<1>2. ASSUME NEW n
      PROVE  n \in NamesFound <=>
                \E i \in DOMAIN executed : /\ messages[i].content.from \in Final!Discovering
                                          /\ n \in Final!Members(messages[i].content.names)
  BY <1>1 DEF Final!InRun, NamesFound
<1>3. ASSUME NEW n
      PROVE  n \in UNION {NamesTold(i) : i \in DOMAIN executed}
                <=> n \in NamesAsked \/ n \in NamesFound
  <2>1. n \in UNION {NamesTold(i) : i \in DOMAIN executed}
            <=> \E i \in DOMAIN executed : n \in NamesTold(i)
    OBVIOUS
  <2>2. n \in NamesAsked <=> \E i \in DOMAIN executed : n \in Final!Members(executed[i].arguments)
    BY DEF NamesAsked
  <2>. QED
    BY <1>2, <2>1, <2>2 DEF NamesTold
<1>4. Final!NamesOfRun = Final!Members(run.names) \union NamesAsked \union NamesFound
  BY DEF Final!NamesOfRun, NamesAsked, NamesFound
<1>. QED
  BY <1>3, <1>4

LEMMA EntriesAreMembers ==
  ASSUME NEW entries
  PROVE  EntriesOf(entries) = UNION {Final!Members(entries[i]) : i \in DOMAIN entries}
<1>1. ASSUME NEW n \in EntriesOf(entries)
      PROVE  n \in UNION {Final!Members(entries[i]) : i \in DOMAIN entries}
  <2>1. PICK p \in Places(entries) : n = entries[p[1]][p[2]]
    BY DEF EntriesOf
  <2>2. p[1] \in DOMAIN entries /\ p[2] \in DOMAIN entries[p[1]]
    BY DEF Places
  <2>. QED
    BY <2>1, <2>2 DEF Final!Members
<1>2. ASSUME NEW i \in DOMAIN entries, NEW k \in DOMAIN entries[i]
      PROVE  entries[i][k] \in EntriesOf(entries)
  <2>1. <<i, k>> \in Places(entries) /\ <<i, k>>[1] = i /\ <<i, k>>[2] = k
    BY DEF Places
  <2>. QED
    BY <2>1 DEF EntriesOf
<1>3. ASSUME NEW n \in UNION {Final!Members(entries[i]) : i \in DOMAIN entries}
      PROVE  n \in EntriesOf(entries)
  <2>1. PICK i \in DOMAIN entries : n \in Final!Members(entries[i])
    BY <1>3
  <2>. QED
    BY <1>2, <2>1 DEF Final!Members
<1>. QED
  BY <1>1, <1>3

LEMMA MentionedAre ==
  ASSUME TrailIsTold, Final!ToolsAreSound
  PROVE  /\ Final!Mentioned \in Seq(Seq(Names))
         /\ 1 \in DOMAIN Final!Mentioned /\ Final!Mentioned[1] = run.names
         /\ EntriesOf(Final!Mentioned) = Final!NamesOfRun
<1> DEFINE byCall == [i \in DOMAIN executed |-> Final!NamesOfCall(i)]
           all == <<run.names>> \o byCall
<1>1. DOMAIN executed = 1 .. Len(executed) /\ Len(executed) \in Nat
  BY DEF TrailIsTold, Trails
<1>2. byCall \in [1 .. Len(executed) -> Seq(Names)]
  BY <1>1, NamesOfCallAre
<1>3. byCall \in Seq(Seq(Names)) /\ Len(byCall) = Len(executed)
  BY <1>1, <1>2
<1>4. run.names \in Seq(Names)
  BY DEF Final!ToolsAreSound, TrailIsTold
<1>5. \A i \in DOMAIN executed : byCall[i] = Final!NamesOfCall(i)
  OBVIOUS
<1> HIDE DEF byCall
<1>6. <<run.names>> \in Seq(Seq(Names)) /\ Len(<<run.names>>) = 1
  BY <1>4
<1>7. /\ all \in Seq(Seq(Names)) /\ DOMAIN all = 1 .. (1 + Len(executed))
      /\ all[1] = run.names
      /\ \A i \in DOMAIN executed : all[1 + i] = byCall[i]
  BY <1>1, <1>3, <1>6
<1>8. Final!Mentioned = all
  BY DEF Final!Mentioned, byCall
<1> HIDE DEF all
<1>10. EntriesOf(all) = UNION {Final!Members(all[i]) : i \in DOMAIN all}
  BY EntriesAreMembers
<1>11. UNION {Final!Members(all[i]) : i \in DOMAIN all}
         = Final!Members(run.names) \union
               (UNION {Final!Members(Final!NamesOfCall(i)) : i \in DOMAIN executed})
  <2>1. \A i \in DOMAIN all : i = 1 \/ (i - 1 \in DOMAIN executed /\ all[i] = byCall[i - 1])
    <3> TAKE i \in DOMAIN all
    <3>1. i # 1 => i - 1 \in DOMAIN executed /\ 1 + (i - 1) = i
      BY <1>1, <1>7
    <3>. QED
      BY <1>7, <3>1
  <2>2. 1 \in DOMAIN all /\ \A i \in DOMAIN executed : 1 + i \in DOMAIN all
    BY <1>1, <1>7
  <2>3. ASSUME NEW n, NEW i \in DOMAIN all, n \in Final!Members(all[i])
        PROVE  n \in Final!Members(run.names) \/
               \E j \in DOMAIN executed : n \in Final!Members(Final!NamesOfCall(j))
    BY <1>5, <1>7, <2>1, <2>3
  <2>4. ASSUME NEW n, NEW j \in DOMAIN executed, n \in Final!Members(Final!NamesOfCall(j))
        PROVE  \E i \in DOMAIN all : n \in Final!Members(all[i])
    BY <1>5, <1>7, <2>2, <2>4
  <2>. QED
    BY <1>7, <2>2, <2>3, <2>4
<1>12. UNION {Final!Members(Final!NamesOfCall(i)) : i \in DOMAIN executed}
         = UNION {NamesTold(i) : i \in DOMAIN executed}
  BY NamesOfCallAre
<1>13. 1 \in DOMAIN all
  BY <1>1, <1>7
<1>. QED
  BY <1>7, <1>8, <1>10, <1>11, <1>12, <1>13, NamesOfRunAre

(* The documents the searches found, in the order of the calls.            *)
DocumentsFound == [i \in DOMAIN executed |-> Final!ReferencesOfCall(i)]

DocumentIds ==
    [i \in DOMAIN DocumentsFound |-> [k \in DOMAIN DocumentsFound[i] |-> DocumentsFound[i][k].id]]

LEMMA FoundByCall ==
  ASSUME TrailIsTold, NEW i \in DOMAIN executed
  PROVE  /\ DocumentsFound[i] = IF messages[i].content.from = Final!Search
                                THEN Final!ReferencesIn(messages[i].content) ELSE << >>
         /\ DOMAIN DocumentIds = DOMAIN executed
         /\ DOMAIN DocumentIds[i] = DOMAIN DocumentsFound[i]
         /\ \A k \in DOMAIN DocumentIds[i] : DocumentIds[i][k] = DocumentsFound[i][k].id
         /\ DocumentIds[i] \in Seq(STRING)
<1>1. messages[i].content.from = executed[i].tool /\ i \in DOMAIN messages
  BY TrailElements DEF TrailIsTold
<1>2. DocumentsFound[i] = Final!ReferencesOfCall(i) /\ DOMAIN DocumentsFound = DOMAIN executed
  BY DEF DocumentsFound
<1>3. DocumentsFound[i] = IF messages[i].content.from = Final!Search
                          THEN Final!ReferencesIn(messages[i].content) ELSE << >>
  BY <1>1, <1>2 DEF Final!ReferencesOfCall
<1>4. /\ DOMAIN DocumentIds = DOMAIN executed
      /\ DocumentIds[i] = [k \in DOMAIN DocumentsFound[i] |-> DocumentsFound[i][k].id]
  BY <1>2 DEF DocumentIds
<1> DEFINE shown == messages[i].content.documents
           Kept == [id : STRING, metadata : SUBSET STRING]
<1>5. shown \in Seq(Kept)
  BY TrailElements DEF Final!Observations
<1>0. \A d \in Kept : d.id \in STRING
  OBVIOUS
<1> HIDE DEF Kept
<1>6. DOMAIN shown = 1 .. Len(shown) /\ Len(shown) \in Nat /\ \A k \in DOMAIN shown : shown[k] \in Kept
  BY <1>5
<1>7. \A k \in DOMAIN shown : shown[k].id \in STRING
  BY <1>0, <1>6
<1>8. DocumentIds[i] \in Seq(STRING)
  <2>1. CASE messages[i].content.from = Final!Search
    <3>1. /\ DOMAIN DocumentsFound[i] = DOMAIN shown
          /\ \A k \in DOMAIN shown : DocumentsFound[i][k].id = shown[k].id
      BY <1>3, <2>1 DEF Final!ReferencesIn, Final!Reference
    <3> HIDE DEF shown
    <3>2. /\ DOMAIN DocumentIds[i] = 1 .. Len(shown)
          /\ \A k \in 1 .. Len(shown) : DocumentIds[i][k] \in STRING
      BY <1>4, <1>6, <1>7, <3>1
    <3>3. DocumentIds[i] \in [1 .. Len(shown) -> STRING]
      BY <1>4, <3>2
    <3>. QED
      BY <1>6, <3>3
  <2>2. CASE messages[i].content.from # Final!Search
    <3>1. DocumentIds[i] = << >>
      BY <1>3, <1>4, <2>2
    <3>. QED
      BY <3>1
  <2>. QED
    BY <2>1, <2>2
<1>. QED
  BY <1>3, <1>4, <1>8

LEMMA DocumentsOfRunAre ==
  ASSUME TrailIsTold
  PROVE  \A d : d \in Final!DocumentsOfRun <=>
                   \E i \in DOMAIN executed : \E k \in DOMAIN DocumentsFound[i] :
                       d = DocumentsFound[i][k]
<1>1. DOMAIN messages = DOMAIN executed
  BY DEF TrailIsTold, Trails, Conversations
<1>2. \A d : d \in Final!DocumentsOfRun <=>
                \E i \in DOMAIN executed :
                    /\ messages[i].content.from = Final!Search
                    /\ d \in Final!Members(Final!ReferencesIn(messages[i].content))
  BY <1>1 DEF Final!DocumentsOfRun, Final!InRun
<1>3. \A d : \A i \in DOMAIN executed :
         (/\ messages[i].content.from = Final!Search
          /\ d \in Final!Members(Final!ReferencesIn(messages[i].content)))
           <=> \E k \in DOMAIN DocumentsFound[i] : d = DocumentsFound[i][k]
  <2> TAKE d
  <2> TAKE i \in DOMAIN executed
  <2>1. CASE messages[i].content.from = Final!Search
    <3>1. DocumentsFound[i] = Final!ReferencesIn(messages[i].content)
      BY <2>1, FoundByCall
    <3>. QED
      BY <2>1, <3>1 DEF Final!Members
  <2>2. CASE messages[i].content.from # Final!Search
    <3>1. DocumentsFound[i] = << >>
      BY <2>2, FoundByCall
    <3>. QED
      BY <2>2, <3>1
  <2>. QED
    BY <2>1, <2>2
<1>. QED
  BY <1>2, <1>3

(* As many documents as there is room for, all of them of the run.         *)
LEMMA DocumentsAre ==
  ASSUME TrailIsTold, MaxDocuments \in Nat
  PROVE  /\ Final!Documents \subseteq Final!DocumentsOfRun
         /\ Cardinality({d.id : d \in Final!DocumentsOfRun}) <= MaxDocuments =>
                {d.id : d \in Final!Documents} = {d.id : d \in Final!DocumentsOfRun}
<1> DEFINE first == Final!FirstPlaces(DocumentIds, MaxDocuments)
<1>1. Final!Documents = {DocumentsFound[p[1]][p[2]] : p \in first}
  BY DEF Final!Documents, DocumentIds, DocumentsFound
<1>2. first \subseteq Places(DocumentIds)
  BY FirstPlacesAre DEF NewPlaces
<1>3. \A p \in Places(DocumentIds) :
         /\ p[1] \in DOMAIN executed /\ p[2] \in DOMAIN DocumentsFound[p[1]]
         /\ DocumentIds[p[1]][p[2]] = DocumentsFound[p[1]][p[2]].id
  <2> TAKE p \in Places(DocumentIds)
  <2>1. p[1] \in DOMAIN DocumentIds /\ p[2] \in DOMAIN DocumentIds[p[1]]
    BY DEF Places
  <2>2. DOMAIN DocumentIds = DOMAIN executed
    BY DEF DocumentIds, DocumentsFound
  <2>. QED
    BY <2>1, <2>2, FoundByCall
<1> HIDE DEF first
<1>4. Final!Documents \subseteq Final!DocumentsOfRun
  BY <1>1, <1>2, <1>3, DocumentsOfRunAre
<1>5. DocumentIds \in Seq(Seq(STRING))
  <2>1. DOMAIN DocumentIds = 1 .. Len(executed) /\ Len(executed) \in Nat
    BY DEF DocumentIds, DocumentsFound, TrailIsTold, Trails
  <2>2. \A i \in 1 .. Len(executed) : DocumentIds[i] \in Seq(STRING)
    BY FoundByCall DEF TrailIsTold, Trails
  <2>3. DocumentIds = [i \in 1 .. Len(executed) |-> DocumentIds[i]]
    BY <2>1 DEF DocumentIds
  <2>4. DocumentIds \in [1 .. Len(executed) -> Seq(STRING)]
    BY <2>2, <2>3
  <2>. QED
    BY <2>1, <2>4
<1>6. {d.id : d \in Final!DocumentsOfRun} = EntriesOf(DocumentIds)
  <2>1. ASSUME NEW d \in Final!DocumentsOfRun
        PROVE  d.id \in EntriesOf(DocumentIds)
    <3>1. PICK i \in DOMAIN executed : \E k \in DOMAIN DocumentsFound[i] : d = DocumentsFound[i][k]
      BY DocumentsOfRunAre
    <3>2. PICK k \in DOMAIN DocumentsFound[i] : d = DocumentsFound[i][k]
      BY <3>1
    <3>3. /\ i \in DOMAIN DocumentIds /\ k \in DOMAIN DocumentIds[i]
          /\ DocumentIds[i][k] = d.id
      BY <3>2, FoundByCall
    <3>4. d.id \in Final!Members(DocumentIds[i])
      BY <3>3 DEF Final!Members
    <3>. QED
      BY <3>3, <3>4, EntriesAreMembers
  <2>2. ASSUME NEW n \in EntriesOf(DocumentIds)
        PROVE  \E d \in Final!DocumentsOfRun : n = d.id
    <3>1. PICK p \in Places(DocumentIds) : n = DocumentIds[p[1]][p[2]]
      BY DEF EntriesOf
    <3>2. n = DocumentsFound[p[1]][p[2]].id
      BY <1>3, <3>1
    <3>3. DocumentsFound[p[1]][p[2]] \in Final!DocumentsOfRun
      BY <1>3, DocumentsOfRunAre
    <3>. QED
      BY <3>2, <3>3
  <2>. QED
    BY <2>1, <2>2
<1>7. {d.id : d \in Final!Documents} = FirstEntries(DocumentIds, MaxDocuments)
  <2>1. \A p \in first : DocumentIds[p[1]][p[2]] = DocumentsFound[p[1]][p[2]].id
    BY <1>2, <1>3
  <2>2. FirstEntries(DocumentIds, MaxDocuments) = {DocumentIds[p[1]][p[2]] : p \in first}
    BY DEF FirstEntries, first
  <2>. QED
    BY <1>1, <2>1, <2>2
<1>. QED
  BY <1>4, <1>5, <1>6, <1>7, AllFitTheLimit

LEMMA IdentifiersAre ==
  ASSUME TrailIsTold, Final!ToolsAreSound
  PROVE  /\ Final!Identifiers \subseteq Final!NamesOfRun
         /\ Cardinality(Final!NamesOfRun) <= MaxIdentifiers => Final!Identifiers = Final!NamesOfRun
         /\ Len(run.names) <= MaxIdentifiers => Final!Members(run.names) \subseteq Final!Identifiers
<1>1. MaxIdentifiers \in Nat
  BY DEF Final!ToolsAreSound
<1>2. Final!Identifiers = FirstEntries(Final!Mentioned, MaxIdentifiers)
  BY DEF Final!Identifiers, FirstEntries
<1>3. ASSUME Len(run.names) <= MaxIdentifiers, NEW n \in Final!Members(run.names)
      PROVE  n \in Final!Identifiers
  <2>1. PICK k \in DOMAIN run.names : n = run.names[k]
    BY <1>3 DEF Final!Members
  <2>. QED
    BY <1>1, <1>2, <1>3, <2>1, MentionedAre, FirstListIsKept
<1>. QED
  BY <1>1, <1>2, <1>3, MentionedAre, AllFitTheLimit
-----------------------------------------------------------------------------
(* What is pending is a call like any other, and a calibration is of what  *)
(* was prepared.                                                           *)
PendingIsKnown ==
    stage = "pending" =>
        /\ pending \in [tool : {Final!Ticket, Final!Calibration}, id : CallIds, arguments : Seq(Names)]
        /\ pending.tool = Final!Calibration => Final!Members(pending.arguments) \subseteq Final!NamesOfRun

(* A recovery is prepared right after the reference was read; until a run  *)
(* ends nothing was calibrated.                                            *)
StageIsTold ==
    /\ stage = "prepare_recovery" =>
           /\ Len(messages) \in DOMAIN messages
           /\ messages[Len(messages)].content.from = Final!ReferenceStatus
    /\ stage # "ended" =>
           /\ result = None
           /\ \A j \in DOMAIN messages : messages[j].content.from # Final!Calibration

AnswersAreTold ==
    /\ Final!ReferencesAreOfTheRun
    /\ Final!RequestedIsNamed
    /\ Final!FindingsAreOfTheirCalls
    /\ Final!RecoveryIsToldAsItEnded

FinalInv == TrailIsTold /\ PendingIsKnown /\ StageIsTold /\ AnswersAreTold

LEMMA UnendedIsTrue ==
  ASSUME result' = None
  PROVE  AnswersAreTold'
BY DEF AnswersAreTold, Final!ReferencesAreOfTheRun, Final!RequestedIsNamed,
       Final!FindingsAreOfTheirCalls, Final!RecoveryIsToldAsItEnded

(* The call and its message go to the end.                                 *)
LEMMA RecordsAreTold ==
  ASSUME TrailIsTold, NEW tool \in Toolset, NEW id \in CallIds, NEW arguments \in Seq(Names),
         NEW o \in Final!Observations, o.from = tool,
         tool \in {Final!ReferenceStatus, Final!Preparation} => arguments = <<o.about>>,
         Final!Records(tool, id, arguments, o), run' = run
  PROVE  /\ TrailIsTold'
         /\ Len(messages') = Len(messages) + 1
         /\ DOMAIN executed' = DOMAIN messages'
         /\ Len(messages') \in DOMAIN messages'
         /\ executed'[Len(messages')] = [tool |-> tool, arguments |-> arguments, id |-> id]
         /\ messages'[Len(messages')] = [id |-> id, content |-> Final!Serialized(o)]
         /\ \A i \in DOMAIN messages' :
               i = Len(messages') \/ (/\ i \in DOMAIN messages /\ i \in DOMAIN executed
                                      /\ executed'[i] = executed[i] /\ messages'[i] = messages[i])
         /\ \A i \in DOMAIN messages :
               i \in DOMAIN messages' /\ executed'[i] = executed[i] /\ messages'[i] = messages[i]
<1> DEFINE call == [tool |-> tool, arguments |-> arguments, id |-> id]
           told == [id |-> id, content |-> Final!Serialized(o)]
<1>1. call \in CallRecords /\ told \in MessageRecords
  BY SerializedKeeps DEF CallRecords, MessageRecords
<1>2. executed' = Append(executed, call) /\ messages' = Append(messages, told)
  BY DEF Final!Records
<1>3. /\ call.tool = tool /\ call.arguments = arguments /\ call.id = told.id
      /\ told.content.from = tool /\ told.content.about = o.about
  BY SerializedKeeps
<1> HIDE DEF call, told
<1>4. /\ executed \in Seq(CallRecords) /\ messages \in Seq(MessageRecords)
      /\ Len(messages) = Len(executed) /\ Len(messages) \in Nat
  BY DEF TrailIsTold, Trails, Conversations
<1>5. /\ executed' \in Trails /\ messages' \in Conversations
      /\ Len(messages') = Len(messages) + 1 /\ Len(executed') = Len(messages) + 1
      /\ DOMAIN executed' = 1 .. Len(messages) + 1 /\ DOMAIN messages' = 1 .. Len(messages) + 1
      /\ executed'[Len(messages) + 1] = call /\ messages'[Len(messages) + 1] = told
      /\ \A i \in 1 .. Len(messages) : executed'[i] = executed[i] /\ messages'[i] = messages[i]
  BY <1>1, <1>2, <1>4 DEF Trails, Conversations
<1>6. /\ DOMAIN executed = 1 .. Len(messages) /\ DOMAIN messages = 1 .. Len(messages)
      /\ \A i \in DOMAIN messages' : i = Len(messages') \/ i \in 1 .. Len(messages)
      /\ \A i \in 1 .. Len(messages) : i \in DOMAIN messages'
      /\ Len(messages') \in DOMAIN messages'
  BY <1>4, <1>5
<1>7. ASSUME NEW i \in DOMAIN executed'
      PROVE  /\ messages'[i].id = executed'[i].id
             /\ messages'[i].content.from = executed'[i].tool
             /\ executed'[i].tool \in {Final!ReferenceStatus, Final!Preparation} =>
                    executed'[i].arguments = <<messages'[i].content.about>>
  <2>1. CASE i = Len(messages')
    BY <1>3, <1>5, <2>1
  <2>2. CASE i \in 1 .. Len(messages)
    BY <1>5, <1>6, <2>2 DEF TrailIsTold
  <2>. QED
    BY <1>5, <1>6, <2>1, <2>2
<1>8. TrailIsTold'
  BY <1>5, <1>7 DEF TrailIsTold
<1>. QED
  BY <1>5, <1>6, <1>8 DEF call, told

(* A call that reads nothing and names nothing new adds no references.     *)
LEMMA RecordsAddNone ==
  ASSUME TrailIsTold, NEW tool \in Toolset, NEW id \in CallIds, NEW arguments \in Seq(Names),
         NEW o \in Final!Observations, o.from = tool,
         tool \in {Final!ReferenceStatus, Final!Preparation} => arguments = <<o.about>>,
         Final!Records(tool, id, arguments, o), run' = run,
         tool \notin Final!Discovering \union {Final!Search},
         Final!Members(arguments) \subseteq Final!NamesOfRun
  PROVE  Final!NamesOfRun' = Final!NamesOfRun /\ Final!DocumentsOfRun' = Final!DocumentsOfRun
<1> DEFINE l == Len(messages')
<1>1. /\ DOMAIN executed' = DOMAIN messages' /\ l \in DOMAIN messages'
      /\ executed'[l].arguments = arguments
      /\ messages'[l].content.from = tool
      /\ \A i \in DOMAIN messages' :
            i = l \/ (/\ i \in DOMAIN messages /\ i \in DOMAIN executed
                      /\ executed'[i] = executed[i] /\ messages'[i] = messages[i])
      /\ \A i \in DOMAIN messages :
            i \in DOMAIN messages' /\ executed'[i] = executed[i] /\ messages'[i] = messages[i]
  <2>1. /\ executed'[l] = [tool |-> tool, arguments |-> arguments, id |-> id]
        /\ messages'[l] = [id |-> id, content |-> Final!Serialized(o)]
    BY RecordsAreTold
  <2>2. Final!Serialized(o).from = tool
    BY SerializedKeeps
  <2>3. executed'[l].arguments = arguments /\ messages'[l].content.from = tool
    BY <2>1, <2>2
  <2> HIDE DEF l
  <2>4. l = Len(messages')
    BY DEF l
  <2>. QED
    BY <2>3, <2>4, RecordsAreTold
<1>2. DOMAIN messages = DOMAIN executed
  BY DEF TrailIsTold, Trails, Conversations
<1> HIDE DEF l
<1>3. Final!InRun(Final!Discovering)' = Final!InRun(Final!Discovering)
  BY <1>1 DEF Final!InRun
<1>4. Final!InRun({Final!Search})' = Final!InRun({Final!Search})
  BY <1>1 DEF Final!InRun
<1>5. Final!InRun(Final!Discovering) \subseteq DOMAIN messages
      /\ Final!InRun({Final!Search}) \subseteq DOMAIN messages
  BY DEF Final!InRun
<1>6. Final!DocumentsOfRun' = Final!DocumentsOfRun
  <2> DEFINE searches == Final!InRun({Final!Search})
             now == [i \in searches |-> Final!Members(Final!ReferencesIn(messages[i].content))]
             then == [i \in searches |-> Final!Members(Final!ReferencesIn(messages'[i].content))]
  <2>1. \A i \in searches : messages'[i] = messages[i]
    BY <1>1, <1>5
  <2>2. then = now
    BY <2>1
  <2>3. Final!DocumentsOfRun = UNION {now[i] : i \in searches}
    BY DEF Final!DocumentsOfRun
  <2>4. Final!DocumentsOfRun'
          = UNION {Final!Members(Final!ReferencesIn(messages'[i].content)) :
                     i \in Final!InRun({Final!Search})'}
    BY DEF Final!DocumentsOfRun, Final!Members, Final!ReferencesIn, Final!Reference, Final!FirstOf
  <2>5. Final!DocumentsOfRun' = UNION {then[i] : i \in searches}
    BY <1>4, <2>4
  <2>. QED
    BY <2>2, <2>3, <2>5
<1>7. NamesFound' = NamesFound
  BY <1>1, <1>3, <1>5 DEF NamesFound
<1>8. \A n : n \in NamesAsked' <=> n \in NamesAsked \/ n \in Final!Members(arguments)
  <2>1. \A n : n \in NamesAsked <=> \E i \in DOMAIN executed : n \in Final!Members(executed[i].arguments)
    BY DEF NamesAsked
  <2>2. \A n : n \in NamesAsked' <=> \E i \in DOMAIN executed' : n \in Final!Members(executed'[i].arguments)
    BY DEF NamesAsked, Final!Members
  <2>. QED
    BY <1>1, <1>2, <2>1, <2>2
<1>9. /\ Final!NamesOfRun = Final!Members(run.names) \union NamesAsked \union NamesFound
      /\ Final!NamesOfRun' = Final!Members(run.names) \union NamesAsked' \union NamesFound'
  BY DEF Final!NamesOfRun, NamesAsked, NamesFound, Final!InRun, Final!Members
<1>. QED
  BY <1>6, <1>7, <1>8, <1>9

(* What every end tells, whatever its verdict.                             *)
LEMMA EndIsTold ==
  ASSUME Final!ToolsAreSound, TrailIsTold, TrailIsTold', run' = run,
         Final!NamesOfRun' = Final!NamesOfRun, Final!DocumentsOfRun' = Final!DocumentsOfRun,
         NEW verdict, NEW text, NEW final,
         Final!Ends(Final!Result(verdict, text, final, executed', messages'))
  PROVE  /\ Final!ReferencesAreOfTheRun' /\ Final!RequestedIsNamed' /\ Final!FindingsAreOfTheirCalls'
         /\ stage' = "ended"
         /\ result'.verdict = verdict /\ result'.output = final
         /\ DOMAIN result'.steps = DOMAIN executed'
         /\ \A i \in DOMAIN executed' : result'.steps[i] = Final!FindingOf(executed'[i], messages')
<1>1. /\ stage' = "ended"
      /\ result'.verdict = verdict /\ result'.output = final
      /\ result'.identifiers = Final!Identifiers /\ result'.documents = Final!Documents
      /\ result'.steps = Final!InvestigationSteps(executed', messages')
  BY DEF Final!Ends, Final!Result
<1>2. /\ DOMAIN result'.steps = DOMAIN executed'
      /\ \A i \in DOMAIN executed' : result'.steps[i] = Final!FindingOf(executed'[i], messages')
  BY <1>1 DEF Final!InvestigationSteps
<1>3. Final!ReferencesAreOfTheRun'
  <2>1. MaxDocuments \in Nat
    BY DEF Final!ToolsAreSound
  <2>2. /\ Final!Identifiers \subseteq Final!NamesOfRun
        /\ Cardinality(Final!NamesOfRun) <= MaxIdentifiers =>
               Final!Identifiers = Final!NamesOfRun
        /\ Final!Documents \subseteq Final!DocumentsOfRun
        /\ Cardinality({d.id : d \in Final!DocumentsOfRun}) <= MaxDocuments =>
               {d.id : d \in Final!Documents} = {d.id : d \in Final!DocumentsOfRun}
    BY <2>1, IdentifiersAre, DocumentsAre
  <2>3. /\ Final!Cardinality(Final!NamesOfRun)' = Cardinality(Final!NamesOfRun)
        /\ Final!Cardinality({d.id : d \in Final!DocumentsOfRun})'
             = Cardinality({d.id : d \in Final!DocumentsOfRun})
    BY FinalCardinality
  <2>. QED
    BY <1>1, <2>2, <2>3 DEF Final!ReferencesAreOfTheRun
<1>4. Final!RequestedIsNamed'
  <2>1. Final!Members(run'.names) = Final!Members(run.names)
    OBVIOUS
  <2>. QED
    BY <1>1, <2>1, IdentifiersAre DEF Final!RequestedIsNamed
<1>5. ASSUME NEW i \in DOMAIN result'.steps,
             \A j \in DOMAIN executed' : executed'[j].id = executed'[i].id => j <= i
      PROVE  result'.steps[i] = Final!StepOf(executed'[i], messages'[i].content)
  <2>1. /\ messages' \in Conversations
        /\ DOMAIN messages' = DOMAIN executed'
        /\ \A j \in DOMAIN executed' : j \in Nat /\ messages'[j].id = executed'[j].id
    BY DEF TrailIsTold, Trails, Conversations
  <2>2. result'.steps[i] = Final!FindingOf(executed'[i], messages')
    BY <1>2, <1>5
  <2>3. i \in DOMAIN messages' /\ messages'[i].id = executed'[i].id
    BY <1>2, <1>5, <2>1
  <2>4. PICK j \in DOMAIN messages' :
          /\ messages'[j].id = executed'[i].id
          /\ \A k \in DOMAIN messages' : messages'[k].id = executed'[i].id => k <= j
          /\ Final!ObservationOf(executed'[i], messages') = messages'[j].content
    BY <2>1, <2>3, ObservationIsTheLast
  <2>5. i <= j /\ j <= i
    BY <1>5, <2>1, <2>3, <2>4
  <2>6. j = i
    BY <2>1, <2>3, <2>4, <2>5
  <2>. QED
    BY <2>2, <2>4, <2>6 DEF Final!FindingOf
<1>6. Final!FindingsAreOfTheirCalls'
  BY <1>5 DEF Final!FindingsAreOfTheirCalls, Final!StepOf
<1>. QED
  BY <1>1, <1>2, <1>3, <1>4, <1>6

LEMMA SameIsTold ==
  ASSUME TrailIsTold, UNCHANGED <<run, executed, messages>>
  PROVE  /\ TrailIsTold'
         /\ Final!NamesOfRun' = Final!NamesOfRun /\ Final!DocumentsOfRun' = Final!DocumentsOfRun
<1>1. TrailIsTold'
  BY DEF TrailIsTold
<1>2. Final!NamesOfRun' = Final!NamesOfRun
  BY DEF Final!NamesOfRun, Final!InRun, Final!Members
<1>3. Final!DocumentsOfRun' = Final!DocumentsOfRun
  BY DEF Final!DocumentsOfRun, Final!InRun, Final!Members, Final!ReferencesIn, Final!Reference,
         Final!FirstOf
<1>. QED
  BY <1>1, <1>2, <1>3

(* Without a calibration no step tells of success.                         *)
LEMMA NothingRecovers ==
  ASSUME Final!ToolsAreSound, TrailIsTold, TrailIsTold', run' = run,
         Final!NamesOfRun' = Final!NamesOfRun, Final!DocumentsOfRun' = Final!DocumentsOfRun,
         NEW verdict, verdict # "RECOVERED", NEW text, NEW final,
         Final!Ends(Final!Result(verdict, text, final, executed', messages')),
         \A j \in DOMAIN messages' : messages'[j].content.from # Final!Calibration
  PROVE  Final!RecoveryIsToldAsItEnded'
<1>1. /\ result'.verdict = verdict
      /\ DOMAIN result'.steps = DOMAIN executed'
      /\ \A i \in DOMAIN executed' : result'.steps[i] = Final!FindingOf(executed'[i], messages')
  BY EndIsTold
<1>2. ASSUME NEW i \in DOMAIN executed', result'.steps[i].finding = "succeeded"
      PROVE  FALSE
  <2>1. messages' \in Conversations
    BY DEF TrailIsTold
  <2>2. Final!FindingOf(executed'[i], messages').finding = "succeeded"
    BY <1>1, <1>2
  <2>3. "succeeded" # Final!Fallback
    BY DEF Final!Fallback
  <2>4. PICK j \in DOMAIN messages' :
            Final!Finding(executed'[i].tool, messages'[j].content) = "succeeded"
    BY <2>1, <2>2, <2>3, FindingIsObserved
  <2>. QED
    BY <2>4, SuccessIsACalibrations
<1>. QED
  BY <1>1, <1>2 DEF Final!RecoveryIsToldAsItEnded

(* A terminal text without a calibration.                                  *)
LEMMA ConcludesUnrecovered ==
  ASSUME Final!ToolsAreSound, TrailIsTold, TrailIsTold', run' = run,
         Final!NamesOfRun' = Final!NamesOfRun, Final!DocumentsOfRun' = Final!DocumentsOfRun,
         NEW verdict \in {"RECOVERY_BLOCKED", "RECOVERY_INCOMPLETE", "NOT_REQUIRED", "CANCELLED"},
         Final!Concludes(verdict),
         \A j \in DOMAIN messages' : messages'[j].content.from # Final!Calibration
  PROVE  FinalInv'
<1>1. Final!Ends(Final!Result(verdict, "system", None, executed', messages'))
  BY DEF Final!Concludes
<1>2. /\ Final!ReferencesAreOfTheRun' /\ Final!RequestedIsNamed' /\ Final!FindingsAreOfTheirCalls'
      /\ stage' = "ended" /\ result'.verdict = verdict
  BY <1>1, EndIsTold
<1>3. Final!RecoveryIsToldAsItEnded'
  BY <1>1, NothingRecovers
<1>4. PendingIsKnown' /\ StageIsTold'
  BY <1>2 DEF PendingIsKnown, StageIsTold
<1>. QED
  BY <1>2, <1>3, <1>4 DEF FinalInv, AnswersAreTold

LEMMA ReadsAreTold ==
  ASSUME Final!ToolsAreSound, FinalInv, NEW id \in CallIds, NEW read \in Reads,
         Final!ReadsWith(id, read)
  PROVE  FinalInv'
<1>1. /\ read.tool \in Toolset /\ read.tool # Final!Calibration
      /\ read.arguments \in Seq(Names) /\ read.observation \in Final!Observations
      /\ read.observation.from = read.tool
      /\ read.tool \in {Final!ReferenceStatus, Final!Preparation} =>
             read.arguments = <<read.observation.about>>
  BY DEF Final!ToolsAreSound
<1>2. /\ stage = "model" /\ run' = run /\ pending' = pending /\ result' = result
      /\ Final!Records(read.tool, id, read.arguments, read.observation)
      /\ stage' \in {"model", "prepare_recovery", "not_required"}
      /\ stage' = "prepare_recovery" => read.tool = Final!ReferenceStatus
  BY DEF Final!ReadsWith, Final!Goes
<1>3. /\ result = None
      /\ \A j \in DOMAIN messages : messages[j].content.from # Final!Calibration
  BY <1>2 DEF FinalInv, StageIsTold
<1>4. TrailIsTold
  BY DEF FinalInv
<1>5. /\ TrailIsTold' /\ Len(messages') \in DOMAIN messages'
      /\ messages'[Len(messages')].content = Final!Serialized(read.observation)
      /\ \A i \in DOMAIN messages' :
            i = Len(messages') \/ (i \in DOMAIN messages /\ messages'[i] = messages[i])
  <2>1. /\ TrailIsTold' /\ Len(messages') \in DOMAIN messages'
        /\ messages'[Len(messages')] = [id |-> id, content |-> Final!Serialized(read.observation)]
        /\ \A i \in DOMAIN messages' :
              i = Len(messages') \/ (i \in DOMAIN messages /\ messages'[i] = messages[i])
    BY <1>1, <1>2, <1>4, RecordsAreTold, ZenonT(50)
  <2>. QED
    BY <2>1
<1>6. Final!Serialized(read.observation).from = read.tool
  BY <1>1, SerializedKeeps
<1>7. StageIsTold'
  BY <1>1, <1>2, <1>3, <1>5, <1>6 DEF StageIsTold
<1>8. PendingIsKnown'
  BY <1>2 DEF PendingIsKnown
<1>. QED
  BY <1>2, <1>3, <1>5, <1>7, <1>8, UnendedIsTrue DEF FinalInv

LEMMA PreparationIsTold ==
  ASSUME Final!ToolsAreSound, FinalInv, Final!PreparesRecovery
  PROVE  FinalInv'
<1> DEFINE l == Len(messages)
           own == Final!OwnId
<1>1. PICK read \in Reads :
        /\ read.tool = Final!Preparation
        /\ read.arguments = <<messages[l].content.about>>
        /\ Final!Records(Final!Preparation, own, read.arguments, read.observation)
        /\ \/ Final!Concludes("RECOVERY_BLOCKED")
           \/ Final!Concludes("RECOVERY_INCOMPLETE")
           \/ /\ Final!Goes("pending")
              /\ pending' = [tool |-> Final!Calibration, id |-> own + 1, arguments |-> read.arguments]
  BY DEF Final!PreparesRecovery
<1>2. /\ stage = "prepare_recovery" /\ run' = run
  BY DEF Final!PreparesRecovery
<1>3. /\ TrailIsTold /\ result = None
      /\ l \in DOMAIN messages /\ messages[l].content.from = Final!ReferenceStatus
      /\ \A j \in DOMAIN messages : messages[j].content.from # Final!Calibration
  BY <1>2 DEF FinalInv, StageIsTold
<1>4. /\ read.arguments \in Seq(Names) /\ read.observation \in Final!Observations
      /\ read.observation.from = Final!Preparation
      /\ read.arguments = <<read.observation.about>>
  BY <1>1 DEF Final!ToolsAreSound
<1>5. l \in DOMAIN executed /\ executed[l].arguments = read.arguments
  BY <1>1, <1>3 DEF TrailIsTold, Trails, Conversations
<1>6. Final!Members(read.arguments) \subseteq Final!NamesOfRun
  BY <1>5 DEF Final!NamesOfRun
<1>7. own \in CallIds /\ own + 1 \in CallIds
  BY <1>3 DEF CallIds, Final!OwnId, TrailIsTold, Trails
<1>8. /\ Final!Preparation \in Toolset /\ Final!Preparation # Final!Calibration
      /\ Final!Preparation \notin Final!Discovering \union {Final!Search}
  <2>1. Final!Preparation \in Toolset
    BY <1>1 DEF Final!ToolsAreSound
  <2>3. Final!Preparation # Final!Calibration
    BY DEF Final!Preparation, Final!Calibration
  <2>2. Final!Preparation \notin Final!Discovering /\ Final!Preparation # Final!Search
    BY DEF Final!Preparation, Final!Discovering, Final!Search
  <2>. QED
    BY <2>1, <2>2, <2>3
<1> HIDE DEF l, own
<1>9. /\ TrailIsTold'
      /\ messages'[Len(messages')].content = Final!Serialized(read.observation)
      /\ \A i \in DOMAIN messages' :
            i = Len(messages') \/ (i \in DOMAIN messages /\ messages'[i] = messages[i])
  <2>1. /\ TrailIsTold'
        /\ messages'[Len(messages')] = [id |-> own, content |-> Final!Serialized(read.observation)]
        /\ \A i \in DOMAIN messages' :
              i = Len(messages') \/ (i \in DOMAIN messages /\ messages'[i] = messages[i])
    <3>1. /\ TrailIsTold /\ run' = run /\ own \in CallIds /\ Final!Preparation \in Toolset
          /\ read.arguments \in Seq(Names) /\ read.observation \in Final!Observations
          /\ read.observation.from = Final!Preparation
          /\ Final!Preparation \in {Final!ReferenceStatus, Final!Preparation} =>
                 read.arguments = <<read.observation.about>>
          /\ Final!Records(Final!Preparation, own, read.arguments, read.observation)
      BY <1>1, <1>2, <1>3, <1>4, <1>7, <1>8
    <3>. QED
      BY ONLY <3>1, RecordsAreTold
  <2>. QED
    BY <2>1
<1>10. Final!Serialized(read.observation).from = Final!Preparation
  BY <1>4, SerializedKeeps
<1>11. \A j \in DOMAIN messages' : messages'[j].content.from # Final!Calibration
  BY <1>3, <1>8, <1>9, <1>10
<1>12. Final!NamesOfRun' = Final!NamesOfRun /\ Final!DocumentsOfRun' = Final!DocumentsOfRun
  BY <1>1, <1>2, <1>3, <1>4, <1>6, <1>7, <1>8, RecordsAddNone
<1>13. CASE Final!Concludes("RECOVERY_BLOCKED")
  BY <1>2, <1>3, <1>9, <1>11, <1>12, <1>13, ConcludesUnrecovered
<1>14. CASE Final!Concludes("RECOVERY_INCOMPLETE")
  BY <1>2, <1>3, <1>9, <1>11, <1>12, <1>14, ConcludesUnrecovered
<1>15. CASE /\ Final!Goes("pending")
            /\ pending' = [tool |-> Final!Calibration, id |-> own + 1, arguments |-> read.arguments]
  <2>1. stage' = "pending" /\ result' = None
    BY <1>3, <1>15 DEF Final!Goes
  <2>2. PendingIsKnown'
    BY <1>4, <1>6, <1>7, <1>12, <1>15 DEF PendingIsKnown
  <2>3. StageIsTold'
    BY <1>11, <2>1 DEF StageIsTold
  <2>. QED
    BY <1>9, <2>1, <2>2, <2>3, UnendedIsTrue DEF FinalInv
<1>. QED
  BY <1>1, <1>13, <1>14, <1>15

LEMMA ProposalIsTold ==
  ASSUME Final!ToolsAreSound, FinalInv, Final!Proposes
  PROVE  FinalInv'
<1>1. PICK id \in Ids, tool \in {Final!Ticket, Final!Calibration}, read \in Reads :
        /\ tool = Final!Calibration =>
               \E i \in DOMAIN messages : /\ messages[i].content.from = Final!Preparation
                                         /\ read.arguments = <<messages[i].content.about>>
        /\ pending' = [tool |-> tool, id |-> id, arguments |-> read.arguments]
  BY DEF Final!Proposes
<1>2. /\ stage = "model" /\ stage' = "pending" /\ result' = result
      /\ UNCHANGED <<run, executed, messages>>
  BY DEF Final!Proposes, Final!Goes
<1>3. /\ TrailIsTold /\ result = None
      /\ \A j \in DOMAIN messages : messages[j].content.from # Final!Calibration
  BY <1>2 DEF FinalInv, StageIsTold
<1>4. /\ TrailIsTold' /\ Final!NamesOfRun' = Final!NamesOfRun
  BY <1>2, <1>3, SameIsTold
<1>5. read.arguments \in Seq(Names) /\ id \in CallIds
  BY DEF Final!ToolsAreSound, CallIds
<1>6. ASSUME tool = Final!Calibration
      PROVE  Final!Members(read.arguments) \subseteq Final!NamesOfRun
  <2>1. PICK i \in DOMAIN messages : /\ messages[i].content.from = Final!Preparation
                                    /\ read.arguments = <<messages[i].content.about>>
    BY <1>1, <1>6
  <2>2. i \in DOMAIN executed /\ executed[i].arguments = read.arguments
    BY <1>3, <2>1 DEF TrailIsTold, Trails, Conversations
  <2>. QED
    BY <2>2 DEF Final!NamesOfRun
<1>7. PendingIsKnown'
  BY <1>1, <1>4, <1>5, <1>6 DEF PendingIsKnown
<1>8. StageIsTold'
  BY <1>2, <1>3 DEF StageIsTold
<1>. QED
  BY <1>2, <1>3, <1>4, <1>7, <1>8, UnendedIsTrue DEF FinalInv

LEMMA TicketIsTold ==
  ASSUME Final!ToolsAreSound, FinalInv, Final!ExecutesTicket
  PROVE  FinalInv'
<1> DEFINE o == Final!TicketWritten
<1>1. /\ stage = "pending" /\ pending.tool = Final!Ticket
      /\ Final!Records(Final!Ticket, pending.id, pending.arguments, o)
      /\ stage' = "model" /\ result' = result /\ run' = run
  BY DEF Final!ExecutesTicket, Final!Goes
<1>2. /\ TrailIsTold /\ result = None
      /\ \A j \in DOMAIN messages : messages[j].content.from # Final!Calibration
      /\ pending.id \in CallIds /\ pending.arguments \in Seq(Names)
  BY <1>1 DEF FinalInv, StageIsTold, PendingIsKnown
<1>3. Final!Ticket \in Toolset
  BY DEF Final!ToolsAreSound
<1>4. o \in Final!Observations /\ o.from = Final!Ticket
  BY <1>3 DEF Final!Observations, Final!TicketWritten
<1>5. /\ Final!Ticket # Final!Calibration /\ Final!Ticket # Final!ReferenceStatus
      /\ Final!Ticket # Final!Preparation
  BY DEF Final!Ticket, Final!Calibration, Final!ReferenceStatus, Final!Preparation
<1> DEFINE id == pending.id
           arguments == pending.arguments
<1> HIDE DEF o, id, arguments
<1>6. /\ TrailIsTold /\ run' = run /\ id \in CallIds /\ Final!Ticket \in Toolset
      /\ arguments \in Seq(Names) /\ o \in Final!Observations /\ o.from = Final!Ticket
      /\ Final!Ticket \in {Final!ReferenceStatus, Final!Preparation} => arguments = <<o.about>>
      /\ Final!Records(Final!Ticket, id, arguments, o)
  BY <1>1, <1>2, <1>3, <1>4, <1>5 DEF id, arguments
<1>7. /\ TrailIsTold'
      /\ messages'[Len(messages')] = [id |-> id, content |-> Final!Serialized(o)]
      /\ \A i \in DOMAIN messages' :
            i = Len(messages') \/ (i \in DOMAIN messages /\ messages'[i] = messages[i])
  BY ONLY <1>6, RecordsAreTold
<1>8. Final!Serialized(o).from = Final!Ticket
  BY <1>4, SerializedKeeps
<1>9. \A j \in DOMAIN messages' : messages'[j].content.from # Final!Calibration
  BY <1>2, <1>5, <1>7, <1>8
<1>10. StageIsTold' /\ PendingIsKnown'
  BY <1>1, <1>2, <1>9 DEF StageIsTold, PendingIsKnown
<1>. QED
  BY <1>1, <1>2, <1>7, <1>10, UnendedIsTrue DEF FinalInv

(* The last observation is the calibration's, and the step of the last     *)
(* call finds it by its id.                                                *)
LEMMA CalibrationIsTold ==
  ASSUME Final!ToolsAreSound, FinalInv, Final!ExecutesCalibration
  PROVE  FinalInv'
<1> DEFINE id == pending.id
           arguments == pending.arguments
           l == Len(messages')
<1>1. PICK o \in Executions :
        /\ Final!Records(Final!Calibration, id, arguments, o)
        /\ Final!Concludes(IF Final!IsVerified(o) THEN "RECOVERED"
                           ELSE IF "blocked" \in o.facts THEN "RECOVERY_BLOCKED" ELSE "RECOVERY_FAILED")
  BY DEF Final!ExecutesCalibration
<1>2. stage = "pending" /\ pending.tool = Final!Calibration /\ run' = run
  BY DEF Final!ExecutesCalibration
<1>3. /\ TrailIsTold
      /\ \A j \in DOMAIN messages : messages[j].content.from # Final!Calibration
      /\ id \in CallIds /\ arguments \in Seq(Names)
      /\ Final!Members(arguments) \subseteq Final!NamesOfRun
  BY <1>2 DEF FinalInv, StageIsTold, PendingIsKnown
<1>4. /\ Final!Calibration \in Toolset
      /\ o \in Final!Observations /\ o.from = Final!Calibration
  BY DEF Final!ToolsAreSound
<1>5. Final!Calibration # Final!ReferenceStatus /\ Final!Calibration # Final!Preparation
  BY DEF Final!Calibration, Final!ReferenceStatus, Final!Preparation
<1>6. Final!Calibration \notin Final!Discovering \union {Final!Search}
  <2>1. Final!Calibration \notin Final!Discovering /\ Final!Calibration # Final!Search
    BY DEF Final!Calibration, Final!Discovering, Final!Search
  <2>. QED
    BY <2>1
<1> DEFINE verdict == IF Final!IsVerified(o) THEN "RECOVERED"
                      ELSE IF "blocked" \in o.facts THEN "RECOVERY_BLOCKED" ELSE "RECOVERY_FAILED"
<1> HIDE DEF id, arguments, verdict
<1>7. /\ TrailIsTold /\ run' = run /\ id \in CallIds /\ Final!Calibration \in Toolset
      /\ arguments \in Seq(Names) /\ o \in Final!Observations /\ o.from = Final!Calibration
      /\ Final!Calibration \in {Final!ReferenceStatus, Final!Preparation} => arguments = <<o.about>>
      /\ Final!Records(Final!Calibration, id, arguments, o)
      /\ Final!Calibration \notin Final!Discovering \union {Final!Search}
      /\ Final!Members(arguments) \subseteq Final!NamesOfRun
  BY <1>1, <1>2, <1>3, <1>4, <1>5, <1>6
<1>8. /\ TrailIsTold'
      /\ DOMAIN executed' = DOMAIN messages' /\ l \in DOMAIN messages'
      /\ executed'[l] = [tool |-> Final!Calibration, arguments |-> arguments, id |-> id]
      /\ messages'[l] = [id |-> id, content |-> Final!Serialized(o)]
      /\ \A i \in DOMAIN messages' :
            i = l \/ (i \in DOMAIN messages /\ messages'[i] = messages[i])
  BY ONLY <1>7, RecordsAreTold
<1>9. Final!NamesOfRun' = Final!NamesOfRun /\ Final!DocumentsOfRun' = Final!DocumentsOfRun
  BY ONLY <1>7, RecordsAddNone
<1>10. Final!Ends(Final!Result(verdict, "system", None, executed', messages'))
  BY <1>1 DEF Final!Concludes, verdict
<1>11. /\ Final!ReferencesAreOfTheRun' /\ Final!RequestedIsNamed' /\ Final!FindingsAreOfTheirCalls'
       /\ stage' = "ended" /\ result'.verdict = verdict
       /\ DOMAIN result'.steps = DOMAIN executed'
       /\ \A i \in DOMAIN executed' : result'.steps[i] = Final!FindingOf(executed'[i], messages')
  BY <1>2, <1>3, <1>8, <1>9, <1>10, EndIsTold
<1>12. /\ verdict = "RECOVERED" <=> Final!IsVerified(o)
       /\ verdict # "ANSWERED"
  BY DEF verdict
<1> DEFINE s == Final!Serialized(o)
<1>13. /\ s \in Final!Observations /\ s.from = Final!Calibration
       /\ Final!IsVerified(s) <=> Final!IsVerified(o)
  BY <1>4, SerializedKeeps DEF Final!IsVerified
<1> HIDE DEF s
<1>14. messages'[l].id = id /\ messages'[l].content = s
       /\ executed'[l].tool = Final!Calibration /\ executed'[l].id = id
  BY <1>8 DEF s
<1>15. messages' \in Conversations /\ \A i \in DOMAIN messages' : i <= l
  BY <1>8 DEF TrailIsTold, Conversations
<1> HIDE DEF l
<1>16. ASSUME Final!IsVerified(o)
       PROVE  result'.steps[l].finding = "succeeded"
  <2>1. s # None
    BY <1>13 DEF Final!ToolsAreSound
  <2>2. Final!Finding(Final!Calibration, s) = "succeeded"
    BY <1>13, <1>16, <2>1, VerifiedIsSuccess
  <2>3. Final!ObservationOf(executed'[l], messages') = s
    <3> DEFINE same == {i \in DOMAIN messages' : messages'[i].id = executed'[l].id}
    <3>1. l \in same
      BY <1>8, <1>14
    <3>2. PICK j \in same : /\ \A i \in same : i <= j
                            /\ Final!ObservationOf(executed'[l], messages') = messages'[j].content
      BY <1>15, <3>1, ObservationIsTheLast
    <3>3. j <= l /\ l <= j /\ j \in Nat /\ l \in Nat
      BY <1>8, <1>15, <3>1, <3>2 DEF Conversations
    <3>4. j = l
      BY <3>3
    <3>. QED
      BY <1>14, <3>2, <3>4
  <2>4. result'.steps[l] = Final!FindingOf(executed'[l], messages')
    BY <1>8, <1>11
  <2>. QED
    BY <1>14, <2>2, <2>3, <2>4 DEF Final!FindingOf, Final!StepOf
<1>17. ASSUME NEW i \in DOMAIN executed', result'.steps[i].finding = "succeeded"
       PROVE  Final!IsVerified(o)
  <2>1. Final!FindingOf(executed'[i], messages').finding = "succeeded"
    BY <1>11, <1>17
  <2>2. "succeeded" # Final!Fallback
    BY DEF Final!Fallback
  <2>3. PICK j \in DOMAIN messages' :
            Final!Finding(executed'[i].tool, messages'[j].content) = "succeeded"
    BY <1>15, <2>1, <2>2, FindingIsObserved
  <2>4. messages'[j].content.from = Final!Calibration /\ Final!IsVerified(messages'[j].content)
    BY <2>3, SuccessIsACalibrations
  <2>5. j = l
    BY <1>3, <1>8, <2>4
  <2>. QED
    BY <1>13, <1>14, <2>4, <2>5
<1>18. Final!RecoveryIsToldAsItEnded'
  BY <1>8, <1>11, <1>12, <1>16, <1>17 DEF Final!RecoveryIsToldAsItEnded
<1>19. PendingIsKnown' /\ StageIsTold'
  BY <1>11, <1>12 DEF PendingIsKnown, StageIsTold
<1>. QED
  BY <1>8, <1>11, <1>18, <1>19 DEF FinalInv, AnswersAreTold

LEMMA CancellationIsTold ==
  ASSUME Final!ToolsAreSound, FinalInv,
         Final!Cancels \/ Final!NeedsNoRecovery \/ Final!AnswersUnrecovered
  PROVE  FinalInv'
<1>1. UNCHANGED <<run, executed, messages>> /\ stage # "ended"
  BY DEF Final!Cancels, Final!NeedsNoRecovery, Final!AnswersUnrecovered
<1>2. /\ TrailIsTold
      /\ \A j \in DOMAIN messages' : messages'[j].content.from # Final!Calibration
  BY <1>1 DEF FinalInv, StageIsTold
<1>3. /\ TrailIsTold'
      /\ Final!NamesOfRun' = Final!NamesOfRun /\ Final!DocumentsOfRun' = Final!DocumentsOfRun
  BY <1>1, <1>2, SameIsTold
<1>4. PICK verdict \in {"RECOVERY_BLOCKED", "RECOVERY_INCOMPLETE", "NOT_REQUIRED", "CANCELLED"} :
          Final!Concludes(verdict)
  BY DEF Final!Cancels, Final!NeedsNoRecovery, Final!AnswersUnrecovered
<1>. QED
  BY <1>1, <1>2, <1>3, <1>4, ConcludesUnrecovered

(* Whatever is drafted, normalized and corrected, a state with an answer   *)
(* to publish or none at all.                                              *)
LEMMA DraftIsTold ==
  ASSUME FinalInv, Final!Drafts \/ Final!Normalizes \/ Final!Corrects
  PROVE  FinalInv'
<1>1. /\ UNCHANGED <<run, executed, messages, pending, result>> /\ stage # "ended"
      /\ stage' \in {"normalize", "correct", "publish"}
      /\ output' \in Final!Outputs
  BY DEF Final!Drafts, Final!Normalizes, Final!Corrects, Final!Narratives
<1>2. /\ TrailIsTold /\ result' = None
      /\ \A j \in DOMAIN messages' : messages'[j].content.from # Final!Calibration
  BY <1>1 DEF FinalInv, StageIsTold
<1>3. TrailIsTold'
  BY <1>1, <1>2, SameIsTold
<1>4. PendingIsKnown' /\ StageIsTold'
  BY <1>1, <1>2 DEF PendingIsKnown, StageIsTold
<1>. QED
  BY <1>2, <1>3, <1>4, UnendedIsTrue DEF FinalInv

LEMMA AnswerIsTold ==
  ASSUME Final!ToolsAreSound, FinalInv, Final!Publishes
  PROVE  FinalInv'
<1> DEFINE final == Final!Safe(output)
           text == IF Final!IsInventory THEN "inventory" ELSE IF final = output THEN "model" ELSE "safe"
<1>1. /\ stage = "publish"
      /\ UNCHANGED <<run, executed, messages>>
      /\ Final!Ends(Final!Result("ANSWERED", text, final, executed, messages))
  BY DEF Final!Publishes
<1>2. /\ TrailIsTold
      /\ \A j \in DOMAIN messages' : messages'[j].content.from # Final!Calibration
  BY <1>1 DEF FinalInv, StageIsTold
<1> HIDE DEF final, text
<1>4. /\ TrailIsTold'
      /\ Final!NamesOfRun' = Final!NamesOfRun /\ Final!DocumentsOfRun' = Final!DocumentsOfRun
  BY <1>1, <1>2, SameIsTold
<1>5. Final!Ends(Final!Result("ANSWERED", text, final, executed', messages'))
  BY <1>1
<1>6. /\ Final!ReferencesAreOfTheRun' /\ Final!RequestedIsNamed' /\ Final!FindingsAreOfTheirCalls'
      /\ stage' = "ended" /\ result'.verdict = "ANSWERED" /\ result'.output = final
  BY <1>1, <1>2, <1>4, <1>5, EndIsTold
<1>7. Final!RecoveryIsToldAsItEnded'
  BY <1>1, <1>2, <1>4, <1>5, NothingRecovers
<1>8. PendingIsKnown' /\ StageIsTold'
  BY <1>6 DEF PendingIsKnown, StageIsTold
<1>. QED
  BY <1>4, <1>6, <1>7, <1>8 DEF FinalInv, AnswersAreTold

LEMMA NothingIsTold ==
  ASSUME FinalInv, Final!PublishesNothing \/ UNCHANGED Final!answerVars
  PROVE  FinalInv'
<1>1. CASE Final!PublishesNothing
  <2>1. /\ UNCHANGED <<run, executed, messages, result>> /\ stage # "ended" /\ stage' = "ended"
    BY <1>1 DEF Final!PublishesNothing
  <2>2. TrailIsTold /\ result' = None
    BY <2>1 DEF FinalInv, StageIsTold
  <2>3. TrailIsTold'
    BY <2>1, <2>2, SameIsTold
  <2>4. PendingIsKnown' /\ StageIsTold'
    BY <2>1 DEF PendingIsKnown, StageIsTold
  <2>. QED
    BY <2>2, <2>3, <2>4, UnendedIsTrue DEF FinalInv
<1>2. CASE UNCHANGED Final!answerVars
  <2>1. UNCHANGED <<run, executed, messages, pending, stage, output, result>>
    BY <1>2 DEF Final!answerVars
  <2>2. /\ TrailIsTold' /\ Final!NamesOfRun' = Final!NamesOfRun
        /\ Final!DocumentsOfRun' = Final!DocumentsOfRun
    BY <2>1, SameIsTold DEF FinalInv
  <2>3. PendingIsKnown' /\ StageIsTold'
    <3>1. PendingIsKnown /\ StageIsTold
      BY DEF FinalInv
    <3>. QED
      BY <2>1, <2>2, <3>1 DEF PendingIsKnown, StageIsTold
  <2>4. AnswersAreTold'
    <3>1. AnswersAreTold
      BY DEF FinalInv
    <3>2. Final!ReferencesAreOfTheRun'
      BY <2>1, <2>2, <3>1, FinalCardinality DEF AnswersAreTold, Final!ReferencesAreOfTheRun
    <3>3. Final!RequestedIsNamed' /\ Final!RecoveryIsToldAsItEnded'
      BY <2>1, <3>1 DEF AnswersAreTold, Final!RequestedIsNamed, Final!RecoveryIsToldAsItEnded,
                        Final!Members
    <3>4. Final!FindingsAreOfTheirCalls'
      BY <2>1, <3>1 DEF AnswersAreTold, Final!FindingsAreOfTheirCalls
    <3>. QED
      BY <3>2, <3>3, <3>4 DEF AnswersAreTold
  <2>. QED
    BY <2>2, <2>3, <2>4 DEF FinalInv
<1>. QED
  BY <1>1, <1>2

LEMMA AnswersStepTold ==
  ASSUME Final!ToolsAreSound, FinalInv, [Final!NextAnswer]_Final!answerVars
  PROVE  FinalInv'
<1>1. CASE Final!GraphReads
  <2>1. PICK read \in Reads : Final!ReadsWith(Final!OwnId, read)
    BY <1>1 DEF Final!GraphReads
  <2>2. Final!OwnId \in CallIds
    BY DEF Final!OwnId, CallIds, FinalInv, TrailIsTold, Trails
  <2>. QED
    BY <2>1, <2>2, ReadsAreTold
<1>2. CASE Final!ModelReads
  <2>1. PICK id \in Ids, read \in Reads : Final!ReadsWith(id, read)
    BY <1>2 DEF Final!ModelReads
  <2>. QED
    BY <2>1, ReadsAreTold DEF CallIds
<1>3. CASE Final!PreparesRecovery
  BY <1>3, PreparationIsTold
<1>4. CASE Final!Proposes
  BY <1>4, ProposalIsTold
<1>5. CASE Final!ExecutesTicket
  BY <1>5, TicketIsTold
<1>6. CASE Final!ExecutesCalibration
  BY <1>6, CalibrationIsTold
<1>7. CASE Final!Cancels \/ Final!NeedsNoRecovery \/ Final!AnswersUnrecovered
  BY <1>7, CancellationIsTold
<1>8. CASE Final!Drafts \/ Final!Normalizes \/ Final!Corrects
  BY <1>8, DraftIsTold
<1>9. CASE Final!Publishes
  BY <1>9, AnswerIsTold
<1>10. CASE Final!PublishesNothing \/ UNCHANGED Final!answerVars
  BY <1>10, NothingIsTold
<1>. QED
  BY <1>1, <1>2, <1>3, <1>4, <1>5, <1>6, <1>7, <1>8, <1>9, <1>10 DEF Final!NextAnswer

LEMMA AnswersStartTold ==
  ASSUME Final!ToolsAreSound, Final!InitAnswer
  PROVE  FinalInv
<1>1. /\ run \in Asked /\ executed = << >> /\ messages = << >> /\ stage = "model" /\ result = None
  BY DEF Final!InitAnswer
<1>2. TrailIsTold
  BY <1>1 DEF TrailIsTold, Trails, Conversations
<1>3. PendingIsKnown /\ StageIsTold
  BY <1>1 DEF PendingIsKnown, StageIsTold
<1>4. AnswersAreTold
  BY <1>1 DEF AnswersAreTold, Final!ReferencesAreOfTheRun, Final!RequestedIsNamed,
       Final!FindingsAreOfTheirCalls, Final!RecoveryIsToldAsItEnded
<1>. QED
  BY <1>2, <1>3, <1>4 DEF FinalInv

LEMMA AnswersStayTold ==
  ASSUME Final!ToolsAreSound
  PROVE  Final!SpecAnswer => []FinalInv
<1>1. Final!InitAnswer => FinalInv
  BY AnswersStartTold
<1>2. FinalInv /\ [Final!NextAnswer]_Final!answerVars => FinalInv'
  BY AnswersStepTold
<1>. QED
  BY <1>1, <1>2, PTL DEF Final!SpecAnswer

(* Whatever a run was asked, however many calls of whatever tools it made, *)
(* under whatever ids, and however it ended: it publishes identifiers and  *)
(* documents of the run, and all of them if they fit.                      *)
THEOREM AnswersReferToTheRun == Final!SpecAnswer => []ReferencesAreOfTheRun
<1>1. FinalInv => ReferencesAreOfTheRun
  BY DEF FinalInv, AnswersAreTold, ReferencesAreOfTheRun
<1>. QED
  BY <1>1, AnswersAssumption, AnswersStayTold, PTL

(* What the user named is among them whatever the tools returned.          *)
THEOREM AnswersNameTheRequested == Final!SpecAnswer => []RequestedIsNamed
<1>1. FinalInv => RequestedIsNamed
  BY DEF FinalInv, AnswersAreTold, RequestedIsNamed
<1>. QED
  BY <1>1, AnswersAssumption, AnswersStayTold, PTL

(* A step says what its own call observed, unless a later call has taken   *)
(* its id: nothing else in the order of reads, writes and terminal nodes   *)
(* gives one call the observation of another.                              *)
THEOREM AnswersTellFindings == Final!SpecAnswer => []FindingsAreOfTheirCalls
<1>1. FinalInv => FindingsAreOfTheirCalls
  BY DEF FinalInv, AnswersAreTold, FindingsAreOfTheirCalls
<1>. QED
  BY <1>1, AnswersAssumption, AnswersStayTold, PTL

(* The steps tell of a successful calibration just when the verdict does.  *)
THEOREM AnswersTellTheRecovery == Final!SpecAnswer => []RecoveryIsToldAsItEnded
<1>1. FinalInv => RecoveryIsToldAsItEnded
  BY DEF FinalInv, AnswersAreTold, RecoveryIsToldAsItEnded
<1>. QED
  BY <1>1, AnswersAssumption, AnswersStayTold, PTL
-----------------------------------------------------------------------------
(* Inventories.                                                            *)

LEMMA FinalSum ==
  ASSUME NEW f
  PROVE  Final!SumFunction(f) = SumFunction(f)
BY DEF Final!SumFunction, Final!SumFunctionOnSet, Final!FoldFunctionOnSet, Final!MapThenFoldSet,
       SumFunction, SumFunctionOnSet, FoldFunctionOnSet, MapThenFoldSet

(* A name listed more than once is shown where it is first.                *)
LEMMA FirstRowsAre ==
  ASSUME NEW rows \in Seq(Names)
  PROVE  /\ Final!FirstRows(rows) \subseteq 1 .. Len(rows)
         /\ IsFiniteSet(Final!FirstRows(rows))
         /\ \A i \in DOMAIN rows : \E j \in Final!FirstRows(rows) : rows[j] = rows[i]
         /\ \A i, j \in Final!FirstRows(rows) : rows[i] = rows[j] => i = j
<1>1. DOMAIN rows = 1 .. Len(rows) /\ Len(rows) \in Nat
  OBVIOUS
<1>2. Final!FirstRows(rows) \subseteq 1 .. Len(rows)
  BY <1>1 DEF Final!FirstRows
<1>3. IsFiniteSet(1 .. Len(rows))
  BY <1>1, FS_Interval
<1>4. IsFiniteSet(Final!FirstRows(rows))
  BY <1>2, <1>3, FS_Subset
<1>5. ASSUME NEW i \in DOMAIN rows
      PROVE  \E j \in Final!FirstRows(rows) : rows[j] = rows[i]
  <2> DEFINE same == {j \in DOMAIN rows : rows[j] = rows[i]}
  <2>1. same \in SUBSET Nat /\ same # {}
    BY <1>1
  <2>2. PICK j \in same : \A k \in same : j <= k
    BY <2>1, LeastNumber
  <2>3. \A k \in DOMAIN rows : k < j => rows[k] # rows[j]
    BY <1>1, <2>2
  <2>. QED
    BY <2>2, <2>3 DEF Final!FirstRows
<1>6. ASSUME NEW i \in Final!FirstRows(rows), NEW j \in Final!FirstRows(rows), rows[i] = rows[j]
      PROVE  i = j
  <2>1. ~ (i < j) /\ ~ (j < i)
    BY <1>6 DEF Final!FirstRows
  <2>2. i \in Nat /\ j \in Nat
    BY <1>1, <1>2
  <2>. QED
    BY <2>1, <2>2
<1>. QED
  BY <1>2, <1>4, <1>5, <1>6

(* What is shown is a beginning of what there is to show, and fits with    *)
(* the line that says so.                                                  *)
LEMMA ShownFits ==
  ASSUME Final!ToolsAreSound, NEW rows \in Seq(Names)
  PROVE  LET total == SumFunction([i \in Final!Shown(rows) |-> Width[rows[i]] + 1])
         IN  total \in Nat /\ Heading + total + Partial + 2 <= MaxAnswer
<1> DEFINE first == Final!FirstRows(rows)
           shown == Final!Shown(rows)
           width == [i \in shown |-> Width[rows[i]] + 1]
<1>1. /\ first \subseteq 1 .. Len(rows) /\ IsFiniteSet(first)
      /\ DOMAIN rows = 1 .. Len(rows) /\ Len(rows) \in Nat
  BY FirstRowsAre
<1>2. shown \subseteq first /\ IsFiniteSet(shown)
  BY <1>1, FS_Subset DEF Final!Shown
<1>3. \A i \in 1 .. Len(rows) : rows[i] \in Names
  BY <1>1
<1>4. /\ Heading \in Nat /\ Partial \in Nat /\ MaxAnswer \in Nat
      /\ Heading + Partial + 2 <= MaxAnswer /\ Width \in [Names -> Nat]
  BY DEF Final!ToolsAreSound
<1>5. \A i \in first : Width[rows[i]] \in Nat
  BY <1>1, <1>3, <1>4
<1>6. width \in [shown -> Nat]
  BY <1>2, <1>5
<1>7. CASE shown = {}
  <2>1. SumFunction(width) = 0
    BY <1>6, <1>7, SumOfNothing
  <2>. QED
    BY <1>4, <2>1
<1>8. CASE shown # {}
  <2>1. shown \in SUBSET Nat /\ \A i \in shown : i <= Len(rows)
    BY <1>1, <1>2
  <2> HIDE DEF shown
  <2>2. PICK m \in shown : \A i \in shown : i <= m
    BY <1>1, <1>8, <2>1, GreatestNumber
  <2>3. {k \in first : k < m} = shown \ {m}
    <3>1. ASSUME NEW k \in first, k < m PROVE k \in shown
      <4>1. \A j \in first : j <= m => Final!Fits(rows, j)
        BY DEF shown, Final!Shown
      <4>2. \A j \in first : j <= k => j <= m
        BY <1>1, <1>2, <3>1
      <4>. QED
        BY <4>1, <4>2 DEF shown, Final!Shown
    <3>2. \A k \in shown \ {m} : k < m /\ k \in first
      BY <1>2, <2>1, <2>2
    <3>3. m \in Nat /\ \A k \in first : k < m => k # m
      BY <2>1
    <3>. QED
      BY <3>1, <3>2, <3>3
  <2> DEFINE before == [k \in shown \ {m} |-> Width[rows[k]] + 1]
  <2>4. before \in [shown \ {m} -> Nat] /\ \A k \in shown \ {m} : before[k] = width[k]
    BY <1>2, <1>5
  <2>7. Final!Fits(rows, m)
    BY <1>1, <1>2 DEF shown, Final!Shown
  <2>8. Final!LengthBefore(rows, m) = Heading + 2 + SumFunction(before)
    BY <2>3, FinalSum DEF Final!LengthBefore
  <2>9. width[m] = Width[rows[m]] + 1 /\ Width[rows[m]] \in Nat
    BY <1>2, <1>5
  <2> HIDE DEF before, width
  <2>5. IsFiniteSet(shown \ {m})
    BY <1>2, FS_Subset
  <2>6. PICK b \in Nat : b = SumFunction(before)
    BY <2>4, <2>5, SumIsNat
  <2>12. SumFunction(width) = width[m] + SumFunction(before)
    <3>1. /\ m \in DOMAIN width /\ IsFiniteSet(DOMAIN width)
          /\ \A k \in DOMAIN width : width[k] \in Nat
          /\ DOMAIN before = DOMAIN width \ {m}
          /\ \A k \in DOMAIN before : before[k] = width[k]
      BY <1>2, <1>6, <2>4
    <3>. QED
      BY ONLY <3>1, SumWithElement
  <2>10. Heading + 2 + b + Width[rows[m]] + Partial + 2 <= MaxAnswer
    BY <2>6, <2>7, <2>8 DEF Final!Fits
  <2>13. PICK w \in Nat : w = Width[rows[m]]
    BY <2>9
  <2>14. SumFunction(width) = w + 1 + b
    BY <2>6, <2>9, <2>12, <2>13
  <2>16. /\ Heading \in Nat /\ Partial \in Nat /\ MaxAnswer \in Nat
         /\ Heading + 2 + b + w + Partial + 2 <= MaxAnswer
    BY <1>4, <2>10, <2>13
  <2>15. w + 1 + b \in Nat /\ Heading + (w + 1 + b) + Partial + 2 <= MaxAnswer
    BY ONLY <2>16, w \in Nat, b \in Nat
  <2>11. SumFunction(width) \in Nat /\ Heading + SumFunction(width) + Partial + 2 <= MaxAnswer
    BY <2>14, <2>15
  <2>. QED
    BY <2>11 DEF width, shown
<1>. QED
  BY <1>7, <1>8

LEMMA InventoryOfRows ==
  ASSUME Final!ToolsAreSound, NEW rows \in Seq(Names)
  PROVE  /\ Final!Inventory(rows).rows \subseteq Final!Members(rows)
         /\ Final!Inventory(rows).partial <=> Final!Inventory(rows).rows # Final!Members(rows)
         /\ Final!Inventory(rows).length <= MaxAnswer
<1> DEFINE first == Final!FirstRows(rows)
           shown == Final!Shown(rows)
           total == SumFunction([i \in Final!Shown(rows) |-> Width[rows[i]] + 1])
<1>1. /\ first \subseteq DOMAIN rows
      /\ \A i \in DOMAIN rows : \E j \in first : rows[j] = rows[i]
      /\ \A i, j \in first : rows[i] = rows[j] => i = j
  BY FirstRowsAre
<1>2. shown \subseteq first
  BY DEF Final!Shown
<1>3. /\ Final!Inventory(rows).rows = {rows[i] : i \in shown}
      /\ Final!Inventory(rows).partial = (shown # first)
      /\ Final!Inventory(rows).length = Heading + 1 + total + (IF shown # first THEN Partial + 1 ELSE 0)
  BY FinalSum DEF Final!Inventory
<1>4. total \in Nat /\ Heading + total + Partial + 2 <= MaxAnswer
  BY ShownFits
<1>5. Heading \in Nat /\ Partial \in Nat /\ MaxAnswer \in Nat
  BY DEF Final!ToolsAreSound
<1> HIDE DEF first, shown, total
<1>6. {rows[i] : i \in shown} \subseteq Final!Members(rows)
  BY <1>1, <1>2 DEF Final!Members
<1>7. (shown # first) <=> {rows[i] : i \in shown} # Final!Members(rows)
  <2>1. CASE shown = first
    BY <1>1, <1>6, <2>1 DEF Final!Members
  <2>2. CASE shown # first
    <3>1. PICK i \in first : i \notin shown
      BY <1>2, <2>2
    <3>2. \A j \in shown : rows[j] # rows[i]
      BY <1>1, <1>2, <3>1
    <3>3. rows[i] \in Final!Members(rows)
      BY <1>1 DEF Final!Members
    <3>. QED
      BY <2>2, <3>2, <3>3
  <2>. QED
    BY <2>1, <2>2
<1>8. Final!Inventory(rows).length <= MaxAnswer
  BY <1>3, <1>4, <1>5
<1>. QED
  BY <1>3, <1>6, <1>7, <1>8

(* A request that names its reading has it read before anything else, and  *)
(* a message has the id of its call.                                       *)
FirstIsRead ==
    /\ \A i \in DOMAIN executed : messages[i].id = executed[i].id
    /\ run.first # None /\ executed # << >> => executed[1].tool = run.first
    /\ stage \in {"pending", "normalize", "correct", "publish"} =>
           run.first = None \/ executed # << >>

InventoryInv == FirstIsRead /\ Final!InventoryIsTold

(* The last call of all that listed was answered by the last message that  *)
(* lists: were its id that of a later call, the run would have raised.     *)
LEMMA ListContentIsTheLast ==
  ASSUME Final!ToolsAreSound, TrailIsTold, FirstIsRead, stage = "publish",
         run.first \in Final!Lists, Final!IsInventory => Final!ListContent.from = run.first
  PROVE  /\ Final!IsInventory
         /\ \E i \in Final!InRun({run.first}) :
               /\ \A j \in Final!InRun({run.first}) : j <= i
               /\ Final!ListContent = messages[i].content
<1> DEFINE calls_ == Final!ListCalls
           last == CHOOSE i \in calls_ : \A j \in calls_ : j <= i
<1>1. /\ executed \in Seq(CallRecords) /\ messages \in Conversations
      /\ DOMAIN executed = 1 .. Len(executed) /\ Len(executed) \in Nat
      /\ DOMAIN messages = DOMAIN executed
      /\ \A i \in DOMAIN executed : /\ messages[i].content.from = executed[i].tool
                                    /\ messages[i].id = executed[i].id
  BY DEF TrailIsTold, Trails, Conversations, FirstIsRead
<1>2. run.first # None
  BY DEF Final!ToolsAreSound, Final!Lists
<1>3. executed # << >> /\ executed[1].tool = run.first
  BY <1>2 DEF FirstIsRead
<1>4. 1 \in DOMAIN executed
  BY <1>1, <1>3
<1>5. calls_ \in SUBSET Nat /\ calls_ # {} /\ \A i \in calls_ : i <= Len(executed)
  BY <1>1, <1>3, <1>4 DEF Final!ListCalls
<1>6. last \in calls_ /\ \A j \in calls_ : j <= last
  <2> HIDE DEF calls_
  <2>1. PICK i \in calls_ : \A j \in calls_ : j <= i
    BY <1>1, <1>5, GreatestNumber
  <2>. QED
    BY <2>1
<1>7. Final!IsInventory
  BY <1>5 DEF Final!IsInventory
<1>8. Final!ListContent = Final!ObservationOf(executed[last], messages)
  BY DEF Final!ListContent
<1>9. calls_ = Final!InRun({run.first})
  BY <1>1 DEF Final!ListCalls, Final!InRun
<1>10. last \in DOMAIN messages /\ messages[last].id = executed[last].id
  BY <1>1, <1>6 DEF Final!ListCalls
<1> HIDE DEF last, calls_
<1>11. PICK k \in DOMAIN messages :
          /\ \A i \in DOMAIN messages : messages[i].id = executed[last].id => i <= k
          /\ Final!ListContent = messages[k].content
  BY <1>1, <1>8, <1>10, ObservationIsTheLast
<1>12. messages[k].content.from = run.first
  BY <1>7, <1>11
<1>13. k \in Final!InRun({run.first})
  BY <1>12 DEF Final!InRun
<1>14. last <= k /\ k <= last
  BY <1>6, <1>9, <1>10, <1>11, <1>13
<1>15. k = last
  BY <1>1, <1>10, <1>14
<1>. QED
  BY <1>6, <1>7, <1>9, <1>11, <1>13, <1>15

LEMMA PublishedInventory ==
  ASSUME Final!ToolsAreSound, TrailIsTold, FirstIsRead, Final!Publishes
  PROVE  Final!InventoryIsTold'
<1>1. /\ stage = "publish" /\ UNCHANGED <<run, executed, messages>>
      /\ Final!IsInventory => Final!ListContent.from = run.first
  BY DEF Final!Publishes
<1>2. SUFFICES ASSUME run.first \in Final!Lists
      PROVE  \E i \in Final!InRun({run.first}) :
                /\ \A j \in Final!InRun({run.first}) : j <= i
                /\ result'.inventory.rows \subseteq Final!Members(messages[i].content.rows)
                /\ result'.inventory.partial <=>
                       result'.inventory.rows # Final!Members(messages[i].content.rows)
                /\ result'.inventory.length <= MaxAnswer
  <2>1. Final!InRun({run.first})' = Final!InRun({run.first})
    BY <1>1 DEF Final!InRun
  <2>2. \A i : Final!Members(messages[i].content.rows)' = Final!Members(messages[i].content.rows)
    BY <1>1 DEF Final!Members
  <2>. QED
    BY <1>1, <2>1, <2>2 DEF Final!InventoryIsTold
<1>3. PICK i \in Final!InRun({run.first}) :
        /\ Final!IsInventory
        /\ \A j \in Final!InRun({run.first}) : j <= i
        /\ Final!ListContent = messages[i].content
  BY <1>1, <1>2, ListContentIsTheLast
<1>4. result'.inventory = Final!Inventory(messages[i].content.rows)
  BY <1>3 DEF Final!Publishes, Final!Ends, Final!Result
<1>5. messages[i].content.rows \in Seq(Names)
  <2>1. messages[i] \in MessageRecords
    BY DEF TrailIsTold, Conversations, Final!InRun
  <2>2. messages[i].content \in Final!Observations
    BY <2>1 DEF MessageRecords
  <2>. QED
    BY <2>2 DEF Final!Observations
<1>. QED
  BY <1>3, <1>4, <1>5, InventoryOfRows

(* A call goes behind the first.                                           *)
LEMMA RecordsKeepTheFirst ==
  ASSUME TrailIsTold, FirstIsRead, run' = run, NEW tool, NEW id, NEW arguments, NEW o,
         Final!Records(tool, id, arguments, o),
         executed = << >> => run.first = None \/ tool = run.first
  PROVE  FirstIsRead'
<1> DEFINE call == [tool |-> tool, arguments |-> arguments, id |-> id]
           told == [id |-> id, content |-> Final!Serialized(o)]
<1>1. executed' = Append(executed, call) /\ messages' = Append(messages, told)
  BY DEF Final!Records
<1>2. call.tool = tool /\ call.id = id /\ told.id = id
  OBVIOUS
<1> HIDE DEF call, told
<1>3. /\ executed \in Seq(CallRecords) /\ messages \in Seq(MessageRecords)
      /\ Len(messages) = Len(executed) /\ Len(executed) \in Nat
      /\ DOMAIN executed = 1 .. Len(executed)
  BY DEF TrailIsTold, Trails, Conversations
<1>4. /\ DOMAIN executed' = 1 .. Len(executed) + 1
      /\ executed'[Len(executed) + 1] = call /\ messages'[Len(executed) + 1] = told
      /\ \A i \in 1 .. Len(executed) : executed'[i] = executed[i] /\ messages'[i] = messages[i]
  BY <1>1, <1>3
<1>5. ASSUME NEW i \in DOMAIN executed' PROVE messages'[i].id = executed'[i].id
  <2>1. i \in 1 .. Len(executed) \/ i = Len(executed) + 1
    BY <1>3, <1>4
  <2>. QED
    BY <1>2, <1>3, <1>4, <2>1 DEF FirstIsRead
<1>6. executed' # << >>
  BY <1>3, <1>4
<1>7. run.first # None => executed'[1].tool = run.first
  <2>1. CASE executed = << >>
    <3>1. executed'[1] = call
      BY <1>3, <1>4, <2>1
    <3>. QED
      BY <1>2, <2>1, <3>1
  <2>2. CASE executed # << >>
    <3>1. executed'[1] = executed[1]
      BY <1>3, <1>4, <2>2
    <3>. QED
      BY <2>2, <3>1 DEF FirstIsRead
  <2>. QED
    BY <2>1, <2>2
<1>. QED
  BY <1>5, <1>6, <1>7 DEF FirstIsRead

LEMMA FirstStaysRead ==
  ASSUME FinalInv, FirstIsRead, [Final!NextAnswer]_Final!answerVars
  PROVE  FirstIsRead'
<1>0. TrailIsTold
  BY DEF FinalInv
<1>1. CASE Final!GraphReads \/ Final!ModelReads
  <2>1. PICK id, read :
           /\ Final!ReadsWith(id, read)
           /\ executed = << >> => run.first = None \/ read.tool = run.first
    BY <1>1 DEF Final!GraphReads, Final!ModelReads
  <2>2. /\ Final!Records(read.tool, id, read.arguments, read.observation)
        /\ run' = run
    BY <2>1 DEF Final!ReadsWith
  <2>. QED
    BY <1>0, <2>1, <2>2, RecordsKeepTheFirst
<1>2. CASE Final!PreparesRecovery
  <2>1. PICK read :
           Final!Records(Final!Preparation, Final!OwnId, read.arguments, read.observation)
    BY <1>2 DEF Final!PreparesRecovery
  <2>2. stage = "prepare_recovery" /\ run' = run
    BY <1>2 DEF Final!PreparesRecovery
  <2>3. executed # << >>
    BY <1>0, <2>2 DEF FinalInv, StageIsTold, TrailIsTold, Trails, Conversations
  <2>. QED
    BY <1>0, <2>1, <2>2, <2>3, RecordsKeepTheFirst
<1>3. CASE Final!ExecutesTicket \/ Final!ExecutesCalibration
  <2>1. PICK tool, o : Final!Records(tool, pending.id, pending.arguments, o)
    BY <1>3 DEF Final!ExecutesTicket, Final!ExecutesCalibration
  <2>2. stage = "pending" /\ run' = run
    BY <1>3 DEF Final!ExecutesTicket, Final!ExecutesCalibration
  <2>3. executed = << >> => run.first = None
    BY <2>2 DEF FirstIsRead
  <2>. QED
    BY <1>0, <2>1, <2>2, <2>3, RecordsKeepTheFirst
<1>4. CASE Final!Proposes \/ Final!Drafts \/ Final!Normalizes \/ Final!Corrects
  <2>1. /\ UNCHANGED <<run, executed, messages>>
        /\ run.first = None \/ executed # << >>
    BY <1>4 DEF Final!Proposes, Final!Drafts, Final!Normalizes, Final!Corrects, FirstIsRead
  <2>. QED
    BY <2>1 DEF FirstIsRead
<1>5. CASE \/ Final!Cancels \/ Final!NeedsNoRecovery \/ Final!AnswersUnrecovered
           \/ Final!Publishes \/ Final!PublishesNothing
  <2>1. UNCHANGED <<run, executed, messages>> /\ stage' = "ended"
    BY <1>5 DEF Final!Cancels, Final!NeedsNoRecovery, Final!AnswersUnrecovered, Final!Publishes,
                Final!PublishesNothing, Final!Concludes, Final!Ends
  <2>. QED
    BY <2>1 DEF FirstIsRead
<1>6. CASE UNCHANGED Final!answerVars
  BY <1>6 DEF Final!answerVars, FirstIsRead
<1>. QED
  BY <1>1, <1>2, <1>3, <1>4, <1>5, <1>6 DEF Final!NextAnswer

(* Whatever else ends a run is not an answer.                              *)
LEMMA OthersTellNoInventory ==
  ASSUME FinalInv, Final!NextAnswer, ~ Final!Publishes
  PROVE  Final!InventoryIsTold'
<1>1. \A verdict : Final!Concludes(verdict) => result'.verdict = verdict
  BY DEF Final!Concludes, Final!Ends, Final!Result
<1>2. stage # "ended" => result = None
  BY DEF FinalInv, StageIsTold
<1>3. result' = None \/ result'.verdict # "ANSWERED"
  <2>1. CASE Final!GraphReads \/ Final!ModelReads
    <3>1. stage = "model" /\ result' = result
      BY <2>1 DEF Final!GraphReads, Final!ModelReads, Final!ReadsWith, Final!Goes
    <3>. QED
      BY <1>2, <3>1
  <2>2. CASE Final!PreparesRecovery
    <3>1. \/ Final!Concludes("RECOVERY_BLOCKED") \/ Final!Concludes("RECOVERY_INCOMPLETE")
          \/ stage # "ended" /\ result' = result
      BY <2>2 DEF Final!PreparesRecovery, Final!Goes
    <3>. QED
      BY <1>1, <1>2, <3>1
  <2>3. CASE Final!NeedsNoRecovery \/ Final!Cancels \/ Final!AnswersUnrecovered
    BY <1>1, <2>3 DEF Final!NeedsNoRecovery, Final!Cancels, Final!AnswersUnrecovered
  <2>4. CASE Final!Proposes \/ Final!Drafts \/ Final!Normalizes \/ Final!Corrects
             \/ Final!ExecutesTicket \/ Final!PublishesNothing
    <3>1. stage # "ended" /\ result' = result
      BY <2>4 DEF Final!Proposes, Final!Drafts, Final!Normalizes, Final!Corrects,
                  Final!ExecutesTicket, Final!PublishesNothing, Final!Goes
    <3>. QED
      BY <1>2, <3>1
  <2>5. CASE Final!ExecutesCalibration
    <3>1. \E verdict \in {"RECOVERED", "RECOVERY_BLOCKED", "RECOVERY_FAILED"} :
              Final!Concludes(verdict)
      BY <2>5 DEF Final!ExecutesCalibration
    <3>. QED
      BY <1>1, <3>1
  <2>. QED
    BY <2>1, <2>2, <2>3, <2>4, <2>5 DEF Final!NextAnswer
<1>. QED
  BY <1>3 DEF Final!InventoryIsTold

LEMMA InventoryStaysTold ==
  ASSUME Final!ToolsAreSound, FinalInv, InventoryInv, [Final!NextAnswer]_Final!answerVars
  PROVE  InventoryInv'
<1>1. FirstIsRead /\ TrailIsTold /\ Final!InventoryIsTold
  BY DEF InventoryInv, FinalInv
<1>2. FirstIsRead'
  BY <1>1, FirstStaysRead
<1>3. CASE Final!Publishes
  BY <1>1, <1>2, <1>3, PublishedInventory DEF InventoryInv
<1>4. CASE Final!NextAnswer /\ ~ Final!Publishes
  BY <1>2, <1>4, OthersTellNoInventory DEF InventoryInv
<1>5. CASE UNCHANGED Final!answerVars
  <2>1. Final!InventoryIsTold'
    BY <1>1, <1>5 DEF Final!answerVars, Final!InventoryIsTold, Final!InRun, Final!Members
  <2>. QED
    BY <1>2, <2>1 DEF InventoryInv
<1>. QED
  BY <1>3, <1>4, <1>5

(* Whoever asks for the stations or the products gets what the last list   *)
(* of the run returned, within the bound of an answer, and is told when    *)
(* that is not all: for any lists, widths and bounds, and whatever ids the *)
(* model gave its calls.                                                   *)
THEOREM InventoriesAreTold == Final!SpecAnswer => []InventoryIsTold
<1>1. Final!InitAnswer => InventoryInv
  <2>1. ASSUME Final!InitAnswer PROVE InventoryInv
    BY <2>1 DEF Final!InitAnswer, InventoryInv, FirstIsRead, Final!InventoryIsTold
  <2>. QED
    BY <2>1
<1>2. FinalInv /\ InventoryInv /\ [Final!NextAnswer]_Final!answerVars => InventoryInv'
  BY AnswersAssumption, InventoryStaysTold
<1>3. InventoryInv => InventoryIsTold
  BY DEF InventoryInv, InventoryIsTold
<1>. QED
  BY <1>1, <1>2, <1>3, AnswersAssumption, AnswersStayTold, PTL DEF Final!SpecAnswer

-----------------------------------------------------------------------------
(* The knowledge server behind search_documentation: what is hidden from a *)
(* caller has no influence on what a search tells it, whatever the         *)
(* catalog, the clearances and the rankers are; and the factory's lock is  *)
(* always given back.                                                      *)

Corpora == {Chunks(catalog, ClearanceOf(x)) : x \in Contexts} \union {Nothing}

RequestRecords ==
    [pc : {"idle", "denied", "waiting", "building", "searching", "answered", "failed"},
     client : Clients \union {Nothing}, query : Queries \union {{}}, limit : Limits \union {0},
     corpus : Corpora, searches : Nat]

KnowledgeIsTyped ==
    /\ request \in [Requests -> RequestRecords]
    /\ cache \in [Contexts -> Corpora]

(* Every pipeline is that of its own context's clearance.                  *)
PipelinesAreFiltered ==
    \A x \in Contexts : cache[x] # Nothing => cache[x] = Chunks(catalog, ClearanceOf(x))

(* A request under way is a registered client's, of the process that       *)
(* serves; one that searches has its client's pipeline, and one that is    *)
(* answered was answered from it.                                          *)
RequestsAreFiltered ==
    \A r \in Requests :
        LET q == request[r]
        IN  /\ IsUnderWay(r) => serving /\ q.client \in Clients
            /\ q.pc = "searching" => cache[q.client] = Chunks(catalog, ClearanceOf(q.client))
            /\ q.pc = "answered" =>
                  q.client \in Clients /\ q.corpus = Chunks(catalog, ClearanceOf(q.client))

KnowledgeInv == KnowledgeIsTyped /\ PipelinesAreFiltered /\ RequestsAreFiltered /\ LockIsGivenBack

-----------------------------------------------------------------------------
(* A station that is not readable is not emitted, and hiding it first      *)
(* changes nothing.                                                        *)
LEMMA EmittedTwice ==
    ASSUME NEW document, NEW clearance, NEW label
    PROVE  LET seen == [classification |-> label,
                        station |-> EmittedStation(document, clearance)]
           IN  EmittedStation(seen, clearance) = EmittedStation(document, clearance)
BY DEF EmittedStation

(* A catalog without what a clearance does not see lists the same rows.    *)
LEMMA ListedAsVisible ==
    ASSUME NEW documents, NEW clearance
    PROVE  ListDocuments(Visible(documents, clearance), clearance)
             = ListDocuments(documents, clearance)
<1> DEFINE seen == Visible(documents, clearance)
           Row(ds, d) == [classification |-> Label(ds[d], clearance),
                          station |-> EmittedStation(ds[d], clearance)]
           Readable(ds) == {d \in DOMAIN ds : ds[d].classification <= clearance}
<1>1. DOMAIN seen = Readable(documents)
  BY DEF Visible
<1>2. \A d \in Readable(documents) :
        seen[d] = [classification |-> documents[d].classification,
                   station |-> EmittedStation(documents[d], clearance)]
  BY DEF Visible
<1>0. /\ ListDocuments(seen, clearance) = [d \in Readable(seen) |-> Row(seen, d)]
      /\ ListDocuments(documents, clearance) = [d \in Readable(documents) |-> Row(documents, d)]
  BY DEF ListDocuments
<1> HIDE DEF seen
<1>3. Readable(seen) = Readable(documents)
  <2>1. ASSUME NEW d \in Readable(documents)
        PROVE  seen[d].classification = documents[d].classification
    <3> HIDE DEF Readable
    <3>1. seen[d] = [classification |-> documents[d].classification,
                     station |-> EmittedStation(documents[d], clearance)]
      BY <1>2
    <3> QED
      BY <3>1
  <2>2. \A d : d \in Readable(seen) <=> d \in Readable(documents)
    BY <1>1, <2>1
  <2> QED
    BY <2>2
<1>4. ASSUME NEW d \in Readable(documents)
      PROVE  Row(seen, d) = Row(documents, d)
  <2> DEFINE row == [classification |-> documents[d].classification,
                     station |-> EmittedStation(documents[d], clearance)]
  <2>1. seen[d] = row
    BY <1>2
  <2>2. EmittedStation(row, clearance) = EmittedStation(documents[d], clearance)
    BY EmittedTwice
  <2>3. Label(row, clearance) = Label(documents[d], clearance)
    BY <2>2 DEF Label
  <2> HIDE DEF row
  <2> QED
    BY <2>1, <2>2, <2>3
<1> HIDE DEF Row, Readable
<1>6. [d \in Readable(seen) |-> Row(seen, d)] = [d \in Readable(documents) |-> Row(documents, d)]
  BY <1>3, <1>4
<1> QED BY <1>0, <1>6 DEF seen

LEMMA ChunksOfTheVisible ==
    ASSUME NEW documents, NEW clearance
    PROVE  Chunks(Visible(documents, clearance), clearance) = Chunks(documents, clearance)
BY ListedAsVisible DEF Chunks
-----------------------------------------------------------------------------
LEMMA KnowledgeStartsFiltered == InitKnowledge => KnowledgeInv
<1> SUFFICES ASSUME InitKnowledge PROVE KnowledgeInv
  OBVIOUS
<1>1. KnowledgeIsTyped
  <2>1. Nothing \in Corpora
    BY DEF Corpora
  <2>2. Idle \in RequestRecords
    BY <2>1 DEF Idle, RequestRecords
  <2> QED
    BY <2>1, <2>2 DEF InitKnowledge, KnowledgeIsTyped
<1>2. PipelinesAreFiltered
  BY DEF InitKnowledge, PipelinesAreFiltered
<1>3. RequestsAreFiltered /\ LockIsGivenBack
  BY KnowledgeAssumption DEF InitKnowledge, RequestsAreFiltered, LockIsGivenBack, IsUnderWay, Idle
<1> QED
  BY <1>1, <1>2, <1>3 DEF KnowledgeInv

(* What a step of one request keeps of the others.                         *)
LEMMA KnowledgeStaysFiltered ==
    ASSUME KnowledgeInv, [NextKnowledge]_knowledgeVars
    PROVE  KnowledgeInv'
<1> USE DEF KnowledgeInv
<1>0. catalog' = catalog
  BY DEF NextKnowledge, knowledgeVars, Starts, Stops, Damages, Asks, Progress, Finds, Misses, Builds,
         FailsToBuild, IsAnswered, FailsToSearch
<1>1. CASE Starts
  <2>1. \A r \in Requests : ~ IsUnderWay(r)
    BY <1>1 DEF Starts, RequestsAreFiltered
  <2>2. KnowledgeIsTyped'
    <3>1. RequestRecords' = RequestRecords /\ Corpora' = Corpora
      BY <1>0 DEF RequestRecords, Corpora
    <3>2. \A x \in Contexts : Chunks(catalog, ClearanceOf(x)) \in Corpora /\ Nothing \in Corpora
      BY DEF Corpora
    <3>3. cache' \in [Contexts -> Corpora]
      BY <1>1, <3>2 DEF Starts
    <3> QED
      BY <1>1, <3>1, <3>3 DEF Starts, KnowledgeIsTyped
  <2>3. PipelinesAreFiltered'
    BY <1>1, <1>0 DEF Starts, PipelinesAreFiltered
  <2>4. RequestsAreFiltered'
    BY <1>1, <1>0, <2>1 DEF Starts, RequestsAreFiltered, IsUnderWay
  <2>5. LockIsGivenBack'
    BY <1>1, KnowledgeAssumption DEF Starts, LockIsGivenBack
  <2> QED
    BY <2>2, <2>3, <2>4, <2>5
<1>2. CASE Stops
  <2>1. KnowledgeIsTyped'
    BY <1>2, <1>0 DEF Stops, KnowledgeIsTyped, RequestRecords, Corpora
  <2>2. PipelinesAreFiltered'
    BY <1>2, <1>0 DEF Stops, PipelinesAreFiltered
  <2>3. ASSUME NEW r \in Requests
        PROVE  /\ request'[r].pc \notin {"waiting", "building", "searching"}
               /\ request'[r].pc = "answered" => request'[r] = request[r]
    BY <1>2 DEF Stops, KnowledgeIsTyped, RequestRecords, IsUnderWay
  <2>4. RequestsAreFiltered'
    BY <1>2, <1>0, <2>3 DEF RequestsAreFiltered, IsUnderWay
  <2>5. LockIsGivenBack'
    BY <1>2, <2>3, KnowledgeAssumption DEF Stops, LockIsGivenBack
  <2> QED
    BY <2>1, <2>2, <2>4, <2>5
<1>3. CASE (\E d \in intact : Damages(d)) \/ UNCHANGED knowledgeVars
  <2>1. UNCHANGED <<catalog, serving, cache, holder, request>>
    BY <1>3 DEF Damages, knowledgeVars
  <2> QED
    BY <2>1 DEF KnowledgeIsTyped, RequestRecords, Corpora, PipelinesAreFiltered, RequestsAreFiltered,
                IsUnderWay, LockIsGivenBack
<1>4. CASE \E r \in Requests, client \in Clients \union {Nothing}, query \in Queries,
               limit \in Limits : Asks(r, client, query, limit)
  <2> PICK r \in Requests, client \in Clients \union {Nothing}, query \in Queries,
           limit \in Limits : Asks(r, client, query, limit)
    BY <1>4
  <2> DEFINE new == [pc |-> IF client \in Clients THEN "waiting" ELSE "denied",
                     client |-> client, query |-> query, limit |-> limit,
                     corpus |-> Nothing, searches |-> request[r].searches + 1]
  <2>0. new \in RequestRecords
    BY DEF KnowledgeIsTyped, RequestRecords, Corpora
  <2>1. /\ request' = [request EXCEPT ![r] = new]
        /\ serving /\ ~ IsUnderWay(r)
        /\ UNCHANGED <<serving, cache, holder>>
    BY DEF Asks
  <2>2. KnowledgeIsTyped'
    <3>1. RequestRecords' = RequestRecords /\ Corpora' = Corpora
      BY <1>0 DEF RequestRecords, Corpora
    <3> QED
      BY <2>0, <2>1, <3>1 DEF KnowledgeIsTyped
  <2>3. PipelinesAreFiltered'
    BY <1>0, <2>1 DEF PipelinesAreFiltered
  <2>4. RequestsAreFiltered'
    BY <1>0, <2>1 DEF RequestsAreFiltered, IsUnderWay, KnowledgeIsTyped
  <2>5. LockIsGivenBack'
    BY <2>1 DEF LockIsGivenBack, IsUnderWay, KnowledgeIsTyped
  <2> QED
    BY <2>2, <2>3, <2>4, <2>5
<1>5. ASSUME NEW r \in Requests, Progress(r)
      PROVE  KnowledgeInv'
  <2> DEFINE client == request[r].client
  <2>1. /\ request[r].pc \in {"waiting", "building", "searching"}
        /\ serving /\ client \in Clients /\ client \in Contexts
    BY <1>5 DEF Progress, Finds, Misses, Builds, FailsToBuild, IsAnswered, FailsToSearch,
               RequestsAreFiltered, IsUnderWay, Contexts
  <2>2. /\ serving' = serving
        /\ \A o \in Requests \ {r} : request'[o] = request[o]
        /\ request'[r].client = client
    BY <1>5 DEF Progress, Finds, Misses, Builds, FailsToBuild, IsAnswered, FailsToSearch, Moves,
               KnowledgeIsTyped, RequestRecords
  <2>3. KnowledgeIsTyped'
    <3>1. Chunks(catalog, ClearanceOf(client)) \in Corpora /\ cache[client] \in Corpora
      BY <2>1 DEF Corpora, KnowledgeIsTyped
    <3>2. Corpora' = Corpora
      BY <1>0 DEF Corpora
    <3>3. cache' \in [Contexts -> Corpora]
      BY <1>5, <3>1 DEF Progress, Finds, Misses, Builds, FailsToBuild, IsAnswered, FailsToSearch,
                       KnowledgeIsTyped
    <3>4. request' \in [Requests -> RequestRecords]
      <4>1. CASE IsAnswered(r)
        BY <3>1, <4>1, ZenonT(50) DEF IsAnswered, KnowledgeIsTyped, RequestRecords
      <4>2. CASE \E at \in {"searching", "building", "failed"} : Moves(r, at)
        BY <4>2 DEF Moves, KnowledgeIsTyped, RequestRecords
      <4> QED
        BY <1>5, <4>1, <4>2 DEF Progress, Finds, Misses, Builds, FailsToBuild, FailsToSearch
    <3> QED
      BY <3>2, <3>3, <3>4 DEF KnowledgeIsTyped, RequestRecords
  <2>4. PipelinesAreFiltered'
    BY <1>5, <1>0, <2>1 DEF Progress, Finds, Misses, Builds, FailsToBuild, IsAnswered,
                            FailsToSearch, PipelinesAreFiltered, KnowledgeIsTyped
  <2>5. \A x \in Contexts : cache[x] # Nothing => cache'[x] = cache[x] \/ x = client
    BY <1>5 DEF Progress, Finds, Misses, Builds, FailsToBuild, IsAnswered, FailsToSearch, KnowledgeIsTyped
  <2>6. RequestsAreFiltered'
    <3>1. /\ request'[r].pc = "searching" =>
                cache'[client] = Chunks(catalog, ClearanceOf(client))
          /\ request'[r].pc = "answered" =>
                request'[r].corpus = Chunks(catalog, ClearanceOf(client))
      BY <1>5, <2>1, ZenonT(50) DEF Progress, Finds, Misses, Builds, FailsToBuild, IsAnswered, FailsToSearch,
                       Moves, KnowledgeIsTyped, RequestRecords, PipelinesAreFiltered,
                       RequestsAreFiltered
    <3>2. ASSUME NEW o \in Requests \ {r}, request[o].pc = "searching"
          PROVE  cache'[request[o].client] = Chunks(catalog, ClearanceOf(request[o].client))
      BY <1>5, <2>1, <3>2 DEF Progress, Finds, Misses, Builds, FailsToBuild, IsAnswered,
                       FailsToSearch, KnowledgeIsTyped, RequestsAreFiltered, IsUnderWay, Contexts
    <3> QED
      BY <1>0, <2>1, <2>2, <3>1, <3>2 DEF RequestsAreFiltered, IsUnderWay
  <2>7. LockIsGivenBack'
    BY <1>5, <2>2, KnowledgeAssumption DEF Progress, Finds, Misses, Builds, FailsToBuild,
            IsAnswered, FailsToSearch, Moves, KnowledgeIsTyped, RequestRecords, LockIsGivenBack
  <2> QED
    BY <2>3, <2>4, <2>6, <2>7
<1> QED
  BY <1>1, <1>2, <1>3, <1>4, <1>5 DEF NextKnowledge

(* Filtered pipelines answer as if the hidden were not there.              *)
LEMMA FilteredAnswersIgnoreTheHidden == RequestsAreFiltered => AnswersIgnoreTheHidden
BY ChunksOfTheVisible DEF RequestsAreFiltered, AnswersIgnoreTheHidden

-----------------------------------------------------------------------------
THEOREM KnowledgeIsFiltered == KnowledgeSpec => []KnowledgeInv
<1>1. InitKnowledge => KnowledgeInv
  BY KnowledgeStartsFiltered
<1>2. KnowledgeInv /\ [NextKnowledge]_knowledgeVars => KnowledgeInv'
  BY KnowledgeStaysFiltered
<1> QED
  BY <1>1, <1>2, PTL DEF KnowledgeSpec

(* No document, station, label or score that a caller is not cleared for   *)
(* has an influence on what search_documentation answers it: for every     *)
(* catalog, every text and every similarity, whatever other clients search *)
(* and whichever files are damaged.                                        *)
THEOREM HiddenHasNoInfluence == KnowledgeSpec => []AnswersIgnoreTheHidden
<1>1. KnowledgeInv => AnswersIgnoreTheHidden
  BY FilteredAnswersIgnoreTheHidden DEF KnowledgeInv
<1> QED
  BY <1>1, KnowledgeIsFiltered, PTL

(* The factory's lock is held by a request that builds, and by no other.   *)
THEOREM LockIsAlwaysGivenBack == KnowledgeSpec => []LockIsGivenBack
<1>1. KnowledgeInv => LockIsGivenBack
  BY DEF KnowledgeInv
<1> QED
  BY <1>1, KnowledgeIsFiltered, PTL

-----------------------------------------------------------------------------
(* What rankings agree about.  Scores are numbers, chunks are pairs of     *)
(* them, and a chunk is scored once.                                       *)
IsRanking(ranking) ==
    /\ IsFiniteSet(ranking)
    /\ \A a \in ranking : a[1] \in Int /\ a[2] \in Nat \X Nat
    /\ \A a, b \in ranking : a[2] = b[2] => a = b

LEMMA PartsAreRankings ==
    ASSUME NEW ranking, IsRanking(ranking), NEW part, part \subseteq ranking
    PROVE  IsRanking(part)
BY FS_Subset DEF IsRanking

(* Being above is a strict order.                                          *)
LEMMA AboveIsStrict ==
    ASSUME NEW ranking, IsRanking(ranking), NEW a \in ranking, NEW b \in ranking, NEW d \in ranking
    PROVE  /\ ~ IsAbove(a, a)
           /\ IsAbove(a, b) /\ IsAbove(b, d) => IsAbove(a, d)
<1>1. ASSUME NEW x \in ranking
      PROVE  x[1] \in Int /\ x[2][1] \in Nat /\ x[2][2] \in Nat
  BY DEF IsRanking
<1>2. /\ a[1] \in Int /\ a[2][1] \in Nat /\ a[2][2] \in Nat
      /\ b[1] \in Int /\ b[2][1] \in Nat /\ b[2][2] \in Nat
      /\ d[1] \in Int /\ d[2][1] \in Nat /\ d[2][2] \in Nat
  BY <1>1
<1>. QED
  BY ONLY <1>2 DEF IsAbove, IsIdBefore

LEMMA RanksAreNumbers ==
    ASSUME NEW ranking, IsRanking(ranking), NEW a
    PROVE  Rank(ranking, a) \in Nat \ {0}
<1> DEFINE above == {b \in ranking : IsAbove(b, a)}
<1>1. IsFiniteSet(above)
  BY FS_Subset DEF IsRanking
<1>2. Cardinality(above) \in Nat
  BY <1>1, FS_CardinalityType
<1>3. Rank(ranking, a) = 1 + Cardinality(above)
  BY DEF Rank
<1> HIDE DEF above
<1>. QED
  BY ONLY <1>2, <1>3

(* Who is above has the smaller rank.                                      *)
LEMMA AboveHasTheSmallerRank ==
    ASSUME NEW ranking, IsRanking(ranking), NEW a \in ranking, NEW b \in ranking, IsAbove(a, b)
    PROVE  Rank(ranking, a) < Rank(ranking, b)
<1> DEFINE over(x) == {y \in ranking : IsAbove(y, x)}
<1>1. over(a) \subseteq over(b) \ {a}
  BY AboveIsStrict
<1>2. a \in over(b)
  OBVIOUS
<1>3. IsFiniteSet(over(b))
  BY FS_Subset DEF IsRanking
<1>4. Rank(ranking, a) = 1 + Cardinality(over(a)) /\ Rank(ranking, b) = 1 + Cardinality(over(b))
  BY DEF Rank
<1> HIDE DEF over
<1>5. IsFiniteSet(over(b) \ {a}) /\ Cardinality(over(b) \ {a}) = Cardinality(over(b)) - 1
  BY <1>2, <1>3, FS_RemoveElement
<1>6. IsFiniteSet(over(a)) /\ Cardinality(over(a)) <= Cardinality(over(b) \ {a})
  BY <1>1, <1>5, FS_Subset
<1>7. Cardinality(over(a)) \in Nat /\ Cardinality(over(b)) \in Nat
  BY <1>3, <1>6, FS_CardinalityType
<1>. QED
  BY ONLY <1>4, <1>5, <1>6, <1>7

(* What is cut off a ranking leaves the ranks of the rest at most as large.*)
LEMMA TopHasSmallRanks ==
    ASSUME NEW ranking, IsRanking(ranking), NEW limit \in Nat, NEW a \in Top(ranking, limit)
    PROVE  Rank(Top(ranking, limit), a) <= limit
<1> DEFINE top == Top(ranking, limit)
           above(set) == {b \in set : IsAbove(b, a)}
<1>1. top \subseteq ranking /\ Rank(ranking, a) <= limit
  BY DEF Top
<1> HIDE DEF top
<1>2. IsFiniteSet(above(ranking)) /\ above(top) \subseteq above(ranking)
  BY <1>1, FS_Subset DEF IsRanking
<1>3. Rank(ranking, a) = 1 + Cardinality(above(ranking)) /\ Rank(top, a) = 1 + Cardinality(above(top))
  BY DEF Rank
<1> HIDE DEF above
<1>4. IsFiniteSet(above(top)) /\ Cardinality(above(top)) <= Cardinality(above(ranking))
  BY <1>2, FS_Subset
<1>5. Cardinality(above(top)) \in Nat /\ Cardinality(above(ranking)) \in Nat
  BY <1>2, <1>4, FS_CardinalityType
<1>6. Rank(top, a) <= limit
  BY ONLY limit \in Nat, <1>1, <1>3, <1>4, <1>5
<1>. QED
  BY <1>6 DEF top

(* Billionths of small ranks decrease.                                     *)
LEMMA Reciprocals ==
    ASSUME NEW x \in Nat \ {0}, NEW y \in Nat \ {0}, x < y, y * y <= 1000000000
    PROVE  /\ 1000000000 \div x \in Nat
           /\ 1000000000 \div y < 1000000000 \div x
           /\ 0 < 1000000000 \div y
<1> DEFINE u == 1000000000 \div x
           v == 1000000000 \div y
<1>1. u \in Int /\ v \in Int
  OBVIOUS
<1>2. u * x <= 1000000000 /\ 1000000000 < (u + 1) * x
  OBVIOUS
<1>3. v * y <= 1000000000 /\ 1000000000 < (v + 1) * y
  OBVIOUS
<1> HIDE DEF u, v
<1>4. y <= v
  <2>1. SUFFICES ASSUME v + 1 <= y PROVE FALSE
    BY <1>1
  <2>2. (v + 1) * y <= y * y
    BY ONLY <1>1, <2>1, y \in Nat \ {0}
  <2>. QED
    BY ONLY <1>1, <1>3, <2>2, y * y <= 1000000000, y \in Nat \ {0}
<1>5. v < u
  <2>1. SUFFICES ASSUME u <= v PROVE FALSE
    BY <1>1
  <2>2. (u + 1) * x <= (v + 1) * x
    BY ONLY <1>1, <2>1, x \in Nat \ {0}
  <2>3. (v + 1) * x <= (v + 1) * (y - 1)
    BY ONLY <1>1, <1>4, x \in Nat \ {0}, y \in Nat \ {0}, x < y
  <2>4. (v + 1) * (y - 1) = v * y - v + y - 1
    BY ONLY <1>1, y \in Nat \ {0}
  <2>. QED
    BY ONLY <1>1, <1>2, <1>3, <1>4, <2>2, <2>3, <2>4, x \in Nat \ {0}, y \in Nat \ {0}
<1>. QED
  BY <1>1, <1>4, <1>5 DEF u, v
(* What a ranking contributes to the fusion.                               *)
LEMMA RankedContribution ==
    ASSUME NEW ranking, IsRanking(ranking), NEW a \in ranking
    PROVE  ReciprocalRank(ranking, a[2]) = 1000000000 \div (RankConstant + Rank(ranking, a))
<1> DEFINE own == {b \in ranking : b[2] = a[2]}
           share(b) == 1000000000 \div (RankConstant + Rank(ranking, b))
           f == [b \in own |-> share(b)]
           g == [b \in {} |-> share(b)]
<1>1. own = {a}
  BY DEF IsRanking
<1>2. Rank(ranking, a) \in Nat \ {0}
  BY RanksAreNumbers
<1>3. share(a) \in Nat
  BY ONLY <1>2, RankAssumption
<1>4. ReciprocalRank(ranking, a[2]) = SumFunction(f)
  BY DEF ReciprocalRank
<1> HIDE DEF share
<1>5. DOMAIN f = {a} /\ f[a] = share(a) /\ IsFiniteSet({a})
  BY <1>1, FS_Singleton
<1>6. g \in [{} -> Nat] /\ DOMAIN g = {}
  OBVIOUS
<1> HIDE DEF f, g, own
<1>7. SumFunction(g) = 0
  BY <1>6, SumOfNothing
<1>8. SumFunction(f) = f[a] + SumFunction(g)
  BY <1>3, <1>5, <1>6, SumWithElement
<1>9. SumFunction(f) = share(a)
  BY ONLY <1>3, <1>5, <1>7, <1>8
<1>. QED
  BY <1>4, <1>9 DEF share

LEMMA UnrankedContribution ==
    ASSUME NEW ranking, NEW c, \A a \in ranking : a[2] # c
    PROVE  ReciprocalRank(ranking, c) = 0
<1> DEFINE share(b) == 1000000000 \div (RankConstant + Rank(ranking, b))
           f == [b \in {b \in ranking : b[2] = c} |-> share(b)]
<1>1. {b \in ranking : b[2] = c} = {}
  OBVIOUS
<1>2. ReciprocalRank(ranking, c) = SumFunction(f)
  BY DEF ReciprocalRank
<1> HIDE DEF share
<1>3. f \in [{} -> Nat]
  BY <1>1
<1> HIDE DEF f
<1>. QED
  BY <1>2, <1>3, SumOfNothing

(* A chunk above another, or alone, in a cut ranking contributes more.     *)
LEMMA AboveContributesMore ==
    ASSUME NEW ranking, IsRanking(ranking),
           \A a \in ranking : Rank(ranking, a) <= CandidateLimit,
           NEW a \in ranking, NEW d, \A b \in ranking : b[2] = d => IsAbove(a, b)
    PROVE  /\ ReciprocalRank(ranking, a[2]) \in Nat /\ ReciprocalRank(ranking, d) \in Nat
           /\ ReciprocalRank(ranking, d) < ReciprocalRank(ranking, a[2])
<1> DEFINE place(b) == RankConstant + Rank(ranking, b)
           most == RankConstant + CandidateLimit
<1>1. ASSUME NEW b \in ranking
      PROVE  /\ place(b) \in Nat \ {0} /\ place(b) * place(b) <= 1000000000
             /\ 1000000000 \div place(b) \in Nat /\ 0 < 1000000000 \div place(b)
  <2>1. Rank(ranking, b) \in Nat \ {0} /\ Rank(ranking, b) <= CandidateLimit
    BY RanksAreNumbers
  <2>2. place(b) \in Nat /\ 1 < place(b) /\ place(b) <= most /\ most \in Nat
    BY ONLY <2>1, RankAssumption
  <2>0. most * most <= 1000000000
    BY RankAssumption
  <2> HIDE DEF place, most
  <2>3. place(b) * place(b) <= most * most
    <3>1. place(b) * place(b) <= place(b) * most
      BY ONLY <2>2
    <3>2. place(b) * most <= most * most
      BY ONLY <2>2
    <3>3. place(b) * place(b) \in Int /\ place(b) * most \in Int /\ most * most \in Int
      BY ONLY <2>2
    <3>. QED
      BY ONLY <3>1, <3>2, <3>3
  <2>4. place(b) * place(b) <= 1000000000
    <3>1. place(b) * place(b) \in Int /\ most * most \in Int
      BY ONLY <2>2
    <3>. QED
      BY ONLY <2>0, <2>3, <3>1
  <2>5. 1 \in Nat \ {0} /\ place(b) \in Nat \ {0}
    BY ONLY <2>2
  <2>6. 0 < 1000000000 \div place(b)
    BY ONLY <2>2, <2>4, <2>5, Reciprocals
  <2>7. 1000000000 \div place(b) \in Nat
    BY ONLY <2>5
  <2>. QED
    BY <2>4, <2>5, <2>6, <2>7
<1>2. ReciprocalRank(ranking, a[2]) = 1000000000 \div place(a)
  BY RankedContribution
<1>3. CASE \A b \in ranking : b[2] # d
  <2>1. ReciprocalRank(ranking, d) = 0
    BY <1>3, UnrankedContribution
  <2> HIDE DEF place
  <2>. QED
    BY <1>1, <1>2, <2>1
<1>4. ASSUME NEW b \in ranking, b[2] = d
      PROVE  /\ ReciprocalRank(ranking, d) = 1000000000 \div place(b)
             /\ 1000000000 \div place(b) < 1000000000 \div place(a)
  <2>1. ReciprocalRank(ranking, d) = 1000000000 \div place(b)
    BY <1>4, RankedContribution
  <2>2. Rank(ranking, a) < Rank(ranking, b)
    BY <1>4, AboveHasTheSmallerRank
  <2>3. Rank(ranking, a) \in Nat \ {0} /\ Rank(ranking, b) \in Nat \ {0}
    BY RanksAreNumbers
  <2>4. place(a) < place(b)
    BY ONLY <2>2, <2>3, RankAssumption
  <2>5. /\ place(a) \in Nat \ {0} /\ place(b) \in Nat \ {0}
        /\ place(b) * place(b) <= 1000000000
    BY <1>1
  <2> HIDE DEF place
  <2>6. 1000000000 \div place(b) < 1000000000 \div place(a)
    BY ONLY <2>4, <2>5, Reciprocals
  <2>. QED
    BY <2>1, <2>6
<1> HIDE DEF place
<1>. QED
  BY <1>1, <1>2, <1>3, <1>4

(* The corpora a pipeline is built over: sections, one of them with a      *)
(* searchable token.                                                       *)
IsCorpus(corpus) ==
    /\ DOMAIN corpus \subseteq Sections
    /\ \E c \in DOMAIN corpus : Length(c) > 0

LEMMA SectionsAreBags ==
    ASSUME NEW c \in Sections
    PROVE  Length(c) \in Nat
           /\ \A query \in Queries : IsFiniteSet(query) /\ \A t \in query : Frequency(c, t) \in Nat
<1> DEFINE bag == Text[c[1]][c[2]]
<1>1. IsFiniteSet(DOMAIN bag) /\ \A t \in DOMAIN bag : bag[t] \in Nat
  BY TextAssumption
<1>2. Length(c) = SumFunction(bag)
  BY DEF Length
<1>3. \A query \in Queries : query \subseteq DOMAIN bag
  BY TextAssumption
<1>4. \A t \in DOMAIN bag : Frequency(c, t) = bag[t]
  BY DEF Frequency
<1> HIDE DEF bag
<1>5. SumFunction(bag) \in Nat
  BY <1>1, SumIsCount, FS_CardinalityType DEF SumFunction
<1>6. \A query \in Queries : IsFiniteSet(query)
  BY <1>1, <1>3, FS_Subset
<1>. QED
  BY <1>1, <1>2, <1>3, <1>4, <1>5, <1>6

LEMMA CorpusLength ==
    ASSUME NEW corpus, IsCorpus(corpus)
    PROVE  /\ IsFiniteSet(DOMAIN corpus) /\ Cardinality(DOMAIN corpus) \in Nat
           /\ Cardinality(DOMAIN corpus) <= Cardinality(Sections)
           /\ SumFunction([d \in DOMAIN corpus |-> Length(d)]) \in Nat \ {0}
<1> DEFINE f == [d \in DOMAIN corpus |-> Length(d)]
<1>1. /\ IsFiniteSet(DOMAIN corpus) /\ Cardinality(DOMAIN corpus) \in Nat
      /\ Cardinality(DOMAIN corpus) <= Cardinality(Sections)
  BY TextAssumption, FS_Subset, FS_CardinalityType DEF IsCorpus
<1>2. PICK c \in DOMAIN corpus : Length(c) > 0
  BY DEF IsCorpus
<1>3. \A d \in DOMAIN corpus : Length(d) \in Nat
  BY SectionsAreBags DEF IsCorpus
<1> DEFINE rest == DOMAIN corpus \ {c}
           g == [d \in rest |-> Length(d)]
<1>4. g \in [rest -> Nat] /\ IsFiniteSet(rest)
  BY <1>1, <1>3, FS_RemoveElement, FS_Subset
<1>5. DOMAIN f = DOMAIN corpus /\ f[c] = Length(c) /\ (\A y \in DOMAIN f : f[y] \in Nat)
      /\ DOMAIN g = DOMAIN f \ {c} /\ \A y \in DOMAIN g : g[y] = f[y]
  BY <1>3
<1> HIDE DEF f, g, rest
<1>6. SumFunction(g) \in Nat
  BY <1>4, SumIsNat
<1>7. SumFunction(f) = f[c] + SumFunction(g)
  BY <1>1, <1>2, <1>5, SumWithElement
<1>8. SumFunction(f) \in Nat \ {0}
  BY ONLY <1>2, <1>3, <1>5, <1>6, <1>7
<1>. QED
  BY <1>1, <1>8 DEF f

(* The weight of a term is a natural: no term is in more chunks than there *)
(* are, and the logarithm grows.                                           *)
LEMMA InverseFrequencyIsNat ==
    ASSUME NEW corpus, IsCorpus(corpus), NEW term
    PROVE  InverseDocumentFrequency(term, corpus) \in Nat
<1> DEFINE N == Cardinality(DOMAIN corpus)
           having == {c \in DOMAIN corpus : Frequency(c, term) > 0}
           n == Cardinality(having)
           S == Cardinality(Sections)
<1>1. /\ IsFiniteSet(DOMAIN corpus) /\ N \in Nat /\ N <= S
  BY CorpusLength
<1>2. S \in Nat
  BY TextAssumption, FS_CardinalityType
<1>3. n \in Nat /\ n <= N
  <2>1. having \subseteq DOMAIN corpus
    OBVIOUS
  <2> HIDE DEF having
  <2>. QED
    BY <1>1, <2>1, FS_Subset, FS_CardinalityType
<1>4. InverseDocumentFrequency(term, corpus) = Ln[2 * N + 2] - Ln[2 * n + 1]
  BY DEF InverseDocumentFrequency, DocumentFrequency
<1>5. \A k \in 1 .. 2 * S + 2 : Ln[k] \in Nat /\ \A m \in 1 .. k : Ln[m] <= Ln[k]
  BY TextAssumption
<1> HIDE DEF N, n, S
<1>6. /\ 2 * N + 2 \in 1 .. 2 * S + 2 /\ 2 * n + 1 \in 1 .. 2 * S + 2
      /\ 2 * n + 1 \in 1 .. 2 * N + 2
  BY ONLY <1>1, <1>2, <1>3
<1>7. Ln[2 * N + 2] \in Nat /\ Ln[2 * n + 1] \in Nat /\ Ln[2 * n + 1] <= Ln[2 * N + 2]
  BY ONLY <1>5, <1>6
<1>. QED
  BY ONLY <1>4, <1>7

LEMMA FrequencyWeightIsNat ==
    ASSUME NEW corpus, IsCorpus(corpus), NEW c \in DOMAIN corpus, NEW term,
           Frequency(c, term) \in Nat
    PROVE  TermFrequencyWeight(c, term, corpus) \in Nat
<1> DEFINE tf    == Frequency(c, term)
           total == SumFunction([d \in DOMAIN corpus |-> Length(d)])
           long  == Length(c) * Cardinality(DOMAIN corpus)
           above == 20000 * tf * total
           below == (8 * tf + 3) * total + 9 * Length(c) * Cardinality(DOMAIN corpus)
<1>1. tf \in Nat
  OBVIOUS
<1>2. total \in Nat \ {0} /\ Cardinality(DOMAIN corpus) \in Nat
  BY CorpusLength
<1>3. Length(c) \in Nat
  BY SectionsAreBags DEF IsCorpus
<1>4. TermFrequencyWeight(c, term, corpus) = above \div below
  BY DEF TermFrequencyWeight
<1> HIDE DEF tf, total
<1>5. 9 * Length(c) * Cardinality(DOMAIN corpus) \in Nat
  BY ONLY <1>2, <1>3
<1>6. (8 * tf + 3) * total \in Nat \ {0}
  BY ONLY <1>1, <1>2
<1>7. below \in Nat \ {0}
  BY ONLY <1>5, <1>6
<1>8. above \in Nat
  BY ONLY <1>1, <1>2
<1> HIDE DEF above, below
<1>9. above \div below \in Nat
  BY ONLY <1>7, <1>8
<1>. QED
  BY <1>4, <1>9

LEMMA Bm25IsNat ==
    ASSUME NEW corpus, IsCorpus(corpus), NEW c \in DOMAIN corpus, NEW query \in Queries
    PROVE  Bm25(query, c, corpus) \in Nat
<1> DEFINE weight(t) == InverseDocumentFrequency(t, corpus) * TermFrequencyWeight(c, t, corpus)
           f == [t \in query |-> weight(t)]
<1>1. IsFiniteSet(query) /\ \A t \in query : Frequency(c, t) \in Nat
  BY SectionsAreBags DEF IsCorpus
<1>2. ASSUME NEW t \in query PROVE weight(t) \in Nat
  <2>1. /\ InverseDocumentFrequency(t, corpus) \in Nat
        /\ TermFrequencyWeight(c, t, corpus) \in Nat
    BY <1>1, InverseFrequencyIsNat, FrequencyWeightIsNat
  <2>. QED
    BY ONLY <2>1
<1>3. Bm25(query, c, corpus) = SumFunction(f)
  BY DEF Bm25
<1> HIDE DEF weight
<1>4. f \in [query -> Nat]
  BY <1>2
<1> HIDE DEF f
<1>. QED
  BY <1>1, <1>3, <1>4, SumIsNat

(* What scores each chunk with a number is a ranking.                      *)
LEMMA ScoresAreARanking ==
    ASSUME NEW S, IsFiniteSet(S), S \subseteq Nat \X Nat, NEW f, \A c \in S : f[c] \in Int
    PROVE  IsRanking({<<f[c], c>> : c \in S})
<1> DEFINE scored == {<<f[c], c>> : c \in S}
           entry == [c \in S |-> <<f[c], c>>]
<1>1. \A y : y \in scored <=> \E c \in S : y = entry[c]
  OBVIOUS
<1>2. \A a \in scored : a[1] \in Int /\ a[2] \in Nat \X Nat
  OBVIOUS
<1>3. \A a, b \in scored : a[2] = b[2] => a = b
  OBVIOUS
<1> HIDE DEF scored, entry
<1>4. IsFiniteSet(scored)
  BY <1>1, FiniteValues
<1>. QED
  BY <1>2, <1>3, <1>4 DEF IsRanking, scored

LEMMA RetrieversRank ==
    ASSUME NEW corpus, IsCorpus(corpus), NEW query \in Queries,
           NEW ranking \in {LexicalRanking(query, corpus), SemanticRanking(query, corpus)}
    PROVE  /\ IsRanking(ranking)
           /\ \A a \in ranking : Rank(ranking, a) <= CandidateLimit /\ a[2] \in DOMAIN corpus
<1> DEFINE D == DOMAIN corpus
           bm == [c \in D |-> Bm25(query, c, corpus)]
           scored == {<<bm[c], c>> : c \in D}
           found == {a \in scored : a[1] > 0}
           near == [c \in D |-> Similarity[query][c]]
           index == {<<near[c], c>> : c \in D}
<1>1. IsFiniteSet(D) /\ D \subseteq Sections /\ D \subseteq Nat \X Nat
  BY CorpusLength, TextAssumption DEF IsCorpus
<1>2. \A c \in D : bm[c] \in Int
  BY Bm25IsNat
<1>3. \A c \in D : near[c] \in Int
  BY <1>1, TextAssumption
<1>4. LexicalRanking(query, corpus) = Top(found, CandidateLimit)
  <2>1. {<<Bm25(query, c, corpus), c>> : c \in D} = scored
    OBVIOUS
  <2> HIDE DEF scored
  <2>. QED
    BY <2>1 DEF LexicalRanking
<1>5. SemanticRanking(query, corpus) = Top(index, CandidateLimit)
  <2>1. SemanticIndex(query, corpus) = index
    BY DEF SemanticIndex
  <2>. QED
    BY <2>1 DEF SemanticRanking
<1>6. (\A a \in found : a[2] \in D) /\ (\A a \in index : a[2] \in D) /\ found \subseteq scored
  OBVIOUS
<1> HIDE DEF bm, near
<1>7. IsRanking(scored) /\ IsRanking(index)
  BY <1>1, <1>2, <1>3, ScoresAreARanking
<1> HIDE DEF scored, index
<1>8. IsRanking(found)
  BY <1>6, <1>7, PartsAreRankings
<1> HIDE DEF found
<1>9. PICK full : IsRanking(full) /\ ranking = Top(full, CandidateLimit) /\ \A a \in full : a[2] \in D
  BY <1>4, <1>5, <1>6, <1>7, <1>8
<1>10. ranking \subseteq full
  BY <1>9 DEF Top
<1>11. IsRanking(ranking)
  BY <1>9, <1>10, PartsAreRankings
<1>12. \A a \in ranking : Rank(ranking, a) <= CandidateLimit
  BY <1>9, RankAssumption, TopHasSmallRanks
<1>. QED
  BY <1>9, <1>10, <1>11, <1>12

(* The fusion scores each chunk of the two rankings once.                  *)
LEMMA FusionIsARanking ==
    ASSUME NEW lexical, NEW semantic, IsRanking(lexical), IsRanking(semantic),
           \A ranking \in {lexical, semantic} : \A a \in ranking : Rank(ranking, a) <= CandidateLimit
    PROVE  IsRanking(ReciprocalRankFusion(lexical, semantic))
<1> DEFINE both == lexical \union semantic
           chunks == {a[2] : a \in both}
           name == [a \in both |-> a[2]]
           score == [c \in chunks |-> FusedScore(lexical, semantic, c)]
<1>1. IsFiniteSet(both)
  BY FS_Union DEF IsRanking
<1>2. \A y : y \in chunks <=> \E a \in both : y = name[a]
  OBVIOUS
<1>3. chunks \subseteq Nat \X Nat
  BY DEF IsRanking
<1>4. ReciprocalRankFusion(lexical, semantic) = {<<score[c], c>> : c \in chunks}
  BY DEF ReciprocalRankFusion
<1>5. ASSUME NEW c
      PROVE  ReciprocalRank(lexical, c) \in Nat /\ ReciprocalRank(semantic, c) \in Nat
  <2>1. ASSUME NEW ranking \in {lexical, semantic}
        PROVE  ReciprocalRank(ranking, c) \in Nat
    <3>1. IsRanking(ranking) /\ \A a \in ranking : Rank(ranking, a) <= CandidateLimit
      OBVIOUS
    <3>2. CASE \A a \in ranking : a[2] # c
      BY <3>2, UnrankedContribution
    <3>3. ASSUME NEW a \in ranking, a[2] = c
          PROVE  ReciprocalRank(ranking, c) \in Nat
      <4> DEFINE share == 1000000000 \div (RankConstant + Rank(ranking, a))
      <4>1. Rank(ranking, a) \in Nat \ {0}
        BY <3>1, RanksAreNumbers
      <4>2. share \in Nat
        BY ONLY <4>1, RankAssumption
      <4>3. ReciprocalRank(ranking, c) = share
        BY <3>1, <3>3, RankedContribution
      <4> HIDE DEF share
      <4>. QED
        BY <4>2, <4>3
    <3>. QED
      BY <3>2, <3>3
  <2>. QED
    BY <2>1
<1>6. \A c \in chunks : score[c] \in Int
  BY <1>5 DEF FusedScore
<1> HIDE DEF name, score
<1>7. IsFiniteSet(chunks)
  <2> HIDE DEF both, chunks
  <2>. QED
    BY <1>1, <1>2, FiniteValues
<1> HIDE DEF chunks
<1>. QED
  BY <1>3, <1>4, <1>6, <1>7, ScoresAreARanking

(* What both rankings put above a candidate is a candidate.                *)
LEMMA AgreedIsACandidate ==
    ASSUME NEW corpus, IsCorpus(corpus), NEW query \in Queries,
           NEW c \in DOMAIN corpus, NEW d \in Candidates(query, corpus),
           IsAgreedAbove({LexicalRanking(query, corpus), SemanticRanking(query, corpus)}, c, d)
    PROVE  c \in Candidates(query, corpus)
<1> DEFINE lexical == LexicalRanking(query, corpus)
           semantic == SemanticRanking(query, corpus)
           fusion == ReciprocalRankFusion(lexical, semantic)
           first == <<FusedScore(lexical, semantic, c), c>>
           second == <<FusedScore(lexical, semantic, d), d>>
<1>1. ASSUME NEW ranking \in {lexical, semantic}
      PROVE  IsRanking(ranking) /\ \A a \in ranking : Rank(ranking, a) <= CandidateLimit
  BY RetrieversRank
<1>2. ASSUME NEW ranking \in {lexical, semantic}
      PROVE  \E a \in ranking : a[2] = c /\ \A b \in ranking : b[2] = d => IsAbove(a, b)
  BY DEF IsAgreedAbove
<1>3. Candidates(query, corpus) = {a[2] : a \in Top(fusion, CandidateLimit)}
  BY DEF Candidates
<1> HIDE DEF lexical, semantic
<1>4. ASSUME NEW ranking \in {lexical, semantic}
      PROVE  /\ ReciprocalRank(ranking, c) \in Nat /\ ReciprocalRank(ranking, d) \in Nat
             /\ ReciprocalRank(ranking, d) < ReciprocalRank(ranking, c)
  <2>1. PICK a \in ranking : a[2] = c /\ \A b \in ranking : b[2] = d => IsAbove(a, b)
    BY <1>2
  <2>2. IsRanking(ranking) /\ \A b \in ranking : Rank(ranking, b) <= CandidateLimit
    BY <1>1
  <2>. QED
    BY <2>1, <2>2, AboveContributesMore
<1>5. IsAbove(first, second)
  <2>1. first[1] = ReciprocalRank(lexical, c) + ReciprocalRank(semantic, c)
        /\ second[1] = ReciprocalRank(lexical, d) + ReciprocalRank(semantic, d)
    BY DEF FusedScore
  <2> HIDE DEF first, second
  <2>2. first[1] > second[1]
    BY <1>4, <2>1
  <2>. QED
    BY <2>2 DEF IsAbove
<1>6. IsRanking(fusion)
  BY <1>1, FusionIsARanking
<1>7. first \in fusion
  BY <1>2 DEF ReciprocalRankFusion
<1>8. second \in Top(fusion, CandidateLimit)
  <2>1. PICK a \in Top(fusion, CandidateLimit) : a[2] = d
    BY <1>3
  <2>2. a \in fusion
    BY DEF Top
  <2>3. a = second
    BY <2>1, <2>2 DEF ReciprocalRankFusion
  <2>. QED
    BY <2>1, <2>3
<1> HIDE DEF fusion
<1>9. first[2] = c
  OBVIOUS
<1> HIDE DEF first, second
<1>10. second \in fusion /\ Rank(fusion, second) <= CandidateLimit
  BY <1>8 DEF Top
<1>11. Rank(fusion, first) < Rank(fusion, second)
  BY <1>5, <1>6, <1>7, <1>10, AboveHasTheSmallerRank
<1>12. Rank(fusion, first) \in Nat /\ Rank(fusion, second) \in Nat
  BY <1>6, RanksAreNumbers
<1>13. Rank(fusion, first) <= CandidateLimit
  BY ONLY <1>10, <1>11, <1>12, RankAssumption
<1>14. first \in Top(fusion, CandidateLimit)
  BY <1>7, <1>13 DEF Top
<1>. QED
  BY <1>3, <1>9, <1>14

-----------------------------------------------------------------------------
(* Every pipeline is built over a text with a searchable token, and every  *)
(* request has asked one of the queries.                                   *)
PipelinesAreSearchable ==
    /\ catalog \in Catalogs
    /\ \A x \in Contexts : cache[x] # Nothing => IsCorpus(cache[x])
    /\ \A r \in Requests : request[r].pc = "answered" =>
          IsCorpus(request[r].corpus) /\ request[r].query \in Queries
    /\ \A r \in Requests : IsUnderWay(r) => request[r].query \in Queries
    /\ \A r \in Requests : request[r].pc = "searching" => IsCorpus(cache[request[r].client])

(* The sections of listed documents are sections.                          *)
LEMMA BuildableIsSearchable ==
    ASSUME catalog \in Catalogs, NEW x, IsBuildable(x)
    PROVE  IsCorpus(Chunks(catalog, ClearanceOf(x)))
<1> DEFINE clearance == ClearanceOf(x)
           corpus == Chunks(catalog, clearance)
           listed == ListDocuments(catalog, clearance)
<1>1. DOMAIN listed \subseteq DOMAIN Text
  BY KnowledgeAssumption DEF ListDocuments
<1>2. EligibleDocuments(listed, clearance) \subseteq DOMAIN Text
  <2> HIDE DEF listed
  <2>. QED
    BY <1>1 DEF EligibleDocuments
<1>3. DOMAIN corpus = UNION {{d} \X DOMAIN Text[d] : d \in EligibleDocuments(listed, clearance)}
  BY DEF Chunks
<1>4. DOMAIN corpus \subseteq Sections
  <2> HIDE DEF corpus, listed
  <2>. QED
    BY <1>2, <1>3 DEF Sections
<1>5. \E c \in DOMAIN corpus : Length(c) > 0
  BY DEF IsBuildable
<1>. QED
  BY <1>4, <1>5 DEF IsCorpus

LEMMA KnowledgeStaysSearchable ==
    ASSUME KnowledgeInv, PipelinesAreSearchable, [NextKnowledge]_knowledgeVars
    PROVE  PipelinesAreSearchable'
<1>0. catalog' = catalog
  BY DEF NextKnowledge, knowledgeVars, Starts, Stops, Damages, Asks, Progress, Finds, Misses, Builds,
         FailsToBuild, IsAnswered, FailsToSearch
<1>1. catalog' \in Catalogs
  BY <1>0 DEF PipelinesAreSearchable
<1>2. request \in [Requests -> RequestRecords] /\ cache \in [Contexts -> Corpora]
  BY DEF KnowledgeInv, KnowledgeIsTyped
<1>3. CASE Starts
  <2>1. \A x \in Contexts : cache'[x] # Nothing => IsCorpus(cache'[x])
    BY <1>3, BuildableIsSearchable DEF Starts, PipelinesAreSearchable
  <2>2. \A r \in Requests : ~ IsUnderWay(r)
    BY <1>3 DEF Starts, KnowledgeInv, RequestsAreFiltered
  <2>. QED
    BY <1>1, <1>3, <2>1, <2>2 DEF Starts, PipelinesAreSearchable, IsUnderWay, IsCorpus
<1>4. CASE Stops
  <2>1. \A x \in Contexts : cache'[x] = Nothing
    BY <1>4 DEF Stops
  <2>2. ASSUME NEW r \in Requests
        PROVE  /\ request'[r].pc \notin {"waiting", "building", "searching"}
               /\ request'[r].pc = "answered" => request'[r] = request[r]
    BY <1>2, <1>4 DEF Stops, RequestRecords, IsUnderWay
  <2>. QED
    BY <1>1, <2>1, <2>2 DEF PipelinesAreSearchable, IsUnderWay, IsCorpus
<1>5. CASE (\E d \in intact : Damages(d)) \/ UNCHANGED knowledgeVars
  <2>1. UNCHANGED <<catalog, serving, cache, holder, request>>
    BY <1>5 DEF Damages, knowledgeVars
  <2>. QED
    BY <2>1 DEF PipelinesAreSearchable, IsUnderWay, IsCorpus
<1>6. ASSUME NEW r \in Requests, NEW client \in Clients \union {Nothing}, NEW query \in Queries,
             NEW limit \in Limits, Asks(r, client, query, limit)
      PROVE  PipelinesAreSearchable'
  <2>1. UNCHANGED cache /\ \A o \in Requests \ {r} : request'[o] = request[o]
    BY <1>6, <1>2 DEF Asks
  <2>2. request'[r].pc \in {"waiting", "denied"} /\ request'[r].query = query
    BY <1>6, <1>2 DEF Asks
  <2>. QED
    BY <1>1, <2>1, <2>2 DEF PipelinesAreSearchable, IsUnderWay, IsCorpus
<1>7. ASSUME NEW r \in Requests, Progress(r)
      PROVE  PipelinesAreSearchable'
  <2> DEFINE client == request[r].client
  <2>1. IsUnderWay(r) /\ client \in Contexts /\ request[r].query \in Queries
    BY <1>7 DEF Progress, Finds, Misses, Builds, FailsToBuild, IsAnswered, FailsToSearch,
               KnowledgeInv, RequestsAreFiltered, IsUnderWay, Contexts, PipelinesAreSearchable
  <2>2. /\ \A o \in Requests \ {r} : request'[o] = request[o]
        /\ request'[r].client = client /\ request'[r].query = request[r].query
    BY <1>7, <1>2 DEF Progress, Finds, Misses, Builds, FailsToBuild, IsAnswered, FailsToSearch, Moves,
               RequestRecords
  <2>3. ASSUME NEW x \in Contexts
        PROVE  /\ cache'[x] # Nothing => IsCorpus(cache'[x])
               /\ IsCorpus(cache[x]) => IsCorpus(cache'[x])
    <3>1. CASE Builds(r)
      <4>1. IsCorpus(Chunks(catalog, ClearanceOf(client)))
        BY <3>1, BuildableIsSearchable DEF Builds, PipelinesAreSearchable
      <4>2. cache'[x] = cache[x] \/ cache'[x] = Chunks(catalog, ClearanceOf(client))
        BY <1>2, <3>1 DEF Builds
      <4>. QED
        BY <4>1, <4>2 DEF PipelinesAreSearchable
    <3>2. CASE cache' = cache
      BY <3>2 DEF PipelinesAreSearchable
    <3>. QED
      BY <1>7, <3>1, <3>2 DEF Progress, Finds, Misses, FailsToBuild, IsAnswered, FailsToSearch
  <2>4. request'[r].pc = "searching" => IsCorpus(cache'[client])
    <3>1. CASE Finds(r)
      BY <2>1, <3>1, <2>3 DEF Finds, PipelinesAreSearchable
    <3>2. CASE Builds(r)
      <4>1. cache'[client] = Chunks(catalog, ClearanceOf(client))
        BY <1>2, <2>1, <3>2 DEF Builds
      <4>. QED
        BY <3>2, <4>1, BuildableIsSearchable DEF Builds, PipelinesAreSearchable
    <3>3. CASE \E at \in {"building", "failed"} : Moves(r, at)
      BY <1>2, <3>3 DEF Moves
    <3>4. CASE IsAnswered(r)
      BY <1>2, <3>4 DEF IsAnswered
    <3>. QED
      BY <1>7, <3>1, <3>2, <3>3, <3>4 DEF Progress, Misses, FailsToBuild, FailsToSearch
  <2>5. request'[r].pc = "answered" => IsCorpus(request'[r].corpus)
    <3>1. CASE IsAnswered(r)
      <4>1. IsCorpus(cache[client])
        BY <3>1 DEF IsAnswered, PipelinesAreSearchable
      <4>2. request'[r].corpus = cache[client]
        BY <1>2, <3>1, ZenonT(50) DEF IsAnswered, RequestRecords
      <4>. QED
        BY <4>1, <4>2
    <3>2. CASE \E at \in {"searching", "building", "failed"} : Moves(r, at)
      BY <1>2, <3>2 DEF Moves
    <3>. QED
      BY <1>7, <3>1, <3>2 DEF Progress, Finds, Misses, Builds, FailsToBuild, FailsToSearch
  <2>6. ASSUME NEW o \in Requests \ {r}, request'[o].pc = "searching"
        PROVE  IsCorpus(cache'[request'[o].client])
    <3>1. request[o].pc = "searching" /\ request'[o].client = request[o].client
      BY <2>2, <2>6
    <3>2. request[o].client \in Contexts
      BY <3>1 DEF KnowledgeInv, RequestsAreFiltered, IsUnderWay, Contexts
    <3>. QED
      BY <2>3, <3>1, <3>2 DEF PipelinesAreSearchable
  <2>. QED
    BY <1>1, <2>1, <2>2, <2>3, <2>4, <2>5, <2>6 DEF PipelinesAreSearchable, IsUnderWay, IsCorpus
<1>. QED
  BY <1>3, <1>4, <1>5, <1>6, <1>7 DEF NextKnowledge

LEMMA SearchableKeepsAgreement == PipelinesAreSearchable => AgreementIsKept
BY AgreedIsACandidate DEF PipelinesAreSearchable, AgreementIsKept

(* No answer leaves out a chunk that the lexical and the semantic ranking  *)
(* both put above one of its candidates: for every text, every similarity, *)
(* and every candidate limit whose ranks billionths tell apart.            *)
THEOREM AgreementIsNeverLost == KnowledgeSpec => []AgreementIsKept
<1>1. InitKnowledge => PipelinesAreSearchable
  BY DEF InitKnowledge, PipelinesAreSearchable, IsUnderWay, Idle
<1>2. KnowledgeInv /\ PipelinesAreSearchable /\ [NextKnowledge]_knowledgeVars
        => PipelinesAreSearchable'
  BY KnowledgeStaysSearchable
<1>. QED
  BY <1>1, <1>2, KnowledgeIsFiltered, SearchableKeepsAgreement, PTL DEF KnowledgeSpec

=============================================================================
