--------------------------- MODULE ModelExecution ---------------------------
(***************************************************************************)
(* From a message to the model calls it leads to.                          *)
(*                                                                         *)
(* Messages of one investigation are classified from what their user may   *)
(* see of it, and become runs.  A run is given the model its               *)
(* classification is assigned at that moment, opens a provider adapter of  *)
(* its own in a worker, calls the model from the threads of its graph,     *)
(* puts the results of read tools into its messages, waits for a human or  *)
(* ends, and is resumed with whatever is assigned then.  Administrators    *)
(* reassign models, requests time out and the process restarts in between. *)
(* A request that timed out leaves the thread of its node behind; the      *)
(* adapter is closed after the call that thread is in.                     *)
(*                                                                         *)
(* Start and resume of infrastructure/api/app.py and                       *)
(* agent/troubleshooting_run_service.py, the composition in                *)
(* infrastructure/troubleshooting_run_composition.py, the chain of checked *)
(* clients, and the graph of agent/langgraph_troubleshooting_agent.py as   *)
(* far as its model calls show.                                            *)
(***************************************************************************)
EXTENDS RunPolicy

CONSTANTS Runs,             \* runs of the investigation, in the order they start
          Texts,            \* the messages users send
          UserClearances,   \* the users who send them
          Labels,           \* what tool results are labelled, None for no label
          Catalog, Keys,    \* the models, and those whose key is set
          DefaultModel,     \* local_quality
          Reassignments,    \* what an administrator tries: <<classification, assignment>>
          MaxChanges,       \* how many of them succeed
          MaxTurns          \* model calls in one execution

VARIABLES
    assignments,   \* per classification: what the agent is assigned
    serving,       \* the API has started
    changes,       \* reassignments so far
    runs,          \* the stored runs
    executions,    \* per run: its execution in the process, or None
    served         \* per run: the models its messages were sent to

vars == <<assignments, serving, changes, runs, executions, served>>

Selection == INSTANCE ModelSelection
Adapters  == INSTANCE ProviderAdapter WITH ProviderModels <- DOMAIN Catalog, MaxCalls <- 1

Models == DOMAIN Catalog

ASSUME RequestsAssumption ==
    /\ Runs \subseteq Nat
    /\ Texts \subseteq RequestTexts
    /\ UserClearances \subseteq Classifications
    /\ Labels \subseteq Classifications \union {None}
    /\ MaxChanges \in Nat /\ MaxTurns \in Nat

(* Model ids are the keys of a mapping, so that their order is one.        *)
ASSUME CatalogAssumption ==
    /\ \A m \in Models : Catalog[m] \in Selection!ModelDefinition
    /\ \A m, n \in Models : Catalog[m].order = Catalog[n].order => m = n
    /\ DefaultModel \in Models
    /\ Reassignments \subseteq Classifications \X Selection!ModelAssignment

(* "content": how sensitive what the run knows really is: its text, the    *)
(* turns it was given and the results it read.                             *)
StoredRun ==
    [classification : Classifications,
     status : {"RUNNING", "WAITING_FOR_APPROVAL", "SUCCESS", "FAILED"},
     model   : Models \union {None},
     content : Classifications]

ASSUME NoneAssumption ==
    /\ None \notin Models /\ None \notin Classifications /\ None \notin StoredRun
    /\ None \notin Selection!ModelAssignment /\ None \notin Selection!ExclusionReasons

(* "pc" is the request's: it resolves nothing before it has an adapter,    *)
(* works, and releases the adapter.  "thread" is the node's, which the     *)
(* request may leave behind; "next" is what the graph does after the node. *)
(* "cleared" is the classification the egress client checks calls for.     *)
Execution ==
    [pc      : {"acquiring", "working", "releasing", "released"},
     thread  : {"idle", "node", "call"},
     next    : {"deciding", "normalizing", "reading", "interrupted", "ended", "failed"},
     model   : Models,
     cleared : Classifications,
     content : Classifications,
     turns   : 0 .. MaxTurns,
     adapter : Adapters!Adapter]

TypeOK ==
    /\ assignments \in [Classifications -> Selection!ModelAssignment \union {None}]
    /\ serving \in BOOLEAN
    /\ changes \in 0 .. MaxChanges
    /\ runs \in [Runs -> StoredRun \union {None}]
    /\ executions \in [Runs -> Execution \union {None}]
    /\ served \in [Runs -> SUBSET Models]

Init ==
    /\ assignments = [c \in Classifications |-> None]
    /\ serving = FALSE
    /\ changes = 0
    /\ runs = [r \in Runs |-> None]
    /\ executions = [r \in Runs |-> None]
    /\ served = [r \in Runs |-> {}]
-----------------------------------------------------------------------------
(* Configuration.                                                          *)

(* create_default_app: absent assignments are filled in before anything is *)
(* served.                                                                 *)
Boots ==
    /\ ~ serving
    /\ serving' = TRUE
    /\ assignments' = Selection!WithDefaults(assignments, DefaultModel)
    /\ UNCHANGED <<changes, runs, executions, served>>

(* The process is gone, and with it every execution and its adapter.       *)
Stops ==
    /\ serving
    /\ serving' = FALSE
    /\ executions' = [r \in Runs |-> None]
    /\ UNCHANGED <<assignments, changes, runs, served>>

(* assign_model, by an administrator.                                      *)
Configure(c, assignment) ==
    /\ serving
    /\ changes < MaxChanges
    /\ Selection!IsConfigurable(assignment, c)
    /\ assignments' = [assignments EXCEPT ![c] = assignment]
    /\ changes' = changes + 1
    /\ UNCHANGED <<serving, runs, executions, served>>
-----------------------------------------------------------------------------
(* A message becomes a run.                                                *)

(* How sensitive a text is by itself: what its targets are, and nobody     *)
(* knows what prose says.                                                  *)
Sensitivity(m) ==
    IF m.form = "prose" THEN RESTRICTED
    ELSE EffectiveClassification({PUBLIC} \union {ProfileClassification[p] : p \in IdentifierProfiles(m)})

IsTerminal(r) == runs[r].status \in {"SUCCESS", "FAILED"}

PreviousRuns(clearance) ==
    {r \in Runs : runs[r] # None /\ IsRunVisible(runs[r].classification, clearance)}

(* _trusted_context_classification                                         *)
TrustedContext(previous) ==
    LET terminal == {r \in previous : IsTerminal(r)}
    IN IF terminal = {} THEN None
       ELSE MaxOf({runs[r].classification : r \in terminal})

(* A fault: the conversation is everything the user may see.               *)
WholeConversation(previous, classification) == previous

(* _conversation_context: the turns a model of the new run may see.        *)
ConversationContext(previous, classification) ==
    {r \in previous : runs[r].classification <= classification}

At(r, pc) == executions[r] # None /\ executions[r].pc = pc

(* start and resume: the model is resolved, and an adapter opened for it   *)
(* in a worker of its own.                                                 *)
Begins(r, model, classification, content, next) ==
    executions' = [executions EXCEPT ![r] =
        [pc |-> "acquiring", thread |-> "idle", next |-> next, model |-> model,
         cleared |-> classification, content |-> content, turns |-> 0,
         adapter |-> Adapters!NewAdapter]]

Resolved(classification) ==
    Selection!ResolveModel(assignments[classification], classification,
                           Selection!AgentCallRequirements, Keys)

(* create_run and _start_run, up to the adapter.  Nothing is stored of a   *)
(* message whose user may not see what it is about, or sees nothing of the *)
(* investigation.                                                          *)
Start(r, m, clearance) ==
    /\ serving
    /\ runs[r] = None
    /\ \A p \in Runs : p < r => runs[p] # None
    /\ LET previous == PreviousRuns(clearance)
           policy == ResolveRequest(m, clearance, TrustedContext(previous))
           classification == policy.classification
           content == EffectiveClassification(
                         {Sensitivity(m)}
                           \union {runs[p].content :
                                      p \in ConversationContext(previous, classification)})
           decision == Resolved(classification)
           refused == decision.outcome # "EXECUTION_ALLOWED"
       IN /\ previous = {} => \A p \in Runs : runs[p] = None
          /\ policy # None
          /\ runs' = [runs EXCEPT ![r] =
                [classification |-> classification,
                 status |-> IF refused THEN "FAILED" ELSE "RUNNING",
                 model |-> None, content |-> Sensitivity(m)]]
          /\ IF refused THEN UNCHANGED executions
             ELSE Begins(r, decision.model, classification, content, "deciding")
    /\ UNCHANGED <<assignments, serving, changes, served>>

(* A fault: a resumed run takes the model that is assigned now.            *)
ResumedModel(r) == Resolved(runs[r].classification)

(* resume: the model of the run must be the one it would be given now.     *)
PersistedModel(r) ==
    LET decision == Resolved(runs[r].classification)
    IN IF decision.model = runs[r].model THEN decision
       ELSE [decision EXCEPT !.outcome = "NO_LONGER_ASSIGNED"]

Resume(r) ==
    /\ serving
    /\ runs[r] # None
    /\ runs[r].status = "WAITING_FOR_APPROVAL"
    /\ executions[r] = None
    /\ LET decision == PersistedModel(r)
           refused == decision.outcome # "EXECUTION_ALLOWED"
       IN /\ runs' = [runs EXCEPT ![r].status = IF refused THEN "FAILED" ELSE "RUNNING"]
          /\ IF refused THEN UNCHANGED executions
             ELSE Begins(r, decision.model, runs[r].classification, runs[r].content,
                         "reading")
    /\ UNCHANGED <<assignments, serving, changes, served>>
-----------------------------------------------------------------------------
(* The execution of a run.                                                 *)

(* An execution is over when its adapter is released and its thread, if it *)
(* left one behind, is back.                                               *)
Sets(r, e) ==
    executions' = [executions EXCEPT ![r] =
        IF e.pc = "released" /\ e.thread = "idle" THEN None ELSE e]

(* The context of the agent is left, with what the graph came to.  A       *)
(* thread whose request has left already only comes back.                  *)
Left(e, next) ==
    IF e.pc = "working"
    THEN [e EXCEPT !.pc = "releasing", !.thread = "idle", !.next = next,
                   !.adapter = Adapters!Closing(@)]
    ELSE [e EXCEPT !.thread = "idle"]

Acquired(r) ==
    /\ At(r, "acquiring")
    /\ Sets(r, [executions[r] EXCEPT !.pc = "working",
                   !.thread = IF executions[r].next = "deciding" THEN "node" ELSE "idle"])
    /\ UNCHANGED <<assignments, serving, changes, runs, served>>

InNode(r) == executions[r] # None /\ executions[r].thread = "node"
InCall(r) == executions[r] # None /\ executions[r].thread = "call"

(* What becomes of a call on its way through the checked clients, as the   *)
(* observed client records it.                                             *)
CallOutcome(e, has_tools, has_format) ==
    CASE ~ Selection!CapabilityChecked(e.model, has_tools, has_format) -> "CAPABILITY_MISMATCH"
      [] ~ Selection!EgressChecked(e.cleared, e.model) -> "EGRESS_DENIED"
      [] ~ /\ Adapters!Admits(e.adapter)
           /\ Selection!IsStaticallyAvailable(e.model, Keys) -> "failure"
      [] OTHER -> "EXECUTED"

(* The graph takes no more steps than its recursion limit.                 *)
HasTurns(e) == e.turns < MaxTurns

(* A node calls its model: "deciding" offers tools or, when none are left, *)
(* asks for text; "normalizing" asks for a structured answer.  A call that *)
(* is refused, or one too many, fails the node.                            *)
Calls(r, has_tools) ==
    /\ InNode(r)
    /\ LET e == executions[r]
           normalizing == e.next = "normalizing"
       IN IF /\ HasTurns(e)
             /\ CallOutcome(e, has_tools /\ ~ normalizing, normalizing) = "EXECUTED"
          THEN /\ Sets(r, [e EXCEPT !.thread = "call", !.turns = @ + 1,
                                    !.adapter = Adapters!Admitted(@, e.model)])
               /\ served' = [served EXCEPT ![r] = @ \union {e.model}]
          ELSE /\ Sets(r, Left(e, "failed"))
               /\ UNCHANGED served
    /\ UNCHANGED <<assignments, serving, changes, runs>>

(* The provider answers: with a tool to call, with text the node wants     *)
(* normalized, or with the final answer.                                   *)
Answers(r, next) ==
    /\ InCall(r)
    /\ next = "normalizing" =>
          "STRUCTURED_OUTPUT" \in Catalog[executions[r].model].capabilities
    /\ LET e == [executions[r] EXCEPT !.adapter = Adapters!Finished(@)]
       IN Sets(r, CASE next = "ended" -> Left(e, next)
                    [] e.pc # "working" ->
                          [e EXCEPT !.thread = IF next = "normalizing" THEN "node" ELSE "idle"]
                    [] next = "normalizing" -> [e EXCEPT !.thread = "node", !.next = next]
                    [] OTHER -> [e EXCEPT !.thread = "idle", !.next = next])
    /\ UNCHANGED <<assignments, serving, changes, runs, served>>

(* A fault: a call that failed stays counted.                              *)
StaysCounted(r) ==
    /\ InCall(r)
    /\ Sets(r, Left(executions[r], "failed"))
    /\ UNCHANGED <<assignments, serving, changes, runs, served>>

(* It fails, or does not answer within the client's timeout.               *)
ProviderFails(r) ==
    /\ InCall(r)
    /\ Sets(r, Left([executions[r] EXCEPT !.adapter = Adapters!Finished(@)], "failed"))
    /\ UNCHANGED <<assignments, serving, changes, runs, served>>

Reading(r) == At(r, "working") /\ executions[r].thread = "idle"

(* A read tool returns, labelled or not.  Its result is taken into the     *)
(* messages only under the run's own classification, and the clients are   *)
(* told of it before that (_observe_result_classification).                *)
Observes(r, label) ==
    /\ Reading(r)
    /\ LET accepted == label # None /\ label <= runs[r].classification
           e == executions[r]
       IN Sets(r, IF accepted
                  THEN [e EXCEPT !.cleared = Selection!Raised(@, label),
                                 !.content = EffectiveClassification({@, label}),
                                 !.thread = "node", !.next = "deciding"]
                  ELSE Left(e, "failed"))
    /\ UNCHANGED <<assignments, serving, changes, runs, served>>

(* The model proposed a write: the graph is interrupted.                   *)
Interrupts(r) ==
    /\ Reading(r)
    /\ Sets(r, Left(executions[r], "interrupted"))
    /\ UNCHANGED <<assignments, serving, changes, runs, served>>

(* The request is cancelled: it waits for the worker that opens the        *)
(* adapter, and not for the thread of a node.                              *)
Cancelled(r) ==
    /\ At(r, "acquiring") \/ At(r, "working")
    /\ Sets(r, [executions[r] EXCEPT !.pc = "releasing", !.next = "failed",
                                     !.adapter = Adapters!Closing(@)])
    /\ UNCHANGED <<assignments, serving, changes, runs, served>>

(* A fault: the clients are closed under the calls that use them.          *)
ReleasedAtOnce(r) ==
    /\ At(r, "releasing")
    /\ Sets(r, [executions[r] EXCEPT !.pc = "released", !.adapter = Adapters!Closed(@)])
    /\ UNCHANGED <<assignments, serving, changes, runs, served>>

(* The worker closes the adapter once it is drained, and the request       *)
(* stores what came of the run: its model, unless it failed.               *)
Released(r) ==
    /\ At(r, "releasing")
    /\ Adapters!IsDrained(executions[r].adapter)
    /\ Sets(r, [executions[r] EXCEPT !.pc = "released", !.adapter = Adapters!Closed(@)])
    /\ runs' = [runs EXCEPT ![r] =
          IF executions[r].next = "failed" THEN [@ EXCEPT !.status = "FAILED"]
          ELSE [@ EXCEPT !.status = IF executions[r].next = "interrupted"
                                    THEN "WAITING_FOR_APPROVAL" ELSE "SUCCESS",
                         !.model = executions[r].model,
                         !.content = executions[r].content]]
    /\ UNCHANGED <<assignments, serving, changes, served>>
-----------------------------------------------------------------------------
Works(r) ==
    \/ Acquired(r)
    \/ \E has_tools \in BOOLEAN : Calls(r, has_tools)
    \/ Released(r)

ProviderStep(r) ==
    \/ ProviderFails(r)
    \/ \E next \in {"reading", "normalizing", "ended"} : Answers(r, next)

Next ==
    \/ Boots
    \/ Stops
    \/ \E change \in Reassignments : Configure(change[1], change[2])
    \/ \E r \in Runs :
          \/ \E m \in Texts, clearance \in UserClearances : Start(r, m, clearance)
          \/ Resume(r)
          \/ Works(r)
          \/ ProviderStep(r)
          \/ \E label \in Labels : Observes(r, label)
          \/ Interrupts(r)
          \/ Cancelled(r)

(* The event loop and its workers go on, a provider answers or the client  *)
(* gives it up (45 s), and a request is cancelled in the end               *)
(* (execution_timeout_seconds).                                            *)
Fairness ==
    \A r \in Runs : WF_vars(Works(r)) /\ WF_vars(ProviderStep(r)) /\ WF_vars(Cancelled(r))

Spec == Init /\ [][Next]_vars /\ Fairness
-----------------------------------------------------------------------------
(* What is under way to a provider may be there: everything in the         *)
(* messages, over all turns, tool results, reassignments and restarts, is  *)
(* data the model's zone and its own limit allow.                          *)
NothingLeaks ==
    \A r \in Runs : InCall(r) =>
        Selection!IsModelAllowed(executions[r].content, executions[r].model)

(* A run speaks to one model, whatever is reassigned while it waits.       *)
OneModelPerRun == \A r \in Runs : \A m, n \in served[r] : m = n

(* No client is closed under a call, also not under the call of a thread   *)
(* its request has left behind.                                            *)
NoUseAfterClose ==
    \A r \in Runs : InCall(r) =>
        /\ executions[r].adapter.state # "closed"
        /\ executions[r].model \in executions[r].adapter.clients

(* Every adapter that was opened is closed, or gone with its process.      *)
ProvidersAreReleased ==
    \A r \in Runs : At(r, "acquiring") ~> executions[r] = None
=============================================================================
