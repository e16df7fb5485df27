---------------------------- MODULE RunLifecycle ----------------------------
(***************************************************************************)
(* The HTTP requests that drive a run, over the approval store.            *)
(*                                                                         *)
(* A start request creates the run, lets the graph work under a timeout,   *)
(* and stores what came of it; a resume request reads the run, is          *)
(* authorized on what it read, claims the waiting generation, lets the     *)
(* checkpointed graph go on with the decision, and stores what came of it  *)
(* (_start_run and resume_run of infrastructure/api/app.py, start and      *)
(* resume of agent/troubleshooting_run_service.py).  Requests interleave   *)
(* at every await, may be stopped at any of them, and none of them locks a *)
(* run: that one request at a time writes it is a consequence, stated by   *)
(* the refinement of ApprovalStore, and not an assumption.                 *)
(*                                                                         *)
(* The graph is left to what a request can see of it: it proposes a write  *)
(* and is interrupted, answers, or raises.  The checkpoint of a run is the *)
(* interrupt it is stopped at.  One deployment is modelled, the persistent *)
(* one (a checkpointer is configured).                                     *)
(***************************************************************************)
EXTENDS Security

CONSTANTS Requests,       \* HTTP requests that start or resume a run
          Runs, Gens, Calls, Proposals, RunScopes, UserClearances, None

VARIABLES
    runs, generations,    \* the store
    tickets, calls,       \* the MCP side
    interrupts,           \* per run: the interrupt of its checkpoint
    requests              \* the requests in progress and ended

(* The store write a request has read the record for, as the store sees it. *)
writerBar ==
    [r \in Runs |->
        IF \E q \in Requests : requests[q] # None /\ requests[q].run = r /\ requests[q].write # None
        THEN requests[CHOOSE q \in Requests : /\ requests[q] # None
                                             /\ requests[q].run = r
                                             /\ requests[q].write # None].write
        ELSE None]

Store == INSTANCE ApprovalStore WITH writer <- writerBar

vars == <<runs, generations, tickets, calls, interrupts, requests>>

(* How far a request is.  "authorized": may try to claim; "executing": the *)
(* graph works on the model's turn; "deciding": the resumed graph is about *)
(* to act on the decision; "calling": it awaits the write tool; "binding", *)
(* "persisting" and "ending" are the store calls that follow.  The rest    *)
(* are ends: answered with the run, refused (404), in conflict (409), or   *)
(* stopped without an answer.                                              *)
Running == {"authorized", "executing", "deciding", "calling", "binding", "persisting", "ending"}
Ended   == {"answered", "refused", "conflict", "stopped"}

(* "run": what the store is to be told of the run.  "fault": what kept the *)
(* graph, or the store, from doing its part.                               *)
HttpRequest ==
    [kind      : {"start", "resume"},
     run       : Runs,
     pc        : Running \union Ended,
     id        : Gens \union {None},              \* the token of a resume
     decision  : Store!Decisions \union {None},
     clearance : UserClearances,
     call      : Calls \union {None},
     outcome   : Store!Outcomes \union {None},
     fault     : {"none", "timeout", "raised", "store"},
     write     : Store!PendingWrite \union {None}]

ASSUME RequestsAssumption ==
    /\ Proposals \subseteq [action : ActionNames, target : {p.target : p \in Proposals}]
    /\ RunScopes \subseteq Scopes
    /\ UserClearances \subseteq Classifications

ASSUME NoneAssumption ==
    /\ None \notin Store!Run
    /\ None \notin Store!Generation
    /\ None \notin Store!Request
    /\ None \notin Store!Ticket
    /\ None \notin Store!Call
    /\ None \notin Store!PendingWrite
    /\ None \notin Store!Decisions
    /\ None \notin Store!Outcomes
    /\ None \notin ActionNames
    /\ None \notin Nat
    /\ None \notin HttpRequest

TypeOK ==
    /\ Store!TypeOK
    /\ interrupts \in [Runs -> Store!Request \union {None}]
    /\ requests \in [Requests -> HttpRequest \union {None}]

Init ==
    /\ interrupts = [r \in Runs |-> None]
    /\ requests = [q \in Requests |-> None]
    /\ Store!Init

At(q, pc) == requests[q] # None /\ requests[q].pc = pc

(* The request goes on with some of its fields changed.                    *)
GoesTo(q, pc) == requests' = [requests EXCEPT ![q].pc = pc]

EndsRun(q, outcome, fault) ==
    requests' = [requests EXCEPT ![q] = [@ EXCEPT !.pc = "ending", !.outcome = outcome,
                                                  !.fault = fault]]

NewRequest(kind, r, pc, g, d, cl) ==
    [kind |-> kind, run |-> r, pc |-> pc, id |-> g, decision |-> d, clearance |-> cl,
     call |-> None, outcome |-> None, fault |-> "none", write |-> None]
-----------------------------------------------------------------------------
(* _start_run: the run is created, and the graph is started.  A user whom  *)
(* the policy would not let see the run is refused before that.            *)
Start(q, r, s, cl) ==
    /\ requests[q] = None
    /\ runs[r] = None
    /\ IsRunVisible(s.classification, cl)
    /\ runs' = [runs EXCEPT ![r] =
                   [status |-> "RUNNING", scope |-> s, bound |-> FALSE, request |-> None,
                    action |-> None, decision |-> None, approver |-> None]]
    /\ requests' = [requests EXCEPT ![q] = NewRequest("start", r, "executing", None, None, cl)]
    /\ UNCHANGED <<generations, tickets, calls, interrupts>>

(* A fault: whoever sees the run may decide it.                            *)
IsRunVisibleOnly(r, cl) ==
    runs[r] # None /\ IsRunVisible(runs[r].scope.classification, cl)

(* _is_run_resumable_by, on the record as it is read.                      *)
IsRunResumableBy(r, cl) ==
    /\ runs[r] # None
    /\ IsRunVisible(runs[r].scope.classification, cl)
    /\ runs[r].status = "WAITING_FOR_APPROVAL" =>
          /\ runs[r].action # None
          /\ IsActionProfileAuthorized(runs[r].action, runs[r].scope)

(* resume_run up to its first store call, by any user.  The token is one   *)
(* that was shown: it is a uuid4, nobody names it before.                  *)
Resume(q, r, g, d, cl) ==
    /\ requests[q] = None
    /\ generations[r][g] # None
    /\ requests' = [requests EXCEPT ![q] =
          NewRequest("resume", r, IF IsRunResumableBy(r, cl) THEN "authorized" ELSE "refused",
                     g, d, cl)]
    /\ UNCHANGED <<runs, generations, tickets, calls, interrupts>>

(* A fault: a run that was claimed before is claimed again.                *)
MayDecideAgain(r, g) ==
    /\ runs[r] # None
    /\ runs[r].request # None
    /\ runs[r].request.id = g
    /\ Store!HasCurrentGeneration(runs[r], generations[r])

MayDecide(r, g) ==
    /\ runs[r] # None
    /\ runs[r].status = "WAITING_FOR_APPROVAL"
    /\ runs[r].request # None
    /\ runs[r].request.id = g
    /\ Store!HasCurrentGeneration(runs[r], generations[r])

(* claim_resume, by a request that was authorized some time ago.           *)
ClaimResume(q) ==
    /\ At(q, "authorized")
    /\ LET r == requests[q].run
           g == requests[q].id
       IN IF MayDecide(r, g)
          THEN /\ runs' = [runs EXCEPT ![r] =
                              [@ EXCEPT !.status = "RUNNING",
                                        !.decision = requests[q].decision,
                                        !.approver = requests[q].clearance]]
               /\ generations' = [generations EXCEPT ![r][g] =
                                     [@ EXCEPT !.decision = requests[q].decision,
                                               !.approver = requests[q].clearance]]
               /\ IF runs[r].bound THEN GoesTo(q, "deciding") ELSE EndsRun(q, "FAILED", "raised")
          ELSE /\ GoesTo(q, "conflict")
               /\ UNCHANGED <<runs, generations>>
    /\ UNCHANGED <<tickets, calls, interrupts>>
-----------------------------------------------------------------------------
(* The graph, as a request sees it.                                        *)

(* The model answers, or reaches a limit: a start is bound to its model    *)
(* first, a resume was.                                                    *)
Answers(q, outcome) ==
    /\ At(q, "executing")
    /\ requests' = [requests EXCEPT ![q] =
          [@ EXCEPT !.pc = IF requests[q].kind = "start" THEN "binding" ELSE "ending",
                    !.outcome = outcome]]
    /\ UNCHANGED <<runs, generations, tickets, calls, interrupts>>

(* The model proposes a write its profile offers, under a fresh uuid4, and *)
(* the graph stops at its interrupt.  start hands the interrupt on; resume *)
(* ignores it, finds neither a result nor an approval in the state, and    *)
(* raises.                                                                 *)
Proposes(q, g, p) ==
    /\ At(q, "executing")
    /\ LET r == requests[q].run
       IN /\ runs[r].scope.profile \in ProfilesOffering(p.action)
          /\ \A s \in Runs : /\ generations[s][g] = None
                            /\ interrupts[s] # None => interrupts[s].id # g
          /\ interrupts' = [interrupts EXCEPT ![r] = [id |-> g, proposal |-> p]]
    /\ IF requests[q].kind = "start" THEN GoesTo(q, "binding") ELSE EndsRun(q, "FAILED", "none")
    /\ UNCHANGED <<runs, generations, tickets, calls>>

(* What the resumed graph acts on: the checkpoint's pending action.        *)
HasPendingAction(q) == At(q, "deciding") /\ interrupts[requests[q].run] # None

(* The resumed graph is told "reject": it cancels the proposal and ends, a *)
(* refused calibration as a blocked recovery (a failed run).               *)
Cancels(q) ==
    /\ HasPendingAction(q)
    /\ requests[q].decision = "reject"
    /\ LET r == requests[q].run
       IN /\ EndsRun(q, IF interrupts[r].proposal.action = "create_maintenance_ticket"
                        THEN "SUCCESS" ELSE "FAILED", "none")
          /\ interrupts' = [interrupts EXCEPT ![r] = None]
    /\ UNCHANGED <<runs, generations, tickets, calls>>

(* It is told "approve": it calls the write tool with the checkpointed     *)
(* proposal, as the identity of the run's profile.                         *)
CallsTool(q, c) ==
    /\ HasPendingAction(q)
    /\ requests[q].decision = "approve"
    /\ LET r == requests[q].run
           claim == interrupts[r]
           identity == ProfileClassification[runs[r].scope.profile]
       IN /\ requests' = [requests EXCEPT ![q] = [@ EXCEPT !.pc = "calling", !.call = c]]
          /\ \/ Store!ClaimApproved(c, r, claim.id, claim.proposal, identity)
             \/ Store!ClaimRefused(c, r, claim.id, claim.proposal, identity)
    /\ UNCHANGED interrupts

(* The tool returns to the graph: after a ticket the model goes on, after  *)
(* a calibration the run ends with what the device made of it.             *)
ToolReturns(q, outcome) ==
    /\ At(q, "calling")
    /\ calls[requests[q].call].pc = "ok"
    /\ LET r == requests[q].run
       IN /\ IF calls[requests[q].call].proposal.action = "create_maintenance_ticket"
             THEN GoesTo(q, "executing")
             ELSE EndsRun(q, outcome, "none")
          /\ interrupts' = [interrupts EXCEPT ![r] = None]
    /\ UNCHANGED <<runs, generations, tickets, calls>>

(* The tool answers with an error, or cannot answer.                       *)
ToolRaises(q) ==
    /\ At(q, "calling")
    /\ calls[requests[q].call].pc \in {"denied", "unknown"}
    /\ EndsRun(q, "FAILED", "raised")
    /\ UNCHANGED <<runs, generations, tickets, calls, interrupts>>

(* The model, its assignment, its provider, a read tool or the checkpoint  *)
(* raises.                                                                 *)
GraphRaises(q) ==
    /\ At(q, "executing") \/ At(q, "deciding")
    /\ EndsRun(q, "FAILED", "raised")
    /\ UNCHANGED <<runs, generations, tickets, calls, interrupts>>

(* A fault: the timeout is answered and the run is left as it is.          *)
TimesOutUnrecorded(q) ==
    /\ At(q, "executing") \/ At(q, "deciding") \/ At(q, "calling")
    /\ GoesTo(q, "answered")
    /\ UNCHANGED <<runs, generations, tickets, calls, interrupts>>

(* asyncio.wait_for gives the graph up; a tool call it awaited goes on.    *)
TimesOut(q) ==
    /\ At(q, "executing") \/ At(q, "deciding") \/ At(q, "calling")
    /\ EndsRun(q, "FAILED", "timeout")
    /\ UNCHANGED <<runs, generations, tickets, calls, interrupts>>
-----------------------------------------------------------------------------
(* The store calls after the graph.                                        *)

(* bind_execution_context, complete and fail read the record ...           *)
Reads(q) ==
    /\ At(q, "binding") \/ At(q, "ending")
    /\ requests[q].write = None
    /\ LET r == requests[q].run
           op == IF requests[q].pc = "binding" THEN "bind" ELSE requests[q].outcome
       IN requests' = [requests EXCEPT ![q].write =
                          [op |-> op, read |-> runs[r], generations |-> generations[r]]]
    /\ UNCHANGED <<runs, generations, tickets, calls, interrupts>>

(* ... and write it back.  A bound run whose graph answered is completed;  *)
(* one whose graph was interrupted is put to a human.                      *)
Writes(q) ==
    /\ requests[q] # None
    /\ requests[q].write # None
    /\ LET r == requests[q].run
           next == IF requests[q].pc = "ending" THEN "answered"
                   ELSE IF requests[q].outcome = None THEN "persisting" ELSE "ending"
       IN /\ runs' = [runs EXCEPT ![r] = Store!Rewritten(requests[q].write)]
          /\ requests' = [requests EXCEPT ![q] = [@ EXCEPT !.pc = next, !.write = None]]
    /\ UNCHANGED <<generations, tickets, calls, interrupts>>

(* _persist_execution of an interrupt: wait_for_approval.                  *)
Persists(q) ==
    /\ At(q, "persisting")
    /\ LET r == requests[q].run
           proposed == interrupts[r]
       IN /\ generations[r][proposed.id] = None
          /\ runs' = [runs EXCEPT ![r] =
                         [@ EXCEPT !.status = "WAITING_FOR_APPROVAL", !.request = proposed,
                                   !.action = proposed.proposal.action,
                                   !.decision = None, !.approver = None]]
          /\ generations' = [generations EXCEPT ![r][proposed.id] =
                                [scope |-> runs[r].scope, proposal |-> proposed.proposal,
                                 decision |-> None, approver |-> None, consumed |-> FALSE]]
    /\ GoesTo(q, "answered")
    /\ UNCHANGED <<tickets, calls, interrupts>>

(* A store call raises: the run is failed instead, unless that is what     *)
(* raised.                                                                 *)
StoreRaises(q) ==
    /\ \/ At(q, "binding") \/ At(q, "persisting")
       \/ At(q, "ending") /\ requests[q].fault = "none"
    /\ requests' = [requests EXCEPT ![q] =
          [@ EXCEPT !.pc = "ending", !.outcome = "FAILED", !.fault = "store", !.write = None]]
    /\ UNCHANGED <<runs, generations, tickets, calls, interrupts>>

(* The process stops, or recording a failure fails: nobody answers.        *)
Stops(q) ==
    /\ requests[q] # None
    /\ requests[q].pc \in Running
    /\ requests' = [requests EXCEPT ![q] = [@ EXCEPT !.pc = "stopped", !.write = None]]
    /\ UNCHANGED <<runs, generations, tickets, calls, interrupts>>
-----------------------------------------------------------------------------
GraphStep(q) ==
    \/ \E o \in Store!Outcomes : Answers(q, o) \/ ToolReturns(q, o)
    \/ \E g \in Gens, p \in Proposals : Proposes(q, g, p)
    \/ \E c \in Calls : CallsTool(q, c)
    \/ Cancels(q)
    \/ ToolRaises(q)
    \/ GraphRaises(q)

(* What the event loop runs next of a request, once its await is over.     *)
ApiStep(q) ==
    \/ ClaimResume(q)
    \/ Reads(q)
    \/ Writes(q)
    \/ Persists(q)

(* The MCP servers go on with a call whatever becomes of its caller.       *)
ServerStep(c) ==
    /\ UNCHANGED <<interrupts, requests>>
    /\ \/ Store!LookupConsumed(c)
       \/ Store!WriteTicket(c)
       \/ Store!ReadTicket(c)
       \/ Store!Calibrate(c)
       \/ Store!LoseCall(c)

(* Another principal calls a write tool for an approval it has heard of.   *)
OtherCall(c, r, g, p, cl) ==
    /\ UNCHANGED <<interrupts, requests>>
    /\ generations[r][g] # None
    /\ \/ Store!ClaimApproved(c, r, g, p, cl)
       \/ Store!ClaimRefused(c, r, g, p, cl)

Next ==
    \/ \E q \in Requests, r \in Runs, cl \in UserClearances :
          \/ \E s \in RunScopes : Start(q, r, s, cl)
          \/ \E g \in Gens, d \in Store!Decisions : Resume(q, r, g, d, cl)
    \/ \E q \in Requests :
          GraphStep(q) \/ TimesOut(q) \/ ApiStep(q) \/ StoreRaises(q) \/ Stops(q)
    \/ \E c \in Calls :
          \/ ServerStep(c)
          \/ \E r \in Runs, g \in Gens, p \in Proposals, cl \in Store!WriteClearances :
                OtherCall(c, r, g, p, cl)

(* A request whose store call is due is scheduled, and one whose graph is  *)
(* working is given up in the end (execution_timeout_seconds).             *)
Fairness == \A q \in Requests : WF_vars(ApiStep(q)) /\ WF_vars(TimesOut(q))

Spec == Init /\ [][Next]_vars /\ Fairness
-----------------------------------------------------------------------------
(* The requests keep the discipline the store relies on: no two of them    *)
(* ever write one run, and each store call finds the run as it left it.    *)
ImplementsStore == Store!Spec

(* Whoever decided, approving or rejecting, could see the run and was      *)
(* allowed to decide this action in its scope, although the check was made *)
(* on a record read before the claim (_is_run_resumable_by).               *)
DecidedByTheAuthorized ==
    \A r \in Runs, g \in Gens :
        generations[r][g] # None /\ generations[r][g].decision # None =>
            /\ IsRunVisible(runs[r].scope.classification, generations[r][g].approver)
            /\ IsActionProfileAuthorized(generations[r][g].proposal.action, runs[r].scope)

(* What a resume request that was answered says of the factory is so: an   *)
(* approval that succeeded left exactly the ticket its token stood for, a  *)
(* rejection left nothing, and neither can be undone by a tool call still  *)
(* under way.                                                              *)
AnsweredResumeIsTrue ==
    \A q \in Requests : At(q, "answered") /\ requests[q].kind = "resume" =>
        LET r == requests[q].run
            g == requests[q].id
            ticket == tickets[r][g]
            proposal == generations[r][g].proposal
        IN /\ generations[r][g] # None
           /\ generations[r][g].decision = requests[q].decision
           /\ requests[q].decision = "reject" => Store!EffectsOf(r, g) = {}
           /\ (/\ requests[q].decision = "approve"
               /\ requests[q].outcome = "SUCCESS"
               /\ proposal.action = "create_maintenance_ticket")
              => ticket # None /\ ticket.target = proposal.target

(* A run that ended stays as it ended: complete and fail look at no        *)
(* status, and still never meet a run that ended.                          *)
EndIsFinal ==
    [][\A r \in Runs : runs[r] # None /\ runs[r].status \in Store!Outcomes
           => runs'[r].status = runs[r].status]_vars

(* A run does not stay running: it ends or waits for a human, unless the   *)
(* request that drove it was stopped.                                      *)
Abandoned(r) == \E q \in Requests : At(q, "stopped") /\ requests[q].run = r

RunsSettle ==
    \A r \in Runs :
        LET running == runs[r] # None /\ runs[r].status = "RUNNING"
        IN running ~> ~ running \/ Abandoned(r)

(* ADR-011 (159-161): "At most one approval is pending per run; a          *)
(* previously claimed operation may finish while a later generation is     *)
(* approved."  A graph that is interrupted, with no fault, for a later     *)
(* generation has it put to a human.                                       *)
ProposalsArePut ==
    \A r \in Runs :
        /\ interrupts[r] # None
        /\ \A q \in Requests : requests[q] # None /\ requests[q].run = r =>
               requests[q].pc \in Ended \ {"stopped"} /\ requests[q].fault = "none"
        => generations[r][interrupts[r].id] # None
-----------------------------------------------------------------------------
(* Why the safety properties hold: what every step keeps, part by part.    *)

(* The request is between its claim of the run, or its start, and its end. *)
Drives(q) == requests[q] # None /\ requests[q].pc \in Running \ {"authorized"}

(* One request at a time drives a run, and only a running one.             *)
RunHasOneDriver ==
    \A q \in Requests : Drives(q) =>
        /\ runs[requests[q].run] # None
        /\ runs[requests[q].run].status = "RUNNING"
        /\ \A p \in Requests : Drives(p) /\ requests[p].run = requests[q].run => p = q

(* A driver writes where its handler does, binds before anything was put   *)
(* to a human, and puts to a human what its graph was interrupted for.     *)
IsInOrder(q) ==
    /\ requests[q] # None /\ requests[q].write # None =>
          requests[q].pc \in {"binding", "ending"}
    /\ Drives(q) =>
          LET request == requests[q]
              r == request.run
          IN /\ request.write # None /\ request.pc = "binding" => request.write.op = "bind"
             /\ request.pc = "ending" => request.outcome # None
             /\ request.pc \in {"deciding", "calling"} => request.kind = "resume"
             /\ request.pc \in {"binding", "persisting"} => request.kind = "start"
             /\ request.pc \in {"executing", "binding"} /\ request.kind = "start" =>
                   \A g \in Gens : generations[r][g] = None
             /\ request.pc = "binding" /\ request.outcome = None => interrupts[r] # None
             /\ request.pc = "persisting" => interrupts[r] # None /\ runs[r].bound

(* What waits is what the checkpoint is stopped at; only that is undecided.*)
CheckpointIsKept(r) ==
    /\ interrupts[r] # None =>
          /\ runs[r] # None
          /\ runs[r].scope.profile \in ProfilesOffering(interrupts[r].proposal.action)
    /\ runs[r] # None /\ runs[r].status = "WAITING_FOR_APPROVAL" =>
          /\ runs[r].request = interrupts[r]
          /\ runs[r].action = interrupts[r].proposal.action
    /\ \A g \in Gens : generations[r][g] # None /\ generations[r][g].decision = None =>
          runs[r].status = "WAITING_FOR_APPROVAL" /\ runs[r].request.id = g

(* Who was let past the check may decide the generation of its token if    *)
(* that is undecided still, whatever happened since.                       *)
AuthorizedMayDecide(q) ==
    At(q, "authorized") =>
        LET r == requests[q].run
            g == requests[q].id
        IN /\ requests[q].kind = "resume"
           /\ g \in Gens
           /\ requests[q].decision \in Store!Decisions
           /\ generations[r][g] # None
           /\ IsRunVisible(runs[r].scope.classification, requests[q].clearance)
           /\ generations[r][g].decision = None =>
                 IsActionProfileAuthorized(generations[r][g].proposal.action, runs[r].scope)

TicketStands(r, g) ==
    /\ tickets[r][g] # None
    /\ tickets[r][g].target = generations[r][g].proposal.target

(* From the claim to its answer, a resume stands by its decision: the      *)
(* graph acts on the decided proposal, calls the tool with it, and goes on *)
(* only with the ticket.                                                   *)
ResumeIsKept(q) ==
    (Drives(q) \/ At(q, "answered")) /\ requests[q].kind = "resume" =>
        LET request == requests[q]
            r == request.run
            g == request.id
        IN /\ g \in Gens
           /\ generations[r][g] # None
           /\ request.decision \in Store!Decisions
           /\ generations[r][g].decision = request.decision
           /\ request.pc = "deciding" /\ interrupts[r] # None =>
                 /\ interrupts[r].id = g
                 /\ interrupts[r].proposal = generations[r][g].proposal
           /\ request.pc = "calling" =>
                 /\ request.call \in Calls
                 /\ calls[request.call] # None
                 /\ calls[request.call].run = r
                 /\ calls[request.call].id = g
                 /\ calls[request.call].proposal = generations[r][g].proposal
           /\ request.pc = "executing" => TicketStands(r, g)
           /\ (/\ request.pc \in {"ending", "answered"}
               /\ request.decision = "approve"
               /\ request.outcome = "SUCCESS"
               /\ generations[r][g].proposal.action = "create_maintenance_ticket")
              => TicketStands(r, g)

LifecycleInv ==
    /\ TypeOK
    /\ Store!IInv
    /\ RunHasOneDriver
    /\ \A q \in Requests : IsInOrder(q) /\ AuthorizedMayDecide(q) /\ ResumeIsKept(q)
    /\ \A r \in Runs : CheckpointIsKept(r)
    /\ DecidedByTheAuthorized
=============================================================================
