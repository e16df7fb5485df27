---------------------------- MODULE ApprovalStore ----------------------------
(***************************************************************************)
(* The run store with its approval generations, and the MCP tool calls     *)
(* that spend them.                                                        *)
(*                                                                         *)
(* A run's record is written by the one API handler that owns the run      *)
(* while it is "running" (infrastructure/api/app.py), by any user who      *)
(* resumes it while it waits, and by any MCP principal whose tool call     *)
(* claims the approval.  These interleave: the handler's complete, fail    *)
(* and bind_execution_context read the record, and write it back later     *)
(* (two lock acquisitions in run_store.py, a read and a commit in          *)
(* postgres_run_store.py), and a tool call claims, performs and answers in *)
(* separate steps, each of which may be its last.                          *)
(*                                                                         *)
(* A generation's id is a fresh uuid4; a payload of the graph is the       *)
(* proposal (action, and the station with the summary or the device).      *)
(* Response text, timestamps and telemetry are left out.                   *)
(***************************************************************************)
EXTENDS Security

CONSTANTS Runs,         \* run ids
          Gens,         \* approval generation ids
          Calls,        \* executions of the two write tools (a bound)
          Proposals,    \* the proposals a graph can put to a human
          RunScopes,    \* the scopes the policy resolves runs to
          UserClearances, \* the clearances of the users who may try to resume
          None          \* no record, no generation, no request, no ticket

ASSUME ConstantsAssumption ==
    /\ Proposals \subseteq [action : ActionNames, target : {p.target : p \in Proposals}]
    /\ RunScopes \subseteq Scopes
    /\ UserClearances \subseteq Classifications

Targets   == {p.target : p \in Proposals}
Decisions == {"approve", "reject"}

(* How a run ends.  LIMIT_REACHED is stored exactly as SUCCESS is.         *)
Outcomes  == {"SUCCESS", "FAILED"}
Statuses  == {"RUNNING", "WAITING_FOR_APPROVAL"} \union Outcomes

(* The MCP identities that hold a write permission: industrial-agent and   *)
(* industrial-agent-restricted.                                            *)
WriteClearances == {CONFIDENTIAL, RESTRICTED}

Request == [id : Gens, proposal : Proposals]

Run ==
    [status   : Statuses,
     scope    : RunScopes,
     bound    : BOOLEAN,                           \* model_profile is set
     request  : Request \union {None},             \* approval_request
     action   : ActionNames \union {None},         \* approval_action
     decision : Decisions \union {None},           \* approval_decision
     approver : UserClearances \union {None}]     \* approval_decided_clearance

Generation ==
    [scope    : RunScopes,
     proposal : Proposals,
     decision : Decisions \union {None},
     approver : UserClearances \union {None},
     consumed : BOOLEAN]

Ticket == [target : Targets, classification : WriteClearances]

History == [Gens -> Generation \union {None}]

(* A store write of the handler between its read and its write: what it    *)
(* will do, and the record it read.                                        *)
PendingWrite ==
    [op : Outcomes \union {"bind"}, read : Run, generations : History]

(* An execution of a write tool on an MCP server, with the arguments it    *)
(* was sent.  "owned": its claim succeeded and nothing is dispatched yet;  *)
(* "lookup": its claim failed, the consumed claim is not yet looked up;    *)
(* "read": it may read the existing ticket.  The rest are its answers: ok, *)
(* denied, or none that the caller can rely on ("unknown": an error after  *)
(* the claim, a cancellation or a server crash).  claimed and effect are   *)
(* history: it consumed a generation; it changed the factory.              *)
Call ==
    [run : Runs, id : Gens, proposal : Proposals, clearance : WriteClearances,
     pc : {"owned", "lookup", "read", "ok", "denied", "unknown"},
     claimed : BOOLEAN, effect : BOOLEAN]

ASSUME NoneAssumption ==
    /\ None \notin Run
    /\ None \notin Generation
    /\ None \notin Request
    /\ None \notin Ticket
    /\ None \notin Call
    /\ None \notin PendingWrite
    /\ None \notin Decisions
    /\ None \notin ActionNames
    /\ None \notin Nat

VARIABLES
    runs,          \* the records of the store
    generations,   \* their approval_generations
    writer,        \* the handler's store write in progress, if any
    tickets,       \* maintenance_tickets by idempotency key (run, generation)
    calls          \* the tool calls

storeVars == <<runs, generations, writer>>
vars == <<runs, generations, writer, tickets, calls>>

TypeOK ==
    /\ runs \in [Runs -> Run \union {None}]
    /\ generations \in [Runs -> History]
    /\ writer \in [Runs -> PendingWrite \union {None}]
    /\ tickets \in [Runs -> [Gens -> Ticket \union {None}]]
    /\ calls \in [Calls -> Call \union {None}]

Init ==
    /\ runs = [r \in Runs |-> None]
    /\ generations = [r \in Runs |-> [g \in Gens |-> None]]
    /\ writer = [r \in Runs |-> None]
    /\ tickets = [r \in Runs |-> [g \in Gens |-> None]]
    /\ calls = [c \in Calls |-> None]

-----------------------------------------------------------------------------
(* The predicates a store decides with, over a record and its generations. *)

(* The payload that waits is the one its generation was bound to.          *)
HasCurrentGeneration(run, history) ==
    /\ run.request # None
    /\ history[run.request.id] # None
    /\ history[run.request.id].proposal = run.request.proposal
    /\ history[run.request.id].scope = run.scope

(* A fault: the arguments of the call are trusted, only its action is      *)
(* compared.                                                               *)
MatchesActionOnly(run, generation, claim, consumed) ==
    /\ generation # None
    /\ generation.scope = run.scope
    /\ generation.decision = "approve"
    /\ generation.consumed = consumed
    /\ generation.approver >= run.scope.classification
    /\ IsRunVisible(run.scope.classification, claim.clearance)
    /\ IsActionProfileAuthorized(claim.proposal.action, run.scope)
    /\ generation.proposal.action = claim.proposal.action

MatchesApprovalGeneration(run, generation, claim, consumed) ==
    /\ generation # None
    /\ generation.scope = run.scope
    /\ generation.decision = "approve"
    /\ generation.consumed = consumed
    /\ generation.approver >= run.scope.classification
    /\ IsRunVisible(run.scope.classification, claim.clearance)
    /\ IsActionProfileAuthorized(claim.proposal.action, run.scope)
    /\ generation.proposal = claim.proposal

MatchesProtectedActionApproval(run, history, claim) ==
    /\ run.request # None
    /\ MatchesApprovalGeneration(run, history[claim.id], claim, FALSE)
    /\ run.status = "RUNNING"
    /\ HasCurrentGeneration(run, history)
    /\ run.decision = "approve"
    /\ run.approver >= run.scope.classification
    /\ run.action = run.request.proposal.action
    /\ run.request.id = claim.id
-----------------------------------------------------------------------------
(* The API side.                                                           *)

Create(r, s) ==
    /\ runs[r] = None
    /\ runs' = [runs EXCEPT ![r] =
                   [status |-> "RUNNING", scope |-> s, bound |-> FALSE, request |-> None,
                    action |-> None, decision |-> None, approver |-> None]]
    /\ UNCHANGED <<generations, writer, tickets, calls>>

(* A handler writes a record only while the run is running, and one write  *)
(* at a time: the handler that created the run, or the one whose           *)
(* claim_resume returned it.                                               *)
HandlerMayWrite(r) ==
    /\ runs[r] # None
    /\ runs[r].status = "RUNNING"
    /\ writer[r] = None

(* A fault: an id that the record already holds is proposed again.         *)
WaitForApprovalAgain(r, g, p) ==
    /\ HandlerMayWrite(r)
    /\ runs[r].bound
    /\ runs' = [runs EXCEPT ![r] =
                   [@ EXCEPT !.status = "WAITING_FOR_APPROVAL",
                             !.request = [id |-> g, proposal |-> p],
                             !.action = p.action, !.decision = None, !.approver = None]]
    /\ generations' = [generations EXCEPT ![r][g] =
                          IF @ # None THEN @
                          ELSE [scope |-> runs[r].scope, proposal |-> p, decision |-> None,
                                approver |-> None, consumed |-> FALSE]]
    /\ UNCHANGED <<writer, tickets, calls>>

(* _persist_execution with an interrupted graph: wait_for_approval under   *)
(* the generation id the graph chose.  An id the record already holds      *)
(* changes nothing (or is refused when it is bound to something else).     *)
WaitForApproval(r, g, p) ==
    /\ HandlerMayWrite(r)
    /\ runs[r].bound
    /\ runs[r].scope.profile \in ProfilesOffering(p.action)
    /\ generations[r][g] = None
    /\ runs' = [runs EXCEPT ![r] =
                   [@ EXCEPT !.status = "WAITING_FOR_APPROVAL",
                             !.request = [id |-> g, proposal |-> p],
                             !.action = p.action, !.decision = None, !.approver = None]]
    /\ generations' = [generations EXCEPT ![r][g] =
                          [scope |-> runs[r].scope, proposal |-> p, decision |-> None,
                           approver |-> None, consumed |-> FALSE]]
    /\ UNCHANGED <<writer, tickets, calls>>

(* A user decides the generation the run waits for; any other id, and any  *)
(* other status, is a conflict that changes nothing.                       *)
ClaimResume(r, g, decision, clearance) ==
    /\ runs[r] # None
    /\ runs[r].status = "WAITING_FOR_APPROVAL"
    /\ runs[r].request # None
    /\ runs[r].request.id = g
    /\ HasCurrentGeneration(runs[r], generations[r])
    /\ runs' = [runs EXCEPT ![r] = [@ EXCEPT !.status = "RUNNING", !.decision = decision,
                                             !.approver = clearance]]
    /\ generations' = [generations EXCEPT ![r][g] =
                          [generations[r][g] EXCEPT !.decision = decision,
                                                    !.approver = clearance]]
    /\ UNCHANGED <<writer, tickets, calls>>

(* complete, fail (an outcome) and bind_execution_context read the record. *)
(* The handler binds once, before anything is proposed.                    *)
BeginWrite(r, op) ==
    /\ HandlerMayWrite(r)
    /\ op = "bind" => \A g \in Gens : generations[r][g] = None
    /\ writer' = [writer EXCEPT ![r] =
                     [op |-> op, read |-> runs[r], generations |-> generations[r]]]
    /\ UNCHANGED <<runs, generations, tickets, calls>>

(* The record that replaces the one that was read.                         *)
Rewritten(w) ==
    IF w.op = "bind"
    THEN [w.read EXCEPT !.bound = TRUE]
    ELSE [w.read EXCEPT !.status = w.op, !.request = None]

(* A fault: the generations that were read are put back, which undoes a    *)
(* claim made in between.                                                  *)
FinishWriteWithGenerations(r) ==
    /\ writer[r] # None
    /\ runs' = [runs EXCEPT ![r] = Rewritten(writer[r])]
    /\ generations' = [generations EXCEPT ![r] = writer[r].generations]
    /\ writer' = [writer EXCEPT ![r] = None]
    /\ UNCHANGED <<tickets, calls>>

(* ... and write it back, with the generations the store holds by then.    *)
FinishWrite(r) ==
    /\ writer[r] # None
    /\ runs' = [runs EXCEPT ![r] = Rewritten(writer[r])]
    /\ writer' = [writer EXCEPT ![r] = None]
    /\ UNCHANGED <<generations, tickets, calls>>

(* The API process stops between the two.                                  *)
AbandonWrite(r) ==
    /\ writer[r] # None
    /\ writer' = [writer EXCEPT ![r] = None]
    /\ UNCHANGED <<runs, generations, tickets, calls>>
-----------------------------------------------------------------------------
(* The MCP side.  A call is any principal's, with any arguments.           *)

NewCall(r, g, p, clearance, pc, claimed) ==
    [run |-> r, id |-> g, proposal |-> p, clearance |-> clearance,
     pc |-> pc, claimed |-> claimed, effect |-> FALSE]

MayClaim(claim) ==
    /\ runs[claim.run] # None
    /\ MatchesProtectedActionApproval(runs[claim.run], generations[claim.run], claim)

(* A fault: the claim is checked and nothing of it is stored.              *)
ClaimWithoutConsuming(c, r, g, p, clearance) ==
    /\ calls[c] = None
    /\ MayClaim(NewCall(r, g, p, clearance, "owned", TRUE))
    /\ calls' = [calls EXCEPT ![c] = NewCall(r, g, p, clearance, "owned", TRUE)]
    /\ UNCHANGED <<runs, generations, writer, tickets>>

(* claim_protected_action_approval answers True: the request is cleared    *)
(* and the generation consumed in one store operation.  A call cancelled   *)
(* while the store works consumes the generation all the same, and goes no *)
(* further ("unknown").                                                    *)
ClaimApproved(c, r, g, p, clearance) ==
    \E pc \in {"owned", "unknown"} :
        /\ calls[c] = None
        /\ MayClaim(NewCall(r, g, p, clearance, pc, TRUE))
        /\ calls' = [calls EXCEPT ![c] = NewCall(r, g, p, clearance, pc, TRUE)]
        /\ runs' = [runs EXCEPT ![r] = [@ EXCEPT !.request = None]]
        /\ generations' = [generations EXCEPT ![r][g] =
                              [generations[r][g] EXCEPT !.consumed = TRUE]]
        /\ UNCHANGED <<writer, tickets>>

(* It answers False: a calibration is denied, a ticket may still have been *)
(* written by an earlier call.                                             *)
ClaimRefused(c, r, g, p, clearance) ==
    LET pc == IF p.action = "create_maintenance_ticket" THEN "lookup" ELSE "denied"
    IN  /\ calls[c] = None
        /\ ~ MayClaim(NewCall(r, g, p, clearance, pc, FALSE))
        /\ calls' = [calls EXCEPT ![c] = NewCall(r, g, p, clearance, pc, FALSE)]
        /\ UNCHANGED <<runs, generations, writer, tickets>>

(* is_consumed_protected_action_approval: leave to read, never to write.   *)
LookupConsumed(c) ==
    /\ calls[c] # None
    /\ calls[c].pc = "lookup"
    /\ LET r == calls[c].run
           consumed == /\ runs[r] # None
                       /\ MatchesApprovalGeneration(runs[r], generations[r][calls[c].id],
                                                    calls[c], TRUE)
       IN calls' = [calls EXCEPT ![c] =
                      [@ EXCEPT !.pc = IF consumed THEN "read" ELSE "denied"]]
    /\ UNCHANGED <<runs, generations, writer, tickets>>

(* The owned ticket write, under the key derived from run and generation.  *)
(* A committed write can still lose its answer.                            *)
WriteTicket(c) ==
    /\ calls[c] # None
    /\ calls[c].pc = "owned"
    /\ calls[c].proposal.action = "create_maintenance_ticket"
    /\ LET r == calls[c].run
           g == calls[c].id
           written == [target |-> calls[c].proposal.target,
                       classification |-> calls[c].clearance]
           ticket == IF tickets[r][g] = None THEN written ELSE tickets[r][g]
           answer == IF ticket.target = calls[c].proposal.target THEN "ok" ELSE "denied"
       IN /\ tickets' = [tickets EXCEPT ![r][g] = ticket]
          /\ \E pc \in {answer, "unknown"} :
                calls' = [calls EXCEPT ![c] =
                            [@ EXCEPT !.pc = pc, !.effect = tickets[r][g] = None]]
    /\ UNCHANGED <<runs, generations, writer>>

(* A fault: a consumed generation is taken for a written ticket.           *)
ReadTicketUnchecked(c) ==
    /\ calls[c] # None
    /\ calls[c].pc = "read"
    /\ calls' = [calls EXCEPT ![c] = [@ EXCEPT !.pc = "ok"]]
    /\ UNCHANGED <<runs, generations, writer, tickets>>

(* The existing ticket of a consumed generation, if the caller may see it  *)
(* and it is the one the caller asks for.                                  *)
ReadTicket(c) ==
    /\ calls[c] # None
    /\ calls[c].pc = "read"
    /\ LET ticket == tickets[calls[c].run][calls[c].id]
           found == /\ ticket # None
                    /\ ticket.classification <= calls[c].clearance
                    /\ ticket.target = calls[c].proposal.target
       IN calls' = [calls EXCEPT ![c] = [@ EXCEPT !.pc = IF found THEN "ok" ELSE "denied"]]
    /\ UNCHANGED <<runs, generations, writer, tickets>>

(* The approved calibration: the device may refuse it (blocked by a        *)
(* precondition, or not executed), and an executed one may end in an error *)
(* instead of a result.                                                    *)
Calibrate(c) ==
    /\ calls[c] # None
    /\ calls[c].pc = "owned"
    /\ calls[c].proposal.action = "execute_reference_calibration"
    /\ \E executed \in BOOLEAN, pc \in {"ok", "unknown"} :
          calls' = [calls EXCEPT ![c] = [@ EXCEPT !.pc = pc, !.effect = executed]]
    /\ UNCHANGED <<runs, generations, writer, tickets>>

(* A call ends before its next step: cancelled before dispatch, an error   *)
(* before the write, or the server stops.                                  *)
LoseCall(c) ==
    /\ calls[c] # None
    /\ calls[c].pc \in {"owned", "lookup", "read"}
    /\ calls' = [calls EXCEPT ![c] = [@ EXCEPT !.pc = "unknown"]]
    /\ UNCHANGED <<runs, generations, writer, tickets>>
-----------------------------------------------------------------------------
ApiStep(r) ==
    \/ \E s \in RunScopes : Create(r, s)
    \/ \E g \in Gens, p \in Proposals : WaitForApproval(r, g, p)
    \/ \E g \in Gens, d \in Decisions, cl \in UserClearances : ClaimResume(r, g, d, cl)
    \/ \E op \in Outcomes \union {"bind"} : BeginWrite(r, op)
    \/ FinishWrite(r)
    \/ AbandonWrite(r)

ToolStep(c) ==
    \/ \E r \in Runs, g \in Gens, p \in Proposals, cl \in WriteClearances :
          \/ ClaimApproved(c, r, g, p, cl)
          \/ ClaimRefused(c, r, g, p, cl)
    \/ LookupConsumed(c)
    \/ WriteTicket(c)
    \/ ReadTicket(c)
    \/ Calibrate(c)
    \/ LoseCall(c)

Next ==
    \/ \E r \in Runs : ApiStep(r)
    \/ \E c \in Calls : ToolStep(c)

Spec == Init /\ [][Next]_vars
-----------------------------------------------------------------------------
(* Every effect on the factory is the one a human approved: the call that  *)
(* made it carries exactly the proposal its generation was bound to, the   *)
(* generation was approved by someone cleared for the run and is consumed, *)
(* and the run's scope allows the action (application/action_approval.py). *)
EffectsAuthorized ==
    \A c \in Calls : calls[c] # None /\ calls[c].effect =>
        LET run == runs[calls[c].run]
            generation == generations[calls[c].run][calls[c].id]
        IN /\ run # None
           /\ generation # None
           /\ generation.consumed
           /\ generation.decision = "approve"
           /\ generation.proposal = calls[c].proposal
           /\ generation.approver >= run.scope.classification
           /\ calls[c].clearance >= run.scope.classification
           /\ IsActionProfileAuthorized(calls[c].proposal.action, run.scope)

(* One approval, at most one effect, however often and by whomever the     *)
(* tool is called, retried or cancelled.                                   *)
AtMostOneEffect ==
    \A c, d \in Calls :
        /\ calls[c] # None /\ calls[c].effect
        /\ calls[d] # None /\ calls[d].effect
        /\ calls[c].run = calls[d].run
        /\ calls[c].id = calls[d].id
        => c = d

(* What a caller is told is true: a ticket it was given exists, is the one *)
(* it asked for, and was written under its generation; a call that was     *)
(* denied changed nothing.                                                 *)
AnswersAreTrue ==
    \A c \in Calls : calls[c] # None =>
        /\ calls[c].pc = "denied" => ~ calls[c].effect
        /\ (/\ calls[c].pc = "ok"
            /\ calls[c].proposal.action = "create_maintenance_ticket")
           => /\ tickets[calls[c].run][calls[c].id] # None
              /\ tickets[calls[c].run][calls[c].id].target = calls[c].proposal.target
              /\ \E d \in Calls :
                    /\ calls[d] # None
                    /\ calls[d].effect
                    /\ calls[d].run = calls[c].run
                    /\ calls[d].id = calls[c].id

(* A run that waits can be decided: its request is the one its generation  *)
(* was bound to, and nobody decided or used that generation before.        *)
WaitingIsDecidable ==
    \A r \in Runs : runs[r] # None /\ runs[r].status = "WAITING_FOR_APPROVAL" =>
        /\ HasCurrentGeneration(runs[r], generations[r])
        /\ generations[r][runs[r].request.id].decision = None
        /\ ~ generations[r][runs[r].request.id].consumed

(* Generations are history: once bound the proposal stays, once decided    *)
(* the decision and who took it stay, once consumed it stays consumed      *)
(* ("Lifecycle updates must not overwrite a concurrently consumed          *)
(* generation", run_store.py).                                             *)
HistoryKept(r, g) ==
    generations[r][g] # None =>
        /\ generations'[r][g] # None
        /\ generations'[r][g].proposal = generations[r][g].proposal
        /\ generations[r][g].decision # None =>
              /\ generations'[r][g].decision = generations[r][g].decision
              /\ generations'[r][g].approver = generations[r][g].approver
        /\ generations[r][g].consumed => generations'[r][g].consumed

GenerationsAreHistory == [][\A r \in Runs, g \in Gens : HistoryKept(r, g)]_vars
-----------------------------------------------------------------------------
(* Why the properties hold: what every step keeps, part by part.           *)

(* A request is its generation's: same proposal, same decision, unused.    *)
RequestIsBound ==
    \A r \in Runs : runs[r] # None /\ runs[r].request # None =>
        /\ HasCurrentGeneration(runs[r], generations[r])
        /\ generations[r][runs[r].request.id].decision = runs[r].decision
        /\ ~ generations[r][runs[r].request.id].consumed

(* A waiting run has an undecided request, and nobody is writing it.       *)
WaitingIsQuiet ==
    \A r \in Runs : runs[r] # None /\ runs[r].status = "WAITING_FOR_APPROVAL" =>
        /\ runs[r].request # None
        /\ runs[r].decision = None
        /\ writer[r] = None

(* A record that was read differs from the stored one at most by a claim   *)
(* made since, and a bind read a record without a request.                 *)
WriterReadRecord ==
    \A r \in Runs : writer[r] # None =>
        /\ runs[r] # None
        /\ runs[r].status = "RUNNING"
        /\ writer[r].read.status = "RUNNING"
        /\ writer[r].read.scope = runs[r].scope
        /\ writer[r].op = "bind" => writer[r].read.request = None

(* Only what was approved by someone cleared for the run, for an action    *)
(* its scope allows, is consumed.                                          *)
ConsumedWasApproved ==
    \A r \in Runs, g \in Gens : generations[r][g] # None =>
        /\ runs[r] # None
        /\ generations[r][g].scope = runs[r].scope
        /\ generations[r][g].consumed =>
              /\ generations[r][g].decision = "approve"
              /\ generations[r][g].approver >= runs[r].scope.classification
              /\ IsActionProfileAuthorized(generations[r][g].proposal.action, runs[r].scope)

(* A call that claimed did so for its own proposal, and alone.             *)
ClaimIsExclusive ==
    /\ \A c \in Calls : calls[c] # None /\ calls[c].claimed =>
          /\ generations[calls[c].run][calls[c].id] # None
          /\ generations[calls[c].run][calls[c].id].consumed
          /\ generations[calls[c].run][calls[c].id].proposal = calls[c].proposal
          /\ generations[calls[c].run][calls[c].id].scope.classification <= calls[c].clearance
    /\ \A c, d \in Calls :
          /\ calls[c] # None /\ calls[c].claimed
          /\ calls[d] # None /\ calls[d].claimed
          /\ calls[c].run = calls[d].run
          /\ calls[c].id = calls[d].id
          => c = d

(* Only a call that claimed has an effect, and it is the call's last step. *)
EffectIsClaimed ==
    \A c \in Calls : calls[c] # None =>
        /\ calls[c].effect => calls[c].claimed
        /\ calls[c].pc = "owned" => calls[c].claimed
        /\ calls[c].pc \in {"owned", "lookup", "read", "denied"} => ~ calls[c].effect

(* A ticket is the effect of the call that claimed its generation.         *)
TicketIsEffect ==
    \A r \in Runs, g \in Gens : tickets[r][g] # None =>
        \E c \in Calls :
            /\ calls[c] # None
            /\ calls[c].effect
            /\ calls[c].run = r
            /\ calls[c].id = g

IInv ==
    /\ TypeOK
    /\ RequestIsBound
    /\ WaitingIsQuiet
    /\ WriterReadRecord
    /\ ConsumedWasApproved
    /\ ClaimIsExclusive
    /\ EffectIsClaimed
    /\ TicketIsEffect
    /\ AnswersAreTrue
-----------------------------------------------------------------------------
(* The abstract approval this store and its tools implement.               *)
PhaseOf(generation) ==
    IF generation = None THEN "unknown"
    ELSE IF generation.decision = None THEN "proposed"
    ELSE IF generation.decision = "reject" THEN "rejected"
    ELSE IF generation.consumed THEN "consumed" ELSE "approved"

BoundOf(generation) == IF generation = None THEN {} ELSE {generation.proposal}

EffectsOf(r, g) ==
    {p \in Proposals : \E c \in Calls : /\ calls[c] # None
                                       /\ calls[c].effect
                                       /\ calls[c].run = r
                                       /\ calls[c].id = g
                                       /\ calls[c].proposal = p}

Keys == Runs \X Gens

phaseBar == [k \in Keys |-> PhaseOf(generations[k[1]][k[2]])]
boundBar == [k \in Keys |-> BoundOf(generations[k[1]][k[2]])]
performedBar == [k \in Keys |-> EffectsOf(k[1], k[2])]

Approval == INSTANCE ProtectedAction
    WITH phase <- phaseBar, bound <- boundBar, performed <- performedBar

(* The store with its tools implements the abstract approval.              *)
ImplementsApproval == Approval!Spec
=============================================================================
