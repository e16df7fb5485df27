------------------------ MODULE ApprovalStore_proofs ------------------------
(***************************************************************************)
(* That the properties of ApprovalStore hold for every number of runs,     *)
(* generations and tool calls.  IInv is inductive; the properties follow.  *)
(***************************************************************************)
EXTENDS ApprovalStore, TLAPS

(* The steps of the API and of the tools keep every variable in its type.  *)
LEMMA TypeInductive == TypeOK /\ [Next]_vars => TypeOK'
<1> SUFFICES ASSUME TypeOK, [Next]_vars PROVE TypeOK'
  OBVIOUS
<1> USE ConstantsAssumption DEF TypeOK, History
<1>1. ASSUME NEW r \in Runs, NEW s \in RunScopes, Create(r, s) PROVE TypeOK'
  BY <1>1 DEF Create, Run, Statuses
<1>2. ASSUME NEW r \in Runs, NEW g \in Gens, NEW p \in Proposals, WaitForApproval(r, g, p)
      PROVE TypeOK'
  <2> DEFINE run == [runs[r] EXCEPT !.status = "WAITING_FOR_APPROVAL",
                                    !.request = [id |-> g, proposal |-> p],
                                    !.action = p.action, !.decision = None,
                                    !.approver = None]
             generation == [scope |-> runs[r].scope, proposal |-> p, decision |-> None,
                            approver |-> None, consumed |-> FALSE]
  <2>1. runs[r] \in Run
    BY <1>2 DEF WaitForApproval, HandlerMayWrite
  <2>2. p.action \in ActionNames
    OBVIOUS
  <2>3. run \in Run
    BY <2>1, <2>2 DEF Run, Request, Statuses
  <2>4. generation \in Generation
    BY <2>1 DEF Run, Generation
  <2> HIDE DEF run, generation
  <2>. QED
    BY <1>2, <2>3, <2>4 DEF WaitForApproval, run, generation
<1>3. ASSUME NEW r \in Runs, NEW g \in Gens, NEW d \in Decisions, NEW cl \in UserClearances,
             ClaimResume(r, g, d, cl)
      PROVE TypeOK'
  <2> DEFINE run == [runs[r] EXCEPT !.status = "RUNNING", !.decision = d, !.approver = cl]
             generation == [generations[r][g] EXCEPT !.decision = d, !.approver = cl]
  <2>1. runs[r] \in Run /\ generations[r][g] \in Generation
    BY <1>3 DEF ClaimResume, HasCurrentGeneration
  <2>2. run \in Run
    BY <2>1 DEF Run, Statuses
  <2>3. generation \in Generation
    BY <2>1 DEF Generation
  <2> HIDE DEF run, generation
  <2>4. runs' = [runs EXCEPT ![r] = run]
    BY <1>3 DEF ClaimResume, run
  <2>5. generations' = [generations EXCEPT ![r][g] = generation]
    BY <1>3 DEF ClaimResume, generation
  <2>. QED
    BY <1>3, <2>2, <2>3, <2>4, <2>5 DEF ClaimResume
<1>4. ASSUME NEW r \in Runs, NEW op \in Outcomes \union {"bind"}, BeginWrite(r, op)
      PROVE TypeOK'
  BY <1>4 DEF BeginWrite, HandlerMayWrite, PendingWrite
<1>5. ASSUME NEW r \in Runs, FinishWrite(r) PROVE TypeOK'
  <2>1. writer[r] \in PendingWrite
    BY <1>5 DEF FinishWrite
  <2>2. Rewritten(writer[r]) \in Run
    BY <2>1 DEF Rewritten, PendingWrite, Run, Statuses
  <2>. QED
    BY <1>5, <2>2 DEF FinishWrite
<1>6. ASSUME NEW r \in Runs, AbandonWrite(r) PROVE TypeOK'
  BY <1>6 DEF AbandonWrite
<1>7. ASSUME NEW c \in Calls, NEW r \in Runs, NEW g \in Gens, NEW p \in Proposals,
             NEW cl \in WriteClearances, ClaimApproved(c, r, g, p, cl)
      PROVE TypeOK'
  <2> DEFINE run == [runs[r] EXCEPT !.request = None]
             generation == [generations[r][g] EXCEPT !.consumed = TRUE]
  <2>1. runs[r] \in Run /\ generations[r][g] \in Generation
    BY <1>7 DEF ClaimApproved, MayClaim, MatchesProtectedActionApproval,
                MatchesApprovalGeneration, NewCall
  <2>2. run \in Run
    BY <2>1 DEF Run
  <2>3. generation \in Generation
    BY <2>1 DEF Generation
  <2>4. \A pc \in {"owned", "unknown"} : NewCall(r, g, p, cl, pc, TRUE) \in Call
    BY DEF NewCall, Call
  <2> HIDE DEF run, generation
  <2>5. runs' = [runs EXCEPT ![r] = run]
    BY <1>7 DEF ClaimApproved, run
  <2>6. generations' = [generations EXCEPT ![r][g] = generation]
    BY <1>7 DEF ClaimApproved, generation
  <2>7. PICK call \in Call : calls' = [calls EXCEPT ![c] = call]
    BY <1>7, <2>4 DEF ClaimApproved
  <2>. QED
    BY <1>7, <2>2, <2>3, <2>5, <2>6, <2>7 DEF ClaimApproved
<1>8. ASSUME NEW c \in Calls, NEW r \in Runs, NEW g \in Gens, NEW p \in Proposals,
             NEW cl \in WriteClearances, ClaimRefused(c, r, g, p, cl)
      PROVE TypeOK'
  BY <1>8 DEF ClaimRefused, NewCall, Call
<1>9. ASSUME NEW c \in Calls, LookupConsumed(c) PROVE TypeOK'
  <2>1. \A pc \in {"read", "denied"} : [calls[c] EXCEPT !.pc = pc] \in Call
    BY <1>9 DEF LookupConsumed, Call
  <2>2. PICK pc \in {"read", "denied"} : calls' = [calls EXCEPT ![c] = [@ EXCEPT !.pc = pc]]
    BY <1>9 DEF LookupConsumed
  <2>. QED
    BY <1>9, <2>1, <2>2 DEF LookupConsumed
<1>10. ASSUME NEW c \in Calls, WriteTicket(c) PROVE TypeOK'
  <2> DEFINE ra == calls[c].run
             ga == calls[c].id
             written == [target |-> calls[c].proposal.target,
                         classification |-> calls[c].clearance]
             ticket == IF tickets[ra][ga] = None THEN written ELSE tickets[ra][ga]
  <2>1. calls[c] \in Call
    BY <1>10 DEF WriteTicket
  <2>2. ra \in Runs /\ ga \in Gens
    BY <2>1 DEF Call
  <2>3. written \in Ticket
    BY <2>1 DEF Call, Ticket, Targets
  <2>4. ticket \in Ticket
    BY <2>2, <2>3
  <2>5. \A pc \in {"ok", "denied", "unknown"}, e \in BOOLEAN :
           [calls[c] EXCEPT !.pc = pc, !.effect = e] \in Call
    BY <2>1 DEF Call
  <2>6. tickets' = [tickets EXCEPT ![ra][ga] = ticket]
    BY <1>10 DEF WriteTicket
  <2>7. PICK pc \in {"ok", "denied", "unknown"}, e \in BOOLEAN :
           calls' = [calls EXCEPT ![c] = [calls[c] EXCEPT !.pc = pc, !.effect = e]]
    BY <1>10 DEF WriteTicket
  <2> HIDE DEF ra, ga, ticket
  <2>8. tickets' \in [Runs -> [Gens -> Ticket \union {None}]]
    BY <2>2, <2>4, <2>6
  <2>9. calls' \in [Calls -> Call \union {None}]
    BY <2>5, <2>7
  <2>. QED
    BY <1>10, <2>8, <2>9 DEF WriteTicket
<1>11. ASSUME NEW c \in Calls, ReadTicket(c) PROVE TypeOK'
  <2>1. calls[c] \in Call
    BY <1>11 DEF ReadTicket
  <2>2. \A pc \in {"ok", "denied"} : [calls[c] EXCEPT !.pc = pc] \in Call
    BY <2>1 DEF Call
  <2>3. PICK pc \in {"ok", "denied"} : calls' = [calls EXCEPT ![c] = [@ EXCEPT !.pc = pc]]
    BY <1>11 DEF ReadTicket
  <2>. QED
    BY <1>11, <2>2, <2>3, SMTT(30) DEF ReadTicket
<1>12. ASSUME NEW c \in Calls, Calibrate(c) PROVE TypeOK'
  <2>1. calls[c] \in Call
    BY <1>12 DEF Calibrate
  <2>2. \A pc \in {"ok", "unknown"}, e \in BOOLEAN :
           [calls[c] EXCEPT !.pc = pc, !.effect = e] \in Call
    BY <2>1 DEF Call
  <2>3. PICK pc \in {"ok", "unknown"}, e \in BOOLEAN :
           calls' = [calls EXCEPT ![c] = [@ EXCEPT !.pc = pc, !.effect = e]]
    BY <1>12 DEF Calibrate
  <2>. QED
    BY <1>12, <2>2, <2>3 DEF Calibrate
<1>13. ASSUME NEW c \in Calls, LoseCall(c) PROVE TypeOK'
  <2>1. calls[c] \in Call
    BY <1>13 DEF LoseCall
  <2>2. [calls[c] EXCEPT !.pc = "unknown"] \in Call
    BY <2>1 DEF Call
  <2>3. calls' = [calls EXCEPT ![c] = [calls[c] EXCEPT !.pc = "unknown"]]
    BY <1>13 DEF LoseCall
  <2>. QED
    BY <1>13, <2>2, <2>3 DEF LoseCall
<1>14. CASE UNCHANGED vars
  BY <1>14 DEF vars
<1>. QED
  BY <1>1, <1>2, <1>3, <1>4, <1>5, <1>6, <1>7, <1>8, <1>9, <1>10, <1>11, <1>12, <1>13, <1>14
     DEF Next, ApiStep, ToolStep

(* Every record, generation, ticket and call is one of its kind.           *)
THEOREM TypeCorrect == Spec => []TypeOK
<1>1. Init => TypeOK
  BY NoneAssumption DEF Init, TypeOK, History
<1>. QED
  BY <1>1, TypeInductive, PTL DEF Spec
-----------------------------------------------------------------------------
(* IInv holds initially.                                                   *)
LEMMA InitIInv == Init => IInv
<1> SUFFICES ASSUME Init PROVE IInv
  OBVIOUS
<1>1. TypeOK
  BY NoneAssumption DEF Init, TypeOK, History
<1>. QED
  BY <1>1 DEF Init, IInv, RequestIsBound, WaitingIsQuiet, WriterReadRecord,
              ConsumedWasApproved, ClaimIsExclusive, EffectIsClaimed, TicketIsEffect,
              AnswersAreTrue

(* The steps of the API keep the strengthened invariant.                   *)
LEMMA ApiStepKeepsIInv == ASSUME IInv, NEW r \in Runs, ApiStep(r), TypeOK' PROVE IInv'
<1> USE DEF IInv
<1>1. ASSUME NEW s \in RunScopes, Create(r, s) PROVE IInv'
  <2>1. RequestIsBound'
    BY <1>1 DEF Create, RequestIsBound, HasCurrentGeneration, TypeOK
  <2>2. WaitingIsQuiet' /\ WriterReadRecord'
    BY <1>1 DEF Create, WaitingIsQuiet, WriterReadRecord, TypeOK
  <2>3. ConsumedWasApproved'
    BY <1>1 DEF Create, ConsumedWasApproved, TypeOK
  <2>. QED
    BY <1>1, <2>1, <2>2, <2>3
       DEF Create, ClaimIsExclusive, EffectIsClaimed, TicketIsEffect, AnswersAreTrue
<1>2. ASSUME NEW g \in Gens, NEW p \in Proposals, WaitForApproval(r, g, p) PROVE IInv'
  <2> DEFINE request == [id |-> g, proposal |-> p]
             run == runs'[r]
             generation == [scope |-> runs[r].scope, proposal |-> p, decision |-> None,
                            approver |-> None, consumed |-> FALSE]
  <2>1. runs[r] \in Run /\ writer[r] = None /\ generations[r][g] = None
    BY <1>2 DEF WaitForApproval, HandlerMayWrite, TypeOK
  <2>2. request # None /\ generation # None
    <3>1. request \in Request /\ generation \in Generation
      BY <2>1, <1>2 DEF WaitForApproval, HandlerMayWrite, Request, Generation, Run
    <3>. QED
      BY <3>1, NoneAssumption
  <2>3. /\ run # None
        /\ run.status = "WAITING_FOR_APPROVAL"
        /\ run.request = request
        /\ run.decision = None
        /\ run.scope = runs[r].scope
        /\ \A q \in Runs : q # r => runs'[q] = runs[q]
    <3> DEFINE new == [runs[r] EXCEPT !.status = "WAITING_FOR_APPROVAL", !.request = request,
                                      !.action = p.action, !.decision = None,
                                      !.approver = None]
    <3>1. p.action \in ActionNames /\ request \in Request
      BY ConstantsAssumption DEF Request
    <3>2. runs[r] # None
      BY <1>2 DEF WaitForApproval, HandlerMayWrite
    <3>3. runs[r] \in Run
      BY <2>1, <3>2
    <3>4. new \in Run
      BY <3>1, <3>3 DEF Run, Statuses
    <3>5. new # None
      BY <3>4, NoneAssumption
    <3>6. /\ new.status = "WAITING_FOR_APPROVAL"
          /\ new.request = request
          /\ new.decision = None
          /\ new.scope = runs[r].scope
      BY <3>3 DEF Run
    <3>7. runs' = [runs EXCEPT ![r] = new]
      BY <1>2 DEF WaitForApproval
    <3> HIDE DEF new, request
    <3>. QED
      BY <3>5, <3>6, <3>7 DEF TypeOK
  <2>4. /\ generations'[r][g] = generation
        /\ \A q \in Runs, h \in Gens :
              <<q, h>> # <<r, g>> => generations'[q][h] = generations[q][h]
    BY <1>2 DEF WaitForApproval, TypeOK, History
  <2>5. UNCHANGED <<writer, tickets, calls>>
    BY <1>2 DEF WaitForApproval
  <2> HIDE DEF run
  <2>6. RequestIsBound'
    <3> SUFFICES ASSUME NEW q \in Runs, runs'[q] # None, runs'[q].request # None
                 PROVE  /\ HasCurrentGeneration(runs'[q], generations'[q])
                        /\ generations'[q][runs'[q].request.id].decision = runs'[q].decision
                        /\ ~ generations'[q][runs'[q].request.id].consumed
      BY DEF RequestIsBound, HasCurrentGeneration
    <3>1. CASE q = r
      BY <3>1, <2>2, <2>3, <2>4 DEF HasCurrentGeneration, run
    <3>2. CASE q # r
      <4>1. runs[q] \in Run /\ runs'[q] = runs[q] /\ runs[q].request.id \in Gens
        BY <3>2, <2>3 DEF TypeOK, Run, Request
      <4>. QED
        BY <3>2, <4>1, <2>4 DEF HasCurrentGeneration, RequestIsBound
    <3>. QED
      BY <3>1, <3>2
  <2>7. WaitingIsQuiet' /\ WriterReadRecord'
    BY <2>1, <2>2, <2>3, <2>5 DEF WaitingIsQuiet, WriterReadRecord, run
  <2>8. ConsumedWasApproved'
    BY <2>3, <2>4 DEF ConsumedWasApproved, run
  <2>9. ClaimIsExclusive'
    BY <2>1, <2>4, <2>5 DEF ClaimIsExclusive, TypeOK, Call
  <2>. QED
    BY <2>5, <2>6, <2>7, <2>8, <2>9 DEF EffectIsClaimed, TicketIsEffect, AnswersAreTrue
<1>3. ASSUME NEW g \in Gens, NEW d \in Decisions, NEW cl \in UserClearances,
             ClaimResume(r, g, d, cl)
      PROVE IInv'
  <2>1. /\ runs[r] \in Run
        /\ generations[r][g] \in Generation
        /\ runs[r] # None
        /\ runs[r].status = "WAITING_FOR_APPROVAL"
        /\ runs[r].request.id = g
        /\ HasCurrentGeneration(runs[r], generations[r])
        /\ ~ generations[r][g].consumed
    BY <1>3 DEF ClaimResume, HasCurrentGeneration, RequestIsBound, TypeOK, History
  <2>2. runs'[r] = [runs[r] EXCEPT !.status = "RUNNING", !.decision = d, !.approver = cl]
    BY <1>3 DEF ClaimResume, TypeOK
  <2>3. /\ runs'[r] # None
        /\ runs'[r].status = "RUNNING"
        /\ runs'[r].request = runs[r].request
        /\ runs'[r].decision = d
        /\ runs'[r].scope = runs[r].scope
        /\ \A q \in Runs : q # r => runs'[q] = runs[q]
    <3>1. runs'[r] \in Run
      BY <2>1, <2>2 DEF Run, Statuses
    <3>2. runs'[r] # None
      BY <3>1, NoneAssumption
    <3>3. /\ runs'[r].status = "RUNNING"
          /\ runs'[r].request = runs[r].request
          /\ runs'[r].decision = d
          /\ runs'[r].scope = runs[r].scope
      BY <2>1, <2>2 DEF Run
    <3>4. \A q \in Runs : q # r => runs'[q] = runs[q]
      BY <1>3 DEF ClaimResume, TypeOK
    <3>. QED
      BY <3>2, <3>3, <3>4
  <2>4. generations'[r][g] = [generations[r][g] EXCEPT !.decision = d, !.approver = cl]
    BY <1>3 DEF ClaimResume, TypeOK, History
  <2>5. \A q \in Runs, h \in Gens :
             <<q, h>> # <<r, g>> => generations'[q][h] = generations[q][h]
    BY <1>3 DEF ClaimResume, TypeOK, History
  <2>6. /\ generations'[r][g] # None
        /\ generations'[r][g].decision = d
        /\ generations'[r][g].proposal = generations[r][g].proposal
        /\ generations'[r][g].scope = generations[r][g].scope
        /\ ~ generations'[r][g].consumed
    <3>1. generations'[r][g] \in Generation
      BY <2>1, <2>4 DEF Generation
    <3>2. generations'[r][g] # None
      BY <3>1, NoneAssumption
    <3>. QED
      BY <2>1, <2>4, <3>2 DEF Generation
  <2>7. UNCHANGED <<writer, tickets, calls>>
    BY <1>3 DEF ClaimResume
  <2>8. RequestIsBound'
    <3> SUFFICES ASSUME NEW q \in Runs, runs'[q] # None, runs'[q].request # None
                 PROVE  /\ HasCurrentGeneration(runs'[q], generations'[q])
                        /\ generations'[q][runs'[q].request.id].decision = runs'[q].decision
                        /\ ~ generations'[q][runs'[q].request.id].consumed
      BY DEF RequestIsBound, HasCurrentGeneration
    <3>1. CASE q = r
      BY <3>1, <2>1, <2>3, <2>6 DEF HasCurrentGeneration
    <3>2. CASE q # r
      <4>1. runs[q] \in Run /\ runs'[q] = runs[q] /\ runs[q].request.id \in Gens
        BY <3>2, <2>3 DEF TypeOK, Run, Request
      <4>. QED
        BY <3>2, <4>1, <2>5 DEF HasCurrentGeneration, RequestIsBound
    <3>. QED
      BY <3>1, <3>2
  <2>9. WaitingIsQuiet' /\ WriterReadRecord'
    BY <2>1, <2>3, <2>7 DEF WaitingIsQuiet, WriterReadRecord
  <2>10. ConsumedWasApproved'
    BY <2>1, <2>3, <2>5, <2>6 DEF ConsumedWasApproved, HasCurrentGeneration
  <2>11. ClaimIsExclusive'
    BY <2>1, <2>5, <2>6, <2>7 DEF ClaimIsExclusive, TypeOK, Call
  <2>. QED
    BY <2>7, <2>8, <2>9, <2>10, <2>11 DEF EffectIsClaimed, TicketIsEffect, AnswersAreTrue
<1>4. ASSUME NEW op \in Outcomes \union {"bind"}, BeginWrite(r, op) PROVE IInv'
  <2>0. /\ runs[r] # None
        /\ runs[r].status = "RUNNING"
        /\ writer' = [writer EXCEPT ![r] =
                        [op |-> op, read |-> runs[r], generations |-> generations[r]]]
        /\ UNCHANGED runs
    BY <1>4 DEF BeginWrite, HandlerMayWrite
  <2>1. WriterReadRecord'
    <3>1. op = "bind" => runs[r].request = None
      BY <1>4, <2>0 DEF BeginWrite, RequestIsBound, HasCurrentGeneration, TypeOK, Run, Request
    <3>. QED
      BY <2>0, <3>1 DEF WriterReadRecord, TypeOK
  <2>2. WaitingIsQuiet'
    BY <2>0 DEF WaitingIsQuiet, TypeOK
  <2>. QED
    BY <1>4, <2>1, <2>2
       DEF BeginWrite, RequestIsBound, HasCurrentGeneration, ConsumedWasApproved,
           ClaimIsExclusive, EffectIsClaimed, TicketIsEffect, AnswersAreTrue
<1>5. ASSUME FinishWrite(r) PROVE IInv'
  <2>1. /\ writer[r].read \in Run
        /\ writer[r].read.status = "RUNNING"
        /\ writer[r].read.scope = runs[r].scope
        /\ runs[r] # None
        /\ writer[r].op \in Outcomes \union {"bind"}
        /\ writer[r].op = "bind" => writer[r].read.request = None
    BY <1>5 DEF FinishWrite, WriterReadRecord, TypeOK, PendingWrite
  <2>2. /\ Rewritten(writer[r]) # None
        /\ Rewritten(writer[r]).request = None
        /\ Rewritten(writer[r]).scope = runs[r].scope
        /\ Rewritten(writer[r]).status # "WAITING_FOR_APPROVAL"
    <3> DEFINE read == writer[r].read
               bound == [read EXCEPT !.bound = TRUE]
               ended == [read EXCEPT !.status = writer[r].op, !.request = None]
    <3>1. /\ bound \in Run
          /\ bound.request = read.request
          /\ bound.scope = read.scope
          /\ bound.status = read.status
      BY <2>1 DEF Run
    <3>2. CASE writer[r].op = "bind"
      <4>1. Rewritten(writer[r]) = bound
        BY <3>2 DEF Rewritten
      <4> HIDE DEF read, bound, ended
      <4>2. bound # None
        BY <3>1, NoneAssumption
      <4>3. bound.request = None /\ bound.scope = runs[r].scope /\ bound.status = "RUNNING"
        BY <2>1, <3>1, <3>2 DEF read
      <4>. QED
        BY <4>1, <4>2, <4>3
    <3>3. CASE writer[r].op # "bind"
      <4>1. Rewritten(writer[r]) = ended
        BY <3>3 DEF Rewritten
      <4>2. writer[r].op \in Outcomes
        BY <2>1, <3>3
      <4>3. /\ ended \in Run
            /\ ended.request = None
            /\ ended.scope = read.scope
            /\ ended.status = writer[r].op
        BY <2>1, <4>2 DEF Run, Statuses
      <4> HIDE DEF read, bound, ended
      <4>4. ended # None
        BY <4>3, NoneAssumption
      <4>5. ended.scope = runs[r].scope /\ ended.status # "WAITING_FOR_APPROVAL"
        BY <2>1, <4>2, <4>3 DEF read, Outcomes
      <4>. QED
        BY <4>1, <4>3, <4>4, <4>5
    <3>. QED
      BY <3>2, <3>3
  <2> HIDE DEF IInv
  <2>3. /\ runs' = [runs EXCEPT ![r] = Rewritten(writer[r])]
        /\ writer' = [writer EXCEPT ![r] = None]
        /\ UNCHANGED <<generations, tickets, calls>>
    BY <1>5 DEF FinishWrite
  <2>4. RequestIsBound'
    BY <2>2, <2>3 DEF IInv, RequestIsBound, HasCurrentGeneration, TypeOK
  <2>5. WaitingIsQuiet' /\ WriterReadRecord'
    BY <2>2, <2>3 DEF IInv, WaitingIsQuiet, WriterReadRecord, TypeOK
  <2>6. ConsumedWasApproved'
    BY <2>1, <2>2, <2>3 DEF IInv, ConsumedWasApproved, TypeOK
  <2>. QED
    BY <2>3, <2>4, <2>5, <2>6
       DEF IInv, ClaimIsExclusive, EffectIsClaimed, TicketIsEffect, AnswersAreTrue
<1>6. ASSUME AbandonWrite(r) PROVE IInv'
  <2>1. WaitingIsQuiet' /\ WriterReadRecord'
    BY <1>6 DEF AbandonWrite, WaitingIsQuiet, WriterReadRecord, TypeOK
  <2>. QED
    BY <1>6, <2>1
       DEF AbandonWrite, RequestIsBound, HasCurrentGeneration, ConsumedWasApproved,
           ClaimIsExclusive, EffectIsClaimed, TicketIsEffect, AnswersAreTrue
<1>. QED
  BY <1>1, <1>2, <1>3, <1>4, <1>5, <1>6 DEF ApiStep

(* A call moves on: it keeps its arguments, the other calls stay.          *)
Moves(c, pc, effect) ==
    /\ calls[c] # None
    /\ calls'[c] # None
    /\ calls'[c].run = calls[c].run
    /\ calls'[c].id = calls[c].id
    /\ calls'[c].proposal = calls[c].proposal
    /\ calls'[c].clearance = calls[c].clearance
    /\ calls'[c].claimed = calls[c].claimed
    /\ calls'[c].pc = pc
    /\ calls'[c].effect = effect
    /\ \A d \in Calls : d # c => calls'[d] = calls[d]

LEMMA CallMoves ==
  ASSUME TypeOK, NEW c \in Calls, calls[c] # None,
         NEW pc \in {"owned", "lookup", "read", "ok", "denied", "unknown"}, NEW e \in BOOLEAN,
         calls' = [calls EXCEPT ![c] = [calls[c] EXCEPT !.pc = pc, !.effect = e]]
  PROVE  Moves(c, pc, e)
<1> DEFINE moved == [calls[c] EXCEPT !.pc = pc, !.effect = e]
<1>1. calls[c] \in Call
  BY DEF TypeOK
<1>2. calls' = [calls EXCEPT ![c] = moved]
  OBVIOUS
<1>3. moved \in Call
  BY <1>1 DEF Call
<1>4. moved # None
  BY <1>3, NoneAssumption
<1>5. /\ moved.run = calls[c].run
      /\ moved.id = calls[c].id
      /\ moved.proposal = calls[c].proposal
      /\ moved.clearance = calls[c].clearance
      /\ moved.claimed = calls[c].claimed
      /\ moved.pc = pc
      /\ moved.effect = e
  BY <1>1 DEF Call
<1> HIDE DEF moved
<1>6. calls'[c] = moved /\ \A d \in Calls : d # c => calls'[d] = calls[d]
  BY <1>2 DEF TypeOK
<1>. QED
  BY <1>4, <1>5, <1>6 DEF Moves

(* A call that moves on without an effect, unless it holds the claim,      *)
(* keeps the parts of IInv that speak of the store and of the claims.      *)
LEMMA MovesKeepsStore ==
  ASSUME IInv, TypeOK', NEW c \in Calls, NEW pc, NEW e \in BOOLEAN, Moves(c, pc, e),
         UNCHANGED <<runs, generations, writer>>,
         e => calls[c].claimed,
         pc = "owned" => calls[c].claimed,
         pc \in {"owned", "lookup", "read", "denied"} => ~ e,
         TicketIsEffect', AnswersAreTrue'
  PROVE  IInv'
<1>1. RequestIsBound' /\ WaitingIsQuiet' /\ WriterReadRecord' /\ ConsumedWasApproved'
  BY DEF IInv, RequestIsBound, HasCurrentGeneration, WaitingIsQuiet, WriterReadRecord,
         ConsumedWasApproved
<1>2. ClaimIsExclusive'
  BY DEF IInv, ClaimIsExclusive, Moves
<1>3. EffectIsClaimed'
  BY DEF IInv, EffectIsClaimed, Moves
<1>. QED
  BY <1>1, <1>2, <1>3 DEF IInv

(* The answers need no more than the tickets they speak of.                *)
LEMMA AnswersFollow ==
  ASSUME TypeOK', TicketIsEffect',
         \A d \in Calls : calls'[d] # None =>
            /\ calls'[d].pc = "denied" => ~ calls'[d].effect
            /\ (/\ calls'[d].pc = "ok"
                /\ calls'[d].proposal.action = "create_maintenance_ticket")
               => /\ tickets'[calls'[d].run][calls'[d].id] # None
                  /\ tickets'[calls'[d].run][calls'[d].id].target = calls'[d].proposal.target
  PROVE  AnswersAreTrue'
<1>1. \A d \in Calls : calls'[d] # None => calls'[d].run \in Runs /\ calls'[d].id \in Gens
  BY DEF TypeOK, Call
<1>. QED
  BY <1>1 DEF AnswersAreTrue, TicketIsEffect

(* The steps of a tool call keep the strengthened invariant.               *)
LEMMA ToolStepKeepsIInv == ASSUME IInv, NEW c \in Calls, ToolStep(c), TypeOK' PROVE IInv'
<1> USE DEF IInv
<1>1. ASSUME NEW r \in Runs, NEW g \in Gens, NEW p \in Proposals, NEW cl \in WriteClearances,
             ClaimApproved(c, r, g, p, cl)
      PROVE IInv'
  <2>1. PICK pc \in {"owned", "unknown"} :
          /\ calls[c] = None
          /\ MayClaim(NewCall(r, g, p, cl, pc, TRUE))
          /\ calls' = [calls EXCEPT ![c] = NewCall(r, g, p, cl, pc, TRUE)]
          /\ runs' = [runs EXCEPT ![r] = [@ EXCEPT !.request = None]]
          /\ generations' = [generations EXCEPT ![r][g] =
                                [generations[r][g] EXCEPT !.consumed = TRUE]]
          /\ UNCHANGED <<writer, tickets>>
    BY <1>1 DEF ClaimApproved
  <2>2. /\ runs[r] # None
        /\ runs[r].status = "RUNNING"
        /\ generations[r][g] # None
        /\ ~ generations[r][g].consumed
        /\ generations[r][g].scope = runs[r].scope
        /\ generations[r][g].proposal = p
        /\ generations[r][g].decision = "approve"
        /\ generations[r][g].approver >= runs[r].scope.classification
        /\ runs[r].scope.classification <= cl
        /\ IsActionProfileAuthorized(p.action, runs[r].scope)
    BY <2>1 DEF MayClaim, NewCall, MatchesProtectedActionApproval, MatchesApprovalGeneration,
                IsRunVisible, TypeOK, History, Generation
  <2>3. /\ runs'[r] # None
        /\ runs'[r].request = None
        /\ runs'[r].status = "RUNNING"
        /\ runs'[r].scope = runs[r].scope
        /\ \A q \in Runs : q # r => runs'[q] = runs[q]
    <3>1. runs[r] \in Run
      BY <2>2 DEF TypeOK
    <3>2. runs'[r] = [runs[r] EXCEPT !.request = None]
      BY <2>1 DEF TypeOK
    <3>3. runs'[r] \in Run
      BY <3>1, <3>2 DEF Run
    <3>4. runs'[r] # None
      BY <3>3, NoneAssumption
    <3>. QED
      BY <2>1, <2>2, <3>1, <3>2, <3>4 DEF Run, TypeOK
  <2>4. /\ generations'[r][g] # None
        /\ generations'[r][g].consumed
        /\ generations'[r][g].scope = runs[r].scope
        /\ generations'[r][g].proposal = p
        /\ generations'[r][g].decision = "approve"
        /\ generations'[r][g].approver = generations[r][g].approver
    <3>1. generations[r][g] \in Generation
      BY <2>2 DEF TypeOK, History
    <3>2. generations'[r][g] = [generations[r][g] EXCEPT !.consumed = TRUE]
      BY <2>1 DEF TypeOK, History
    <3>3. generations'[r][g] \in Generation
      BY <3>1, <3>2 DEF Generation
    <3>4. generations'[r][g] # None
      BY <3>3, NoneAssumption
    <3>. QED
      BY <2>2, <3>1, <3>2, <3>4 DEF Generation
  <2>5. \A q \in Runs, h \in Gens : <<q, h>> # <<r, g>> => generations'[q][h] = generations[q][h]
    BY <2>1 DEF TypeOK, History
  <2>6. /\ calls'[c].run = r /\ calls'[c].id = g /\ calls'[c].proposal = p
        /\ calls'[c].clearance = cl /\ calls'[c].claimed /\ ~ calls'[c].effect
        /\ calls'[c].pc = pc
        /\ \A d \in Calls : d # c => calls'[d] = calls[d]
    BY <2>1 DEF NewCall, TypeOK
  <2>7. RequestIsBound'
    <3> SUFFICES ASSUME NEW q \in Runs, runs'[q] # None, runs'[q].request # None
                 PROVE  /\ HasCurrentGeneration(runs'[q], generations'[q])
                        /\ generations'[q][runs'[q].request.id].decision = runs'[q].decision
                        /\ ~ generations'[q][runs'[q].request.id].consumed
      BY DEF RequestIsBound, HasCurrentGeneration
    <3>1. q # r
      BY <2>3
    <3>2. runs[q] \in Run /\ runs'[q] = runs[q] /\ runs[q].request.id \in Gens
      BY <3>1, <2>3 DEF TypeOK, Run, Request
    <3>. QED
      BY <3>1, <3>2, <2>5 DEF HasCurrentGeneration, RequestIsBound
  <2>8. WaitingIsQuiet' /\ WriterReadRecord'
    BY <2>1, <2>2, <2>3 DEF WaitingIsQuiet, WriterReadRecord
  <2>9. ConsumedWasApproved'
    BY <2>2, <2>3, <2>4, <2>5 DEF ConsumedWasApproved
  <2>10. ClaimIsExclusive'
    <3>1. \A d \in Calls : calls'[d] # None /\ calls'[d].claimed =>
             /\ generations'[calls'[d].run][calls'[d].id] # None
             /\ generations'[calls'[d].run][calls'[d].id].consumed
             /\ generations'[calls'[d].run][calls'[d].id].proposal = calls'[d].proposal
             /\ generations'[calls'[d].run][calls'[d].id].scope.classification
                    <= calls'[d].clearance
      <4> SUFFICES ASSUME NEW d \in Calls, calls'[d] # None, calls'[d].claimed
                   PROVE  /\ generations'[calls'[d].run][calls'[d].id] # None
                          /\ generations'[calls'[d].run][calls'[d].id].consumed
                          /\ generations'[calls'[d].run][calls'[d].id].proposal
                                = calls'[d].proposal
                          /\ generations'[calls'[d].run][calls'[d].id].scope.classification
                                <= calls'[d].clearance
        OBVIOUS
      <4>1. CASE d = c
        BY <4>1, <2>2, <2>4, <2>6
      <4>2. CASE d # c
        <5>1. calls'[d] = calls[d] /\ calls[d].run \in Runs /\ calls[d].id \in Gens
          BY <4>2, <2>6 DEF TypeOK, Call
        <5>2. <<calls[d].run, calls[d].id>> # <<r, g>>
          BY <5>1, <2>2 DEF ClaimIsExclusive
        <5>. QED
          BY <5>1, <5>2, <2>5 DEF ClaimIsExclusive
      <4>. QED
        BY <4>1, <4>2
    <3>2. \A d \in Calls : calls[d] # None /\ calls[d].claimed
                            => ~ (calls[d].run = r /\ calls[d].id = g)
      BY <2>2 DEF ClaimIsExclusive
    <3>. QED
      BY <3>1, <3>2, <2>6 DEF ClaimIsExclusive
  <2>11. EffectIsClaimed'
    BY <2>6 DEF EffectIsClaimed
  <2>12. calls[c] = None /\ UNCHANGED <<writer, tickets>>
    BY <2>1
  <2>13. TicketIsEffect'
    BY <2>6, <2>12 DEF TicketIsEffect
  <2>14. AnswersAreTrue'
    BY <2>6, <2>12, <2>13, AnswersFollow DEF AnswersAreTrue
  <2>. QED
    BY <2>7, <2>8, <2>9, <2>10, <2>11, <2>13, <2>14
<1>2. ASSUME NEW r \in Runs, NEW g \in Gens, NEW p \in Proposals, NEW cl \in WriteClearances,
             ClaimRefused(c, r, g, p, cl)
      PROVE IInv'
  <2>1. PICK pc \in {"lookup", "denied"} :
          /\ calls[c] = None
          /\ calls' = [calls EXCEPT ![c] = NewCall(r, g, p, cl, pc, FALSE)]
          /\ UNCHANGED <<runs, generations, writer, tickets>>
    BY <1>2 DEF ClaimRefused
  <2>2. /\ calls'[c].pc = pc /\ ~ calls'[c].claimed /\ ~ calls'[c].effect
        /\ \A d \in Calls : d # c => calls'[d] = calls[d]
    BY <2>1 DEF NewCall, TypeOK
  <2>3. calls[c] = None /\ UNCHANGED <<runs, generations, writer, tickets>>
    BY <2>1
  <2>4. RequestIsBound' /\ WaitingIsQuiet' /\ WriterReadRecord' /\ ConsumedWasApproved'
    BY <2>3 DEF RequestIsBound, HasCurrentGeneration, WaitingIsQuiet, WriterReadRecord,
                ConsumedWasApproved
  <2>5. ClaimIsExclusive'
    BY <2>2, <2>3 DEF ClaimIsExclusive
  <2>6. EffectIsClaimed'
    BY <2>2 DEF EffectIsClaimed
  <2>7. TicketIsEffect'
    BY <2>2, <2>3 DEF TicketIsEffect
  <2>8. AnswersAreTrue'
    BY <2>2, <2>3, <2>7, AnswersFollow DEF AnswersAreTrue
  <2>. QED
    BY <2>4, <2>5, <2>6, <2>7, <2>8
<1>3. ASSUME LookupConsumed(c) PROVE IInv'
  <2>1. calls[c] # None /\ calls[c].pc = "lookup" /\ UNCHANGED <<runs, generations, writer, tickets>>
    BY <1>3 DEF LookupConsumed
  <2>2. calls[c] \in Call /\ calls[c].effect = FALSE
    BY <2>1 DEF EffectIsClaimed, TypeOK, Call
  <2>3. PICK pc \in {"read", "denied"} : calls' = [calls EXCEPT ![c] = [@ EXCEPT !.pc = pc]]
    BY <1>3 DEF LookupConsumed
  <2>4. [calls[c] EXCEPT !.pc = pc] = [calls[c] EXCEPT !.pc = pc, !.effect = FALSE]
    BY <2>2 DEF Call
  <2>5. Moves(c, pc, FALSE)
    BY <2>1, <2>3, <2>4, CallMoves
  <2>6. TicketIsEffect' /\ AnswersAreTrue'
    BY <2>1, <2>2, <2>5 DEF Moves, TicketIsEffect, AnswersAreTrue
  <2>. QED
    BY <2>1, <2>5, <2>6, MovesKeepsStore
<1>4. ASSUME WriteTicket(c) PROVE IInv'
  <2> DEFINE r == calls[c].run
             g == calls[c].id
             target == calls[c].proposal.target
             written == [target |-> target, classification |-> calls[c].clearance]
             ticket == IF tickets[r][g] = None THEN written ELSE tickets[r][g]
             e == tickets[r][g] = None
  <2>1. /\ calls[c] # None
        /\ calls[c].pc = "owned"
        /\ calls[c].proposal.action = "create_maintenance_ticket"
        /\ UNCHANGED <<runs, generations, writer>>
        /\ tickets' = [tickets EXCEPT ![r][g] = ticket]
    BY <1>4 DEF WriteTicket
  <2>2. /\ calls[c] \in Call /\ calls[c].claimed /\ ~ calls[c].effect
        /\ r \in Runs /\ g \in Gens /\ e \in BOOLEAN
    BY <2>1 DEF EffectIsClaimed, TypeOK, Call
  <2>3. PICK pc \in {IF ticket.target = target THEN "ok" ELSE "denied", "unknown"} :
             calls' = [calls EXCEPT ![c] = [calls[c] EXCEPT !.pc = pc, !.effect = e]]
    BY <1>4 DEF WriteTicket
  <2>4. Moves(c, pc, e)
    BY <2>1, <2>2, <2>3, CallMoves
  <2>5. /\ tickets'[r][g] = ticket
        /\ \A q \in Runs, h \in Gens : <<q, h>> # <<r, g>> => tickets'[q][h] = tickets[q][h]
    BY <2>1, <2>2 DEF TypeOK
  <2>6. written \in Ticket /\ written # None /\ written.target = target
    <3>1. written \in Ticket /\ written.target = target
      BY <2>2 DEF Call, Ticket, Targets
    <3>. QED
      BY <3>1, NoneAssumption
  <2>7. ticket # None
    BY <2>6
  <2>8. pc = "denied" => ~ e
    BY <2>3, <2>6
  <2>9. \A d \in Calls : calls[d] # None /\ calls[d].effect =>
           /\ calls'[d] # None /\ calls'[d].effect
           /\ calls'[d].run = calls[d].run /\ calls'[d].id = calls[d].id
    BY <2>2, <2>4 DEF Moves
  <2>10. e => calls'[c] # None /\ calls'[c].effect /\ calls'[c].run = r /\ calls'[c].id = g
    BY <2>4 DEF Moves
  <2>11. \A q \in Runs, h \in Gens : tickets[q][h] # None => tickets'[q][h] = tickets[q][h]
    BY <2>5
  <2> HIDE DEF r, g, target, written, ticket, e
  <2>12. TicketIsEffect'
    <3> SUFFICES ASSUME NEW q \in Runs, NEW h \in Gens, tickets'[q][h] # None
                 PROVE  \E d \in Calls : /\ calls'[d] # None
                                         /\ calls'[d].effect
                                         /\ calls'[d].run = q
                                         /\ calls'[d].id = h
      BY DEF TicketIsEffect
    <3>1. CASE tickets[q][h] # None
      BY <3>1, <2>9 DEF TicketIsEffect
    <3>2. CASE tickets[q][h] = None
      <4>1. q = r /\ h = g /\ e
        BY <3>2, <2>5 DEF e
      <4>. QED
        BY <4>1, <2>10
    <3>. QED
      BY <3>1, <3>2
  <2>13. AnswersAreTrue'
    <3> SUFFICES ASSUME NEW d \in Calls, calls'[d] # None
                 PROVE  /\ calls'[d].pc = "denied" => ~ calls'[d].effect
                        /\ (/\ calls'[d].pc = "ok"
                            /\ calls'[d].proposal.action = "create_maintenance_ticket")
                           => /\ tickets'[calls'[d].run][calls'[d].id] # None
                              /\ tickets'[calls'[d].run][calls'[d].id].target
                                    = calls'[d].proposal.target
      BY <2>12, AnswersFollow
    <3>1. CASE d = c
      <4>1. pc = "ok" => ticket.target = target
        BY <2>3
      <4>. QED
        BY <3>1, <4>1, <2>4, <2>5, <2>7, <2>8 DEF Moves, r, g, target
    <3>2. CASE d # c
      <4>1. calls'[d] = calls[d] /\ calls[d].run \in Runs /\ calls[d].id \in Gens
        BY <3>2, <2>4 DEF Moves, TypeOK, Call
      <4>. QED
        BY <4>1, <2>11 DEF AnswersAreTrue
    <3>. QED
      BY <3>1, <3>2
  <2>14. e => calls[c].claimed
    BY <2>2
  <2>15. pc = "owned" => calls[c].claimed
    BY <2>2
  <2>16. pc \in {"owned", "lookup", "read", "denied"} => ~ e
    BY <2>3, <2>8
  <2>. QED
    BY <2>1, <2>2, <2>4, <2>12, <2>13, <2>14, <2>15, <2>16, MovesKeepsStore
<1>5. ASSUME ReadTicket(c) PROVE IInv'
  <2>1. calls[c] # None /\ calls[c].pc = "read" /\ UNCHANGED <<runs, generations, writer, tickets>>
    BY <1>5 DEF ReadTicket
  <2>2. calls[c] \in Call /\ calls[c].effect = FALSE
    BY <2>1 DEF EffectIsClaimed, TypeOK, Call
  <2>3. PICK pc \in {"ok", "denied"} : calls' = [calls EXCEPT ![c] = [@ EXCEPT !.pc = pc]]
    BY <1>5 DEF ReadTicket
  <2>4. [calls[c] EXCEPT !.pc = pc] = [calls[c] EXCEPT !.pc = pc, !.effect = FALSE]
    BY <2>2 DEF Call
  <2>5. Moves(c, pc, FALSE)
    BY <2>1, <2>3, <2>4, CallMoves
  <2>6. TicketIsEffect'
    BY <2>1, <2>2, <2>5 DEF Moves, TicketIsEffect
  <2>7. pc = "ok" =>
          /\ tickets[calls[c].run][calls[c].id] # None
          /\ tickets[calls[c].run][calls[c].id].target = calls[c].proposal.target
    <3>1. calls'[c].pc = pc
      BY <2>5 DEF Moves
    <3>. QED
      BY <1>5, <2>2, <3>1 DEF ReadTicket, TypeOK, Call
  <2>8. AnswersAreTrue'
    <3> SUFFICES ASSUME NEW d \in Calls, calls'[d] # None
                 PROVE  /\ calls'[d].pc = "denied" => ~ calls'[d].effect
                        /\ (/\ calls'[d].pc = "ok"
                            /\ calls'[d].proposal.action = "create_maintenance_ticket")
                           => /\ tickets'[calls'[d].run][calls'[d].id] # None
                              /\ tickets'[calls'[d].run][calls'[d].id].target
                                    = calls'[d].proposal.target
      BY <2>6, AnswersFollow
    <3>. QED
      BY <2>1, <2>5, <2>7 DEF Moves, AnswersAreTrue
  <2>. QED
    BY <2>1, <2>5, <2>6, <2>8, MovesKeepsStore
<1>6. ASSUME Calibrate(c) PROVE IInv'
  <2>1. /\ calls[c] # None
        /\ calls[c].pc = "owned"
        /\ calls[c].proposal.action = "execute_reference_calibration"
        /\ UNCHANGED <<runs, generations, writer, tickets>>
    BY <1>6 DEF Calibrate
  <2>2. calls[c] \in Call /\ calls[c].effect = FALSE /\ calls[c].claimed
    BY <2>1 DEF EffectIsClaimed, TypeOK, Call
  <2>3. PICK e \in BOOLEAN, pc \in {"ok", "unknown"} :
             calls' = [calls EXCEPT ![c] = [calls[c] EXCEPT !.pc = pc, !.effect = e]]
    BY <1>6 DEF Calibrate
  <2>4. Moves(c, pc, e)
    BY <2>1, <2>3, CallMoves
  <2>5. TicketIsEffect'
    BY <2>1, <2>2, <2>4 DEF Moves, TicketIsEffect
  <2>6. AnswersAreTrue'
    <3> SUFFICES ASSUME NEW d \in Calls, calls'[d] # None
                 PROVE  /\ calls'[d].pc = "denied" => ~ calls'[d].effect
                        /\ (/\ calls'[d].pc = "ok"
                            /\ calls'[d].proposal.action = "create_maintenance_ticket")
                           => /\ tickets'[calls'[d].run][calls'[d].id] # None
                              /\ tickets'[calls'[d].run][calls'[d].id].target
                                    = calls'[d].proposal.target
      BY <2>5, AnswersFollow
    <3>. QED
      BY <2>1, <2>4 DEF Moves, AnswersAreTrue
  <2>. QED
    BY <2>1, <2>2, <2>4, <2>5, <2>6, MovesKeepsStore
<1>7. ASSUME LoseCall(c) PROVE IInv'
  <2>1. /\ calls[c] # None
        /\ calls[c].pc \in {"owned", "lookup", "read"}
        /\ calls' = [calls EXCEPT ![c] = [@ EXCEPT !.pc = "unknown"]]
        /\ UNCHANGED <<runs, generations, writer, tickets>>
    BY <1>7 DEF LoseCall
  <2>2. calls[c] \in Call /\ calls[c].effect = FALSE
    BY <2>1 DEF EffectIsClaimed, TypeOK, Call
  <2>3. [calls[c] EXCEPT !.pc = "unknown"] = [calls[c] EXCEPT !.pc = "unknown", !.effect = FALSE]
    BY <2>2 DEF Call
  <2>4. Moves(c, "unknown", FALSE)
    BY <2>1, <2>3, CallMoves
  <2>5. TicketIsEffect' /\ AnswersAreTrue'
    BY <2>1, <2>2, <2>4 DEF Moves, TicketIsEffect, AnswersAreTrue
  <2>. QED
    BY <2>1, <2>4, <2>5, MovesKeepsStore
<1>. QED
  BY <1>1, <1>2, <1>3, <1>4, <1>5, <1>6, <1>7 DEF ToolStep

(* Every step keeps the strengthened invariant.                            *)
LEMMA IInvInductive == IInv /\ [Next]_vars => IInv'
<1> SUFFICES ASSUME IInv, [Next]_vars PROVE IInv'
  OBVIOUS
<1>1. TypeOK'
  BY TypeInductive DEF IInv
<1>2. CASE \E r \in Runs : ApiStep(r)
  BY <1>1, <1>2, ApiStepKeepsIInv
<1>3. CASE \E c \in Calls : ToolStep(c)
  BY <1>1, <1>3, ToolStepKeepsIInv
<1>4. CASE UNCHANGED vars
  BY <1>1, <1>4 DEF vars, IInv, RequestIsBound, HasCurrentGeneration, WaitingIsQuiet,
                    WriterReadRecord, ConsumedWasApproved, ClaimIsExclusive,
                    EffectIsClaimed, TicketIsEffect, AnswersAreTrue
<1>. QED
  BY <1>2, <1>3, <1>4 DEF Next

(* The strengthened invariant is one.                                      *)
THEOREM StrengthenedInvariant == Spec => []IInv
  BY InitIInv, IInvInductive, PTL DEF Spec

(* Every effect is the proposal a cleared human approved.                  *)
THEOREM ApprovedEffectsOnly == Spec => []EffectsAuthorized
<1>1. IInv => EffectsAuthorized
  BY DEF IInv, EffectsAuthorized, ClaimIsExclusive, EffectIsClaimed, ConsumedWasApproved,
         TypeOK, Call
<1>. QED
  BY <1>1, StrengthenedInvariant, PTL

(* One approval has at most one effect.                                    *)
THEOREM OneEffectPerApproval == Spec => []AtMostOneEffect
<1>1. IInv => AtMostOneEffect
  BY DEF IInv, AtMostOneEffect, ClaimIsExclusive, EffectIsClaimed
<1>. QED
  BY <1>1, StrengthenedInvariant, PTL

(* No caller is told of a ticket that does not exist, or denied after an   *)
(* effect.                                                                 *)
THEOREM TrueAnswers == Spec => []AnswersAreTrue
<1>1. IInv => AnswersAreTrue
  BY DEF IInv
<1>. QED
  BY <1>1, StrengthenedInvariant, PTL

(* A waiting run can be decided.                                           *)
THEOREM WaitingCanBeDecided == Spec => []WaitingIsDecidable
<1>1. IInv => WaitingIsDecidable
  BY DEF IInv, WaitingIsDecidable, RequestIsBound, WaitingIsQuiet
<1>. QED
  BY <1>1, StrengthenedInvariant, PTL
-----------------------------------------------------------------------------
(* What a step may do to a generation.                                     *)
Kept(r, g) == generations'[r][g] = generations[r][g]

Proposed(r, g) ==
    /\ generations[r][g] = None
    /\ generations'[r][g] # None
    /\ generations'[r][g].proposal \in Proposals
    /\ generations'[r][g].decision = None

Decided(r, g) ==
    /\ generations[r][g] # None
    /\ generations'[r][g] # None
    /\ generations[r][g].decision = None
    /\ ~ generations[r][g].consumed
    /\ generations'[r][g].decision \in Decisions
    /\ generations'[r][g].proposal = generations[r][g].proposal
    /\ ~ generations'[r][g].consumed

Consumed(r, g) ==
    /\ generations[r][g] # None
    /\ generations'[r][g] # None
    /\ generations[r][g].decision = "approve"
    /\ ~ generations[r][g].consumed
    /\ generations'[r][g].decision = "approve"
    /\ generations'[r][g].approver = generations[r][g].approver
    /\ generations'[r][g].proposal = generations[r][g].proposal
    /\ generations'[r][g].consumed

(* All other generations are kept.                                         *)
OthersKept(r, g) == \A q \in Runs, h \in Gens : <<q, h>> # <<r, g>> => Kept(q, h)

LEMMA WaitForApprovalProposes ==
  ASSUME IInv, NEW r \in Runs, NEW g \in Gens, NEW p \in Proposals, WaitForApproval(r, g, p)
  PROVE  Proposed(r, g) /\ OthersKept(r, g)
<1> DEFINE generation == [scope |-> runs[r].scope, proposal |-> p, decision |-> None,
                          approver |-> None, consumed |-> FALSE]
<1>1. runs[r] \in Run /\ generations[r][g] = None
  BY DEF WaitForApproval, HandlerMayWrite, IInv, TypeOK
<1>2. generation \in Generation
  BY <1>1 DEF Run, Generation
<1>3. generation # None
  BY <1>2, NoneAssumption
<1>4. generations' = [generations EXCEPT ![r][g] = generation]
  BY DEF WaitForApproval
<1>5. generation.proposal \in Proposals /\ generation.decision = None
  OBVIOUS
<1> HIDE DEF generation
<1>. QED
  BY <1>1, <1>3, <1>4, <1>5 DEF Proposed, OthersKept, Kept, IInv, TypeOK, History

LEMMA ClaimResumeDecides ==
  ASSUME IInv, NEW r \in Runs, NEW g \in Gens, NEW d \in Decisions, NEW cl \in UserClearances,
         ClaimResume(r, g, d, cl)
  PROVE  Decided(r, g) /\ OthersKept(r, g)
<1> DEFINE generation == [generations[r][g] EXCEPT !.decision = d, !.approver = cl]
<1>1. /\ generations[r][g] \in Generation
      /\ generations[r][g].decision = None
      /\ ~ generations[r][g].consumed
  BY DEF ClaimResume, HasCurrentGeneration, RequestIsBound, WaitingIsQuiet, IInv, TypeOK, History
<1>2. generation \in Generation
  BY <1>1 DEF Generation
<1>3. generation # None /\ generations[r][g] # None
  BY <1>1, <1>2, NoneAssumption
<1>4. generations' = [generations EXCEPT ![r][g] = generation]
  BY DEF ClaimResume
<1>5. /\ generation.proposal = generations[r][g].proposal
      /\ generation.decision = d
      /\ ~ generation.consumed
  BY <1>1 DEF Generation
<1> HIDE DEF generation
<1>. QED
  BY <1>1, <1>3, <1>4, <1>5 DEF Decided, OthersKept, Kept, IInv, TypeOK, History

LEMMA ClaimApprovedConsumes ==
  ASSUME IInv, NEW c \in Calls, NEW r \in Runs, NEW g \in Gens, NEW p \in Proposals,
         NEW cl \in WriteClearances, ClaimApproved(c, r, g, p, cl)
  PROVE  Consumed(r, g) /\ OthersKept(r, g)
<1> DEFINE generation == [generations[r][g] EXCEPT !.consumed = TRUE]
<1>1. /\ generations[r][g] \in Generation
      /\ generations[r][g].decision = "approve"
      /\ ~ generations[r][g].consumed
  BY DEF ClaimApproved, MayClaim, NewCall, MatchesProtectedActionApproval,
         MatchesApprovalGeneration, IInv, TypeOK, History, Generation
<1>2. generation \in Generation
  BY <1>1 DEF Generation
<1>3. generation # None /\ generations[r][g] # None
  BY <1>1, <1>2, NoneAssumption
<1>4. generations' = [generations EXCEPT ![r][g] = generation]
  BY DEF ClaimApproved
<1>5. /\ generation.proposal = generations[r][g].proposal
      /\ generation.decision = "approve"
      /\ generation.approver = generations[r][g].approver
      /\ generation.consumed
  BY <1>1 DEF Generation
<1> HIDE DEF generation
<1>. QED
  BY <1>1, <1>3, <1>4, <1>5 DEF Consumed, OthersKept, Kept, IInv, TypeOK, History

(* A step does not rewrite the history of a generation.                    *)
LEMMA StepKeepsHistory ==
  ASSUME IInv, [Next]_vars, NEW r \in Runs, NEW g \in Gens PROVE HistoryKept(r, g)
<1>1. ASSUME NEW q \in Runs, NEW h \in Gens, OthersKept(q, h),
             Proposed(q, h) \/ Decided(q, h) \/ Consumed(q, h)
      PROVE  HistoryKept(r, g)
  <2>1. CASE <<r, g>> = <<q, h>>
    <3>1. r = q /\ g = h
      BY <2>1
    <3>. QED
      BY <1>1, <3>1, NoneAssumption DEF Proposed, Decided, Consumed, HistoryKept
  <2>2. CASE <<r, g>> # <<q, h>>
    BY <1>1, <2>2 DEF OthersKept, Kept, HistoryKept
  <2>. QED
    BY <2>1, <2>2
<1>2. CASE UNCHANGED generations
  BY <1>2 DEF HistoryKept
<1>3. ASSUME NEW q \in Runs, ApiStep(q) PROVE HistoryKept(r, g)
  <2>1. CASE \E h \in Gens, p \in Proposals : WaitForApproval(q, h, p)
    BY <2>1, <1>1, WaitForApprovalProposes
  <2>2. CASE \E h \in Gens, d \in Decisions, cl \in UserClearances : ClaimResume(q, h, d, cl)
    BY <2>2, <1>1, ClaimResumeDecides
  <2>3. CASE UNCHANGED generations
    BY <2>3, <1>2, ZenonT(50)
  <2>. QED
    BY <1>3, <2>1, <2>2, <2>3 DEF ApiStep, Create, BeginWrite, FinishWrite, AbandonWrite
<1>4. ASSUME NEW c \in Calls, ToolStep(c) PROVE HistoryKept(r, g)
  <2>1. CASE \E q \in Runs, h \in Gens, p \in Proposals, cl \in WriteClearances :
               ClaimApproved(c, q, h, p, cl)
    BY <2>1, <1>1, ClaimApprovedConsumes
  <2>2. CASE UNCHANGED generations
    BY <2>2, <1>2
  <2>. QED
    BY <1>4, <2>1, <2>2
       DEF ToolStep, ClaimRefused, LookupConsumed, WriteTicket, ReadTicket, Calibrate, LoseCall
<1>. QED
  BY <1>2, <1>3, <1>4 DEF Next, vars

(* Proposals, decisions and consumption are never undone.                  *)
THEOREM GenerationsAreNeverRewritten == Spec => GenerationsAreHistory
<1>1. IInv /\ [Next]_vars => [\A r \in Runs, g \in Gens : HistoryKept(r, g)]_vars
  BY StepKeepsHistory
<1>. QED
  BY <1>1, StrengthenedInvariant, PTL DEF Spec, GenerationsAreHistory

-----------------------------------------------------------------------------
(* What is there stays there: for a module that drives the store.          *)
RunsContinue ==
    \A r \in Runs : runs[r] # None =>
        /\ runs'[r] # None
        /\ runs'[r].scope = runs[r].scope
        /\ runs[r].status \in Outcomes => runs'[r].status = runs[r].status

TicketsContinue ==
    \A r \in Runs, g \in Gens : tickets[r][g] # None => tickets'[r][g] = tickets[r][g]

CallsContinue ==
    \A c \in Calls : calls[c] # None =>
        /\ calls'[c] # None
        /\ calls'[c].run = calls[c].run
        /\ calls'[c].id = calls[c].id
        /\ calls'[c].proposal = calls[c].proposal

Continues ==
    /\ \A r \in Runs, g \in Gens : HistoryKept(r, g)
    /\ RunsContinue
    /\ TicketsContinue
    /\ CallsContinue

(* The API leaves calls and tickets alone.                                 *)
LEMMA ApiLeavesTheFactory == ASSUME NEW r \in Runs, ApiStep(r) PROVE UNCHANGED <<tickets, calls>>
<1>1. ASSUME NEW s \in RunScopes, Create(r, s) PROVE UNCHANGED <<tickets, calls>>
  BY <1>1 DEF Create
<1>2. ASSUME NEW g \in Gens, NEW p \in Proposals, WaitForApproval(r, g, p)
      PROVE  UNCHANGED <<tickets, calls>>
  BY <1>2 DEF WaitForApproval
<1>3. ASSUME NEW g \in Gens, NEW d \in Decisions, NEW cl \in UserClearances,
             ClaimResume(r, g, d, cl)
      PROVE  UNCHANGED <<tickets, calls>>
  BY <1>3 DEF ClaimResume
<1>. QED
  BY <1>1, <1>2, <1>3 DEF ApiStep, BeginWrite, FinishWrite, AbandonWrite

(* A changed record is the stored one, or the one that was read, with      *)
(* other fields: its scope stays, and who ended it was the last to write.  *)
LEMMA StepKeepsRuns == ASSUME IInv, [Next]_vars PROVE RunsContinue
<1>1. TypeOK
  BY DEF IInv
<1>2. ASSUME NEW q \in Runs, NEW run \in Run, runs[q] # None => run.scope = runs[q].scope,
             runs[q] # None /\ runs[q].status \in Outcomes => run.status = runs[q].status,
             runs' = [runs EXCEPT ![q] = run]
      PROVE  RunsContinue
  BY <1>1, <1>2, NoneAssumption DEF TypeOK, RunsContinue
<1>3. CASE UNCHANGED runs
  BY <1>3 DEF RunsContinue
<1>4. ASSUME NEW r \in Runs, ApiStep(r) PROVE RunsContinue
  <2>1. ASSUME NEW g \in Gens, NEW p \in Proposals, WaitForApproval(r, g, p)
        PROVE  RunsContinue
    <3> DEFINE run == [runs[r] EXCEPT !.status = "WAITING_FOR_APPROVAL",
                                      !.request = [id |-> g, proposal |-> p],
                                      !.action = p.action, !.decision = None,
                                      !.approver = None]
    <3>1. p.action \in ActionNames /\ [id |-> g, proposal |-> p] \in Request
      BY ConstantsAssumption DEF Request
    <3>2. runs[r] \in Run
      BY <1>1, <2>1 DEF WaitForApproval, HandlerMayWrite, TypeOK
    <3>3. run \in Run /\ run.scope = runs[r].scope
      BY <3>1, <3>2 DEF Run, Statuses
    <3>4. runs' = [runs EXCEPT ![r] = run]
      BY <2>1 DEF WaitForApproval
    <3>5. runs[r].status \notin Outcomes
      BY <2>1 DEF WaitForApproval, HandlerMayWrite, Outcomes
    <3> HIDE DEF run
    <3>. QED
      BY <3>3, <3>4, <3>5, <1>2
  <2>2. ASSUME NEW g \in Gens, NEW d \in Decisions, NEW cl \in UserClearances,
               ClaimResume(r, g, d, cl)
        PROVE  RunsContinue
    <3> DEFINE run == [runs[r] EXCEPT !.status = "RUNNING", !.decision = d, !.approver = cl]
    <3>1. runs[r] \in Run
      BY <1>1, <2>2 DEF ClaimResume, TypeOK
    <3>2. run \in Run /\ run.scope = runs[r].scope
      BY <3>1 DEF Run, Statuses
    <3>3. runs' = [runs EXCEPT ![r] = run]
      BY <2>2 DEF ClaimResume
    <3>4. runs[r].status \notin Outcomes
      BY <2>2 DEF ClaimResume, Outcomes
    <3> HIDE DEF run
    <3>. QED
      BY <3>2, <3>3, <3>4, <1>2
  <2>3. CASE FinishWrite(r)
    <3>1. writer[r] \in PendingWrite /\ writer[r].read.scope = runs[r].scope
      BY <2>3, <1>1 DEF FinishWrite, TypeOK, IInv, WriterReadRecord
    <3>2. Rewritten(writer[r]) \in Run /\ Rewritten(writer[r]).scope = runs[r].scope
      BY <3>1 DEF Rewritten, PendingWrite, Run, Statuses
    <3>3. runs' = [runs EXCEPT ![r] = Rewritten(writer[r])]
      BY <2>3 DEF FinishWrite
    <3>4. runs[r].status \notin Outcomes
      BY <2>3 DEF FinishWrite, IInv, WriterReadRecord, Outcomes
    <3>. QED
      BY <3>2, <3>3, <3>4, <1>2
  <2>4. ASSUME NEW s \in RunScopes, Create(r, s) PROVE RunsContinue
    BY <1>1, <2>4 DEF Create, RunsContinue, TypeOK
  <2>5. CASE UNCHANGED runs
    BY <2>5, <1>3
  <2>. QED
    BY <1>4, <2>1, <2>2, <2>3, <2>4, <2>5 DEF ApiStep, BeginWrite, AbandonWrite
<1>5. ASSUME NEW c \in Calls, ToolStep(c) PROVE RunsContinue
  <2>1. ASSUME NEW q \in Runs, NEW g \in Gens, NEW p \in Proposals,
               NEW cl \in WriteClearances, ClaimApproved(c, q, g, p, cl)
        PROVE  RunsContinue
    <3> DEFINE run == [runs[q] EXCEPT !.request = None]
    <3>1. runs[q] \in Run
      BY <2>1, <1>1 DEF ClaimApproved, MayClaim, NewCall, TypeOK
    <3>2. run \in Run /\ run.scope = runs[q].scope /\ run.status = runs[q].status
      BY <3>1 DEF Run
    <3>3. runs' = [runs EXCEPT ![q] = run]
      BY <2>1 DEF ClaimApproved
    <3> HIDE DEF run
    <3>. QED
      BY <3>2, <3>3, <1>2
  <2>2. ASSUME NEW q \in Runs, NEW g \in Gens, NEW p \in Proposals,
               NEW cl \in WriteClearances, ClaimRefused(c, q, g, p, cl)
        PROVE  RunsContinue
    BY <2>2, <1>3 DEF ClaimRefused
  <2>3. CASE LookupConsumed(c) \/ WriteTicket(c) \/ ReadTicket(c) \/ Calibrate(c) \/ LoseCall(c)
    <3>1. LookupConsumed(c) => UNCHANGED runs
      BY DEF LookupConsumed
    <3>2. WriteTicket(c) => UNCHANGED runs
      BY DEF WriteTicket
    <3>3. ReadTicket(c) => UNCHANGED runs
      BY DEF ReadTicket
    <3>4. Calibrate(c) => UNCHANGED runs
      BY DEF Calibrate
    <3>5. LoseCall(c) => UNCHANGED runs
      BY DEF LoseCall
    <3>. QED
      BY <2>3, <3>1, <3>2, <3>3, <3>4, <3>5, <1>3
  <2>. QED
    BY <1>5, <2>1, <2>2, <2>3 DEF ToolStep
<1>. QED
  BY <1>3, <1>4, <1>5 DEF Next, vars

(* A written ticket is not written again, by whoever calls.                *)
LEMMA StepKeepsTickets == ASSUME IInv, [Next]_vars PROVE TicketsContinue
<1>1. CASE UNCHANGED tickets
  BY <1>1 DEF TicketsContinue
<1>2. ASSUME NEW c \in Calls, WriteTicket(c) PROVE TicketsContinue
  <2> DEFINE ra == calls[c].run
             ga == calls[c].id
             written == [target |-> calls[c].proposal.target,
                         classification |-> calls[c].clearance]
             ticket == IF tickets[ra][ga] = None THEN written ELSE tickets[ra][ga]
  <2>1. ra \in Runs /\ ga \in Gens
    BY <1>2 DEF WriteTicket, IInv, TypeOK, Call
  <2>2. tickets' = [tickets EXCEPT ![ra][ga] = ticket]
    BY <1>2 DEF WriteTicket
  <2>3. tickets[ra][ga] # None => ticket = tickets[ra][ga]
    OBVIOUS
  <2> HIDE DEF ra, ga, ticket
  <2>. QED
    BY <2>1, <2>2, <2>3 DEF IInv, TypeOK, TicketsContinue
<1>3. ASSUME NEW c \in Calls, ToolStep(c) PROVE TicketsContinue
  <2>1. ASSUME NEW q \in Runs, NEW g \in Gens, NEW p \in Proposals, NEW cl \in WriteClearances,
               ClaimApproved(c, q, g, p, cl) \/ ClaimRefused(c, q, g, p, cl)
        PROVE  TicketsContinue
    BY <2>1, <1>1 DEF ClaimApproved, ClaimRefused
  <2>2. CASE LookupConsumed(c) \/ ReadTicket(c) \/ Calibrate(c) \/ LoseCall(c)
    <3>1. LookupConsumed(c) => UNCHANGED tickets
      BY DEF LookupConsumed
    <3>2. ReadTicket(c) => UNCHANGED tickets
      BY DEF ReadTicket
    <3>3. Calibrate(c) => UNCHANGED tickets
      BY DEF Calibrate
    <3>4. LoseCall(c) => UNCHANGED tickets
      BY DEF LoseCall
    <3>. QED
      BY <2>2, <3>1, <3>2, <3>3, <3>4, <1>1
  <2>. QED
    BY <1>2, <1>3, <2>1, <2>2 DEF ToolStep
<1>. QED
  BY <1>1, <1>3, ApiLeavesTheFactory DEF Next, vars

(* A call keeps its arguments.                                             *)
LEMMA StepKeepsCalls == ASSUME IInv, [Next]_vars PROVE CallsContinue
<1>1. TypeOK
  BY DEF IInv
<1>2. CASE UNCHANGED calls
  BY <1>2 DEF CallsContinue
<1>3. ASSUME NEW c \in Calls, NEW call \in Call,
             calls[c] # None => /\ call.run = calls[c].run
                                /\ call.id = calls[c].id
                                /\ call.proposal = calls[c].proposal,
             calls' = [calls EXCEPT ![c] = call]
      PROVE  CallsContinue
  BY <1>1, <1>3, NoneAssumption DEF TypeOK, CallsContinue
<1>4. ASSUME NEW c \in Calls, ToolStep(c) PROVE CallsContinue
  <2>1. ASSUME NEW q \in Runs, NEW g \in Gens, NEW p \in Proposals, NEW cl \in WriteClearances,
               ClaimApproved(c, q, g, p, cl) \/ ClaimRefused(c, q, g, p, cl)
        PROVE  CallsContinue
    <3>1. PICK pc \in {"owned", "unknown", "lookup", "denied"}, claimed \in BOOLEAN :
             calls' = [calls EXCEPT ![c] = NewCall(q, g, p, cl, pc, claimed)]
      BY <2>1 DEF ClaimApproved, ClaimRefused
    <3>2. calls[c] = None
      BY <2>1 DEF ClaimApproved, ClaimRefused
    <3>3. NewCall(q, g, p, cl, pc, claimed) \in Call
      BY DEF NewCall, Call
    <3>. QED
      BY <3>1, <3>2, <3>3, <1>3
  <2>2. ASSUME calls[c] # None,
               NEW pc \in {"owned", "lookup", "read", "ok", "denied", "unknown"},
               calls' = [calls EXCEPT ![c] = [@ EXCEPT !.pc = pc]]
        PROVE  CallsContinue
    <3> DEFINE call == [calls[c] EXCEPT !.pc = pc]
    <3>1. calls[c] \in Call
      BY <2>2, <1>1 DEF TypeOK
    <3>2. /\ call \in Call
          /\ call.run = calls[c].run
          /\ call.id = calls[c].id
          /\ call.proposal = calls[c].proposal
      BY <3>1 DEF Call
    <3>3. calls' = [calls EXCEPT ![c] = call]
      BY <2>2
    <3> HIDE DEF call
    <3>. QED
      BY <3>2, <3>3, <1>3
  <2>3. CASE LookupConsumed(c)
    <3>1. PICK pc \in {"read", "denied"} : calls' = [calls EXCEPT ![c] = [@ EXCEPT !.pc = pc]]
      BY <2>3 DEF LookupConsumed
    <3>. QED
      BY <2>2, <2>3, <3>1 DEF LookupConsumed
  <2>4. CASE WriteTicket(c)
    <3> DEFINE e == tickets[calls[c].run][calls[c].id] = None
    <3>1. PICK pc \in {"ok", "denied", "unknown"} :
             calls' = [calls EXCEPT ![c] = [@ EXCEPT !.pc = pc, !.effect = e]]
      BY <2>4 DEF WriteTicket
    <3>2. e \in BOOLEAN
      OBVIOUS
    <3> HIDE DEF e
    <3> DEFINE call == [calls[c] EXCEPT !.pc = pc, !.effect = e]
    <3>3. calls[c] \in Call
      BY <1>1, <2>4 DEF WriteTicket, TypeOK
    <3>4. /\ call \in Call
          /\ call.run = calls[c].run
          /\ call.id = calls[c].id
          /\ call.proposal = calls[c].proposal
      BY <3>2, <3>3 DEF Call
    <3>5. calls' = [calls EXCEPT ![c] = call]
      BY <3>1
    <3> HIDE DEF call
    <3>. QED
      BY <3>4, <3>5, <1>3
  <2>5. CASE ReadTicket(c)
    <3>1. PICK pc \in {"ok", "denied"} : calls' = [calls EXCEPT ![c] = [@ EXCEPT !.pc = pc]]
      BY <2>5 DEF ReadTicket
    <3>. QED
      BY <2>2, <2>5, <3>1 DEF ReadTicket
  <2>6. CASE Calibrate(c)
    <3>1. PICK e \in BOOLEAN, pc \in {"ok", "unknown"} :
             calls' = [calls EXCEPT ![c] = [calls[c] EXCEPT !.pc = pc, !.effect = e]]
      BY <2>6 DEF Calibrate
    <3> DEFINE call == [calls[c] EXCEPT !.pc = pc, !.effect = e]
    <3>2. calls[c] \in Call
      BY <1>1, <2>6 DEF Calibrate, TypeOK
    <3>3. /\ call \in Call
          /\ call.run = calls[c].run
          /\ call.id = calls[c].id
          /\ call.proposal = calls[c].proposal
      BY <3>2 DEF Call
    <3>4. calls' = [calls EXCEPT ![c] = call]
      BY <3>1
    <3> HIDE DEF call
    <3>. QED
      BY <3>3, <3>4, <1>3
  <2>7. CASE LoseCall(c)
    BY <2>2, <2>7 DEF LoseCall
  <2>. QED
    BY <1>4, <2>1, <2>3, <2>4, <2>5, <2>6, <2>7 DEF ToolStep
<1>. QED
  BY <1>2, <1>4, ApiLeavesTheFactory DEF Next, vars

(* So every step keeps runs, decisions, tickets and calls.                 *)
LEMMA StepsContinue == IInv /\ [Next]_vars => Continues
  BY StepKeepsHistory, StepKeepsRuns, StepKeepsTickets, StepKeepsCalls DEF Continues
-----------------------------------------------------------------------------
(* The abstract state under steps that touch a generation, or an effect.   *)
EffectsKept == \A r \in Runs, g \in Gens : EffectsOf(r, g)' = EffectsOf(r, g)

LEMMA SameEffects ==
  ASSUME \A c \in Calls : \/ calls'[c] = calls[c]
                          \/ /\ calls[c] # None => ~ calls[c].effect
                             /\ calls'[c] # None => ~ calls'[c].effect
  PROVE  EffectsKept /\ performedBar' = performedBar
<1>1. EffectsKept
  BY DEF EffectsKept, EffectsOf
<1>. QED
  BY <1>1 DEF EffectsKept, performedBar, Keys

(* A change of one generation is a change of one key.                      *)
LEMMA OneKeyMoves ==
  ASSUME NEW r \in Runs, NEW g \in Gens, OthersKept(r, g)
  PROVE  /\ phaseBar' = [phaseBar EXCEPT ![<<r, g>>] = PhaseOf(generations'[r][g])]
         /\ boundBar' = [boundBar EXCEPT ![<<r, g>>] = BoundOf(generations'[r][g])]
<1>1. <<r, g>> \in Keys
  BY DEF Keys
<1>2. ASSUME NEW k \in Keys, k # <<r, g>>
      PROVE  generations'[k[1]][k[2]] = generations[k[1]][k[2]]
  <2>1. k[1] \in Runs /\ k[2] \in Gens /\ k = <<k[1], k[2]>>
    BY DEF Keys
  <2>. QED
    BY <1>2, <2>1 DEF OthersKept, Kept
<1>3. phaseBar' = [phaseBar EXCEPT ![<<r, g>>] = PhaseOf(generations'[r][g])]
  <2>1. /\ phaseBar = [k \in Keys |-> PhaseOf(generations[k[1]][k[2]])]
        /\ phaseBar' = [k \in Keys |-> PhaseOf(generations'[k[1]][k[2]])]
    BY DEF phaseBar, PhaseOf
  <2>2. \A k \in Keys : k # <<r, g>> => phaseBar'[k] = phaseBar[k]
    BY <1>2, <2>1
  <2>3. phaseBar'[<<r, g>>] = PhaseOf(generations'[r][g])
    BY <1>1, <2>1
  <2>. QED
    BY <1>1, <2>1, <2>2, <2>3
<1>4. boundBar' = [boundBar EXCEPT ![<<r, g>>] = BoundOf(generations'[r][g])]
  <2>1. /\ boundBar = [k \in Keys |-> BoundOf(generations[k[1]][k[2]])]
        /\ boundBar' = [k \in Keys |-> BoundOf(generations'[k[1]][k[2]])]
    BY DEF boundBar, BoundOf
  <2>2. \A k \in Keys : k # <<r, g>> => boundBar'[k] = boundBar[k]
    BY <1>2, <2>1
  <2>3. boundBar'[<<r, g>>] = BoundOf(generations'[r][g])
    BY <1>1, <2>1
  <2>. QED
    BY <1>1, <2>1, <2>2, <2>3
<1>. QED
  BY <1>3, <1>4

LEMMA ProposedRefines ==
  ASSUME NEW r \in Runs, NEW g \in Gens, Proposed(r, g), OthersKept(r, g),
         performedBar' = performedBar
  PROVE  Approval!Next
<1>1. <<r, g>> \in Keys
  BY DEF Keys
<1>2. phaseBar[<<r, g>>] = "unknown"
  BY <1>1 DEF phaseBar, PhaseOf, Proposed
<1>3. PhaseOf(generations'[r][g]) = "proposed"
  BY DEF PhaseOf, Proposed
<1>4. BoundOf(generations'[r][g]) = {generations'[r][g].proposal}
  BY DEF BoundOf, Proposed
<1>5. Approval!Propose(<<r, g>>, generations'[r][g].proposal)
  BY <1>1, <1>2, <1>3, <1>4, OneKeyMoves DEF Approval!Propose
<1>. QED
  BY <1>1, <1>5 DEF Approval!Next, Proposed

LEMMA DecidedRefines ==
  ASSUME NEW r \in Runs, NEW g \in Gens, Decided(r, g), OthersKept(r, g),
         performedBar' = performedBar
  PROVE  Approval!Next
<1>1. <<r, g>> \in Keys
  BY DEF Keys
<1>2. phaseBar[<<r, g>>] = "proposed"
  BY <1>1 DEF phaseBar, PhaseOf, Decided
<1>3. PICK d \in {"approved", "rejected"} : PhaseOf(generations'[r][g]) = d
  BY NoneAssumption DEF PhaseOf, Decided, Decisions
<1>4. BoundOf(generations'[r][g]) = BoundOf(generations[r][g])
  BY DEF BoundOf, Decided
<1>5. boundBar' = boundBar
  <2>1. boundBar[<<r, g>>] = BoundOf(generations[r][g])
    BY <1>1 DEF boundBar
  <2>2. boundBar' = [boundBar EXCEPT ![<<r, g>>] = boundBar[<<r, g>>]]
    BY <1>4, <2>1, OneKeyMoves
  <2>. QED
    BY <2>2 DEF boundBar
<1>6. Approval!Decide(<<r, g>>, d)
  BY <1>1, <1>2, <1>3, <1>5, OneKeyMoves DEF Approval!Decide
<1>. QED
  BY <1>1, <1>6 DEF Approval!Next

LEMMA ConsumedRefines ==
  ASSUME NEW r \in Runs, NEW g \in Gens, Consumed(r, g), OthersKept(r, g),
         performedBar' = performedBar
  PROVE  Approval!Next
<1>1. <<r, g>> \in Keys
  BY DEF Keys
<1>2. phaseBar[<<r, g>>] = "approved"
  BY <1>1, NoneAssumption DEF phaseBar, PhaseOf, Consumed, Decisions
<1>3. PhaseOf(generations'[r][g]) = "consumed"
  BY NoneAssumption DEF PhaseOf, Consumed, Decisions
<1>4. BoundOf(generations'[r][g]) = BoundOf(generations[r][g])
  BY DEF BoundOf, Consumed
<1>5. boundBar' = boundBar
  <2>1. boundBar[<<r, g>>] = BoundOf(generations[r][g])
    BY <1>1 DEF boundBar
  <2>2. boundBar' = [boundBar EXCEPT ![<<r, g>>] = boundBar[<<r, g>>]]
    BY <1>4, <2>1, OneKeyMoves
  <2>. QED
    BY <2>2 DEF boundBar
<1>6. Approval!Consume(<<r, g>>)
  BY <1>1, <1>2, <1>3, <1>5, OneKeyMoves DEF Approval!Consume
<1>. QED
  BY <1>1, <1>6 DEF Approval!Next

(* A call that holds a claim performs what its generation is bound to.     *)
LEMMA EffectRefines ==
  ASSUME IInv, NEW c \in Calls, NEW pc, Moves(c, pc, TRUE), calls[c].pc = "owned",
         NEW r \in Runs, NEW g \in Gens, NEW p \in Proposals,
         calls[c].run = r, calls[c].id = g, calls[c].proposal = p,
         UNCHANGED generations
  PROVE  Approval!Next
<1>1. calls[c] # None /\ calls[c].claimed /\ ~ calls[c].effect
  BY DEF Moves, IInv, EffectIsClaimed
<1>2. <<r, g>> \in Keys
  BY DEF Keys
<1>3. /\ generations[r][g] # None
      /\ generations[r][g].consumed
      /\ generations[r][g].proposal = p
      /\ generations[r][g].decision = "approve"
  BY <1>1 DEF IInv, ClaimIsExclusive, ConsumedWasApproved
<1>4. phaseBar[<<r, g>>] = "consumed"
  <2>1. PhaseOf(generations[r][g]) = "consumed"
    BY <1>3, NoneAssumption DEF PhaseOf, Decisions
  <2>. QED
    BY <1>2, <2>1 DEF phaseBar
<1>5. boundBar[<<r, g>>] = {p}
  BY <1>2, <1>3 DEF boundBar, BoundOf
<1>6. \A d \in Calls : calls[d] # None /\ calls[d].effect
                        => ~ (calls[d].run = r /\ calls[d].id = g)
  BY <1>1 DEF IInv, EffectIsClaimed, ClaimIsExclusive
<1>7. performedBar[<<r, g>>] = {}
  BY <1>2, <1>6 DEF performedBar, EffectsOf
<1>8. /\ calls'[c] # None /\ calls'[c].effect /\ calls'[c].run = r /\ calls'[c].id = g
      /\ calls'[c].proposal = p
      /\ \A d \in Calls : d # c => calls'[d] = calls[d]
  BY DEF Moves
<1>9. EffectsOf(r, g)' = {p}
  <2>1. \A q \in Proposals :
          (\E d \in Calls : /\ calls'[d] # None /\ calls'[d].effect
                            /\ calls'[d].run = r /\ calls'[d].id = g
                            /\ calls'[d].proposal = q)
          <=> q = p
    BY <1>6, <1>8
  <2>. QED
    BY <2>1 DEF EffectsOf
<1>10. \A q \in Runs, h \in Gens : <<q, h>> # <<r, g>> => EffectsOf(q, h)' = EffectsOf(q, h)
  <2> SUFFICES ASSUME NEW q \in Runs, NEW h \in Gens, <<q, h>> # <<r, g>>
               PROVE  EffectsOf(q, h)' = EffectsOf(q, h)
    OBVIOUS
  <2>1. \A d \in Calls : (calls'[d] # None /\ calls'[d].effect /\ calls'[d].run = q /\ calls'[d].id = h)
            <=> (calls[d] # None /\ calls[d].effect /\ calls[d].run = q /\ calls[d].id = h)
    BY <1>1, <1>8
  <2>2. \A d \in Calls : calls[d] # None /\ calls[d].effect => calls'[d] = calls[d]
    BY <1>1, <1>8
  <2>. QED
    BY <2>1, <2>2 DEF EffectsOf
<1>11. performedBar' = [performedBar EXCEPT ![<<r, g>>] = boundBar[<<r, g>>]]
  <2>1. /\ performedBar = [k \in Keys |-> EffectsOf(k[1], k[2])]
        /\ performedBar' = [k \in Keys |-> EffectsOf(k[1], k[2])']
    BY DEF performedBar, EffectsOf
  <2>2. ASSUME NEW k \in Keys, k # <<r, g>>
        PROVE  performedBar'[k] = performedBar[k]
    <3>1. PICK q \in Runs, h \in Gens : k = <<q, h>>
      BY DEF Keys
    <3>2. EffectsOf(q, h)' = EffectsOf(q, h)
      BY <1>10, <2>2, <3>1
    <3>3. performedBar'[<<q, h>>] = EffectsOf(q, h)' /\ performedBar[<<q, h>>] = EffectsOf(q, h)
      BY <3>1 DEF performedBar, EffectsOf
    <3>. QED
      BY <3>1, <3>2, <3>3
  <2>3. performedBar'[<<r, g>>] = boundBar[<<r, g>>]
    <3>1. performedBar'[<<r, g>>] = EffectsOf(r, g)'
      BY <1>2 DEF performedBar, EffectsOf
    <3>. QED
      BY <1>5, <1>9, <3>1
  <2>. QED
    BY <1>2, <2>1, <2>2, <2>3
<1>12. UNCHANGED <<phaseBar, boundBar>>
  BY DEF phaseBar, boundBar
<1>13. Approval!Perform(<<r, g>>)
  BY <1>4, <1>7, <1>11, <1>12 DEF Approval!Perform
<1>. QED
  BY <1>2, <1>13 DEF Approval!Next

(* Every step is a step of the abstract approval, or none.                 *)
LEMMA StepsRefine ==
  ASSUME IInv, [Next]_vars PROVE Approval!Next \/ UNCHANGED <<phaseBar, boundBar, performedBar>>
<1>1. ASSUME UNCHANGED <<generations, calls>>
      PROVE  UNCHANGED <<phaseBar, boundBar, performedBar>>
  BY <1>1 DEF phaseBar, boundBar, performedBar, EffectsOf
<1>2. ASSUME UNCHANGED generations,
             \A c \in Calls : \/ calls'[c] = calls[c]
                             \/ /\ calls[c] # None => ~ calls[c].effect
                                /\ calls'[c] # None => ~ calls'[c].effect
      PROVE  UNCHANGED <<phaseBar, boundBar, performedBar>>
  BY <1>2, SameEffects DEF phaseBar, boundBar
<1>3. ASSUME NEW r \in Runs, NEW g \in Gens, NEW p \in Proposals, WaitForApproval(r, g, p)
      PROVE  Approval!Next
  <2>1. performedBar' = performedBar
    BY <1>3 DEF WaitForApproval, performedBar, EffectsOf
  <2>. QED
    BY <1>3, <2>1, WaitForApprovalProposes, ProposedRefines
<1>4. ASSUME NEW r \in Runs, NEW g \in Gens, NEW d \in Decisions, NEW cl \in UserClearances,
             ClaimResume(r, g, d, cl)
      PROVE  Approval!Next
  <2>1. performedBar' = performedBar
    BY <1>4 DEF ClaimResume, performedBar, EffectsOf
  <2>. QED
    BY <1>4, <2>1, ClaimResumeDecides, DecidedRefines
<1>5. ASSUME NEW c \in Calls, NEW r \in Runs, NEW g \in Gens, NEW p \in Proposals,
             NEW cl \in WriteClearances, ClaimApproved(c, r, g, p, cl)
      PROVE  Approval!Next
  <2>1. PICK pc \in {"owned", "unknown"} :
           /\ calls[c] = None
           /\ calls' = [calls EXCEPT ![c] = NewCall(r, g, p, cl, pc, TRUE)]
    BY <1>5 DEF ClaimApproved
  <2>2. /\ ~ calls'[c].effect
        /\ \A d \in Calls : d # c => calls'[d] = calls[d]
    BY <2>1 DEF NewCall, IInv, TypeOK
  <2>3. performedBar' = performedBar
    BY <2>1, <2>2, SameEffects
  <2>. QED
    BY <1>5, <2>3, ClaimApprovedConsumes, ConsumedRefines
<1>6. ASSUME NEW c \in Calls, NEW r \in Runs, NEW g \in Gens, NEW p \in Proposals,
             NEW cl \in WriteClearances, ClaimRefused(c, r, g, p, cl)
      PROVE  UNCHANGED <<phaseBar, boundBar, performedBar>>
  <2>1. PICK pc \in {"lookup", "denied"} :
           /\ calls[c] = None
           /\ calls' = [calls EXCEPT ![c] = NewCall(r, g, p, cl, pc, FALSE)]
           /\ UNCHANGED generations
    BY <1>6 DEF ClaimRefused
  <2>2. /\ ~ calls'[c].effect
        /\ \A d \in Calls : d # c => calls'[d] = calls[d]
    BY <2>1 DEF NewCall, IInv, TypeOK
  <2>. QED
    BY <2>1, <2>2, <1>2
<1>7. ASSUME NEW c \in Calls, NEW pc, NEW e \in BOOLEAN, Moves(c, pc, e),
             ~ calls[c].effect, e => calls[c].pc = "owned", UNCHANGED generations
      PROVE  Approval!Next \/ UNCHANGED <<phaseBar, boundBar, performedBar>>
  <2>1. CASE e
    <3>1. e = TRUE
      BY <2>1, <1>7
    <3>2. calls[c].run \in Runs /\ calls[c].id \in Gens /\ calls[c].proposal \in Proposals
      BY <1>7 DEF Moves, IInv, TypeOK, Call
    <3>. QED
      BY <1>7, <3>1, <3>2, EffectRefines
  <2>2. CASE ~ e
    BY <1>7, <2>2, <1>2 DEF Moves
  <2>. QED
    BY <2>1, <2>2
<1>8. ASSUME NEW c \in Calls, calls[c] # None, calls[c].pc \in {"owned", "lookup", "read"},
             NEW pc \in {"read", "ok", "denied", "unknown"},
             calls' = [calls EXCEPT ![c] = [calls[c] EXCEPT !.pc = pc]],
             UNCHANGED generations
      PROVE  UNCHANGED <<phaseBar, boundBar, performedBar>>
  <2>1. calls[c] \in Call /\ calls[c].effect = FALSE
    BY <1>8 DEF IInv, TypeOK, EffectIsClaimed, Call
  <2>2. [calls[c] EXCEPT !.pc = pc] = [calls[c] EXCEPT !.pc = pc, !.effect = FALSE]
    BY <2>1 DEF Call
  <2>3. Moves(c, pc, FALSE)
    BY <1>8, <2>2, CallMoves DEF IInv
  <2>. QED
    BY <1>8, <2>1, <2>3, <1>2 DEF Moves
<1>9. ASSUME NEW c \in Calls, LookupConsumed(c) \/ ReadTicket(c) \/ LoseCall(c)
      PROVE  UNCHANGED <<phaseBar, boundBar, performedBar>>
  <2>1. /\ calls[c] # None
        /\ calls[c].pc \in {"owned", "lookup", "read"}
        /\ UNCHANGED generations
        /\ \E pc \in {"read", "ok", "denied", "unknown"} :
              calls' = [calls EXCEPT ![c] = [calls[c] EXCEPT !.pc = pc]]
    BY <1>9 DEF LookupConsumed, ReadTicket, LoseCall
  <2>. QED
    BY <2>1, <1>8
<1>10. ASSUME NEW c \in Calls, WriteTicket(c) \/ Calibrate(c)
       PROVE  Approval!Next \/ UNCHANGED <<phaseBar, boundBar, performedBar>>
  <2>1. /\ calls[c] # None
        /\ calls[c].pc = "owned"
        /\ UNCHANGED generations
    BY <1>10 DEF WriteTicket, Calibrate
  <2>2. PICK pc \in {"ok", "denied", "unknown"}, e \in BOOLEAN :
           calls' = [calls EXCEPT ![c] = [calls[c] EXCEPT !.pc = pc, !.effect = e]]
    <3>1. CASE WriteTicket(c)
      BY <3>1 DEF WriteTicket
    <3>2. CASE Calibrate(c)
      BY <3>2 DEF Calibrate
    <3>. QED
      BY <1>10, <3>1, <3>2
  <2>3. Moves(c, pc, e)
    BY <2>1, <2>2, CallMoves DEF IInv
  <2>4. ~ calls[c].effect
    BY <2>1 DEF IInv, EffectIsClaimed
  <2>. QED
    BY <2>1, <2>3, <2>4, <1>7
<1>11. CASE UNCHANGED vars
  BY <1>11, <1>1 DEF vars
<1>12. ASSUME NEW r \in Runs, ApiStep(r)
       PROVE  Approval!Next \/ UNCHANGED <<phaseBar, boundBar, performedBar>>
  <2>1. CASE \E g \in Gens, p \in Proposals : WaitForApproval(r, g, p)
    BY <2>1, <1>3
  <2>2. CASE \E g \in Gens, d \in Decisions, cl \in UserClearances : ClaimResume(r, g, d, cl)
    BY <2>2, <1>4
  <2>3. CASE UNCHANGED <<generations, calls>>
    BY <2>3, <1>1
  <2>. QED
    BY <1>12, <2>1, <2>2, <2>3 DEF ApiStep, Create, BeginWrite, FinishWrite, AbandonWrite
<1>. QED
  BY <1>5, <1>6, <1>9, <1>10, <1>11, <1>12 DEF Next, ToolStep

(* The store and its tools implement the abstract approval: one proposal   *)
(* bound, one decision, one consumption and one effect for every key.      *)
THEOREM ApprovalIsImplemented == Spec => ImplementsApproval
<1>1. Init => Approval!Init
  BY DEF Init, Approval!Init, phaseBar, boundBar, performedBar, PhaseOf, BoundOf, EffectsOf, Keys
<1>2. IInv /\ [Next]_vars => [Approval!Next]_(Approval!vars)
  BY StepsRefine DEF Approval!vars
<1>. QED
  BY <1>1, <1>2, StrengthenedInvariant, PTL DEF Spec, ImplementsApproval, Approval!Spec
=============================================================================
