------------------------ MODULE RunLifecycle_proofs ------------------------
(***************************************************************************)
(* That the requests keep the discipline the store relies on, and decide   *)
(* only what they may, for every number of requests, runs, generations and *)
(* tool calls.  The store's own lemmas are used with the request's pending *)
(* write in the place of its writer.                                       *)
(***************************************************************************)
EXTENDS RunLifecycle, TLAPS

Proved == INSTANCE ApprovalStore_proofs WITH writer <- writerBar

(* The two instances of the store speak of the same things.                *)
LEMMA SameData ==
  /\ Proved!Decisions = Store!Decisions
  /\ Proved!Outcomes = Store!Outcomes
  /\ Proved!ActionNames = ActionNames
  /\ Proved!Classifications = Classifications
  /\ Proved!Scopes = Scopes
  /\ Proved!Request = Store!Request
  /\ Proved!Run = Store!Run
  /\ Proved!Generation = Store!Generation
  /\ Proved!Ticket = Store!Ticket
  /\ Proved!Call = Store!Call
  /\ Proved!PendingWrite = Store!PendingWrite
<1>1. Proved!Decisions = Store!Decisions /\ Proved!Outcomes = Store!Outcomes
  BY DEF Proved!Decisions, Store!Decisions, Proved!Outcomes, Store!Outcomes
<1>2. Proved!ActionNames = ActionNames /\ Store!ActionNames = ActionNames
  BY DEF Proved!ActionNames, Store!ActionNames, ActionNames
<1>3. Proved!Classifications = Classifications
  BY DEF Proved!Classifications, Classifications, Proved!PUBLIC, PUBLIC, Proved!RESTRICTED,
         RESTRICTED
<1>4. Proved!Scopes = Scopes
  <2>1. Proved!Profiles = Profiles
    BY DEF Proved!Profiles, Profiles
  <2>2. Proved!ProfileClassification = ProfileClassification
    BY <2>1
       DEF Proved!ProfileClassification, ProfileClassification, Proved!PUBLIC, PUBLIC,
           Proved!INTERNAL, INTERNAL, Proved!CONFIDENTIAL, CONFIDENTIAL, Proved!RESTRICTED,
           RESTRICTED
  <2>. QED
    BY <2>1, <2>2, <1>3 DEF Proved!Scopes, Scopes
<1>5. Proved!Request = Store!Request
  BY DEF Proved!Request, Store!Request
<1>6. Proved!Run = Store!Run
  BY <1>1, <1>2, <1>5
     DEF Proved!Run, Store!Run, Proved!Statuses, Store!Statuses
<1>7. Proved!Generation = Store!Generation
  BY <1>1 DEF Proved!Generation, Store!Generation
<1>8. Proved!WriteClearances = Store!WriteClearances
  BY DEF Proved!WriteClearances, Store!WriteClearances, Proved!CONFIDENTIAL, Store!CONFIDENTIAL,
         Proved!RESTRICTED, Store!RESTRICTED
<1>9. Proved!Ticket = Store!Ticket
  BY <1>8 DEF Proved!Ticket, Store!Ticket, Proved!Targets, Store!Targets
<1>10. Proved!Call = Store!Call
  BY <1>8 DEF Proved!Call, Store!Call
<1>11. Proved!PendingWrite = Store!PendingWrite
  BY <1>1, <1>6, <1>7
     DEF Proved!PendingWrite, Store!PendingWrite, Proved!History, Store!History
<1>. QED
  BY <1>1, <1>2, <1>3, <1>4, <1>5, <1>6, <1>7, <1>9, <1>10, <1>11

(* Which makes their invariants and steps the same.                        *)
LEMMA SameType == Proved!TypeOK <=> Store!TypeOK
  BY SameData DEF Proved!TypeOK, Store!TypeOK, Proved!History, Store!History

LEMMA SameInit == Proved!Init <=> Store!Init
  BY DEF Proved!Init, Store!Init

LEMMA SameInvariant == Proved!IInv <=> Store!IInv
  BY SameType
     DEF Proved!IInv, Store!IInv, Proved!RequestIsBound, Store!RequestIsBound,
         Proved!HasCurrentGeneration, Store!HasCurrentGeneration, Proved!WaitingIsQuiet,
         Store!WaitingIsQuiet, Proved!WriterReadRecord, Store!WriterReadRecord,
         Proved!ConsumedWasApproved, Store!ConsumedWasApproved,
         Proved!IsActionProfileAuthorized, Store!IsActionProfileAuthorized,
         Proved!CONFIDENTIAL, Store!CONFIDENTIAL,
         Proved!ClaimIsExclusive, Store!ClaimIsExclusive, Proved!EffectIsClaimed,
         Store!EffectIsClaimed, Proved!TicketIsEffect, Store!TicketIsEffect,
         Proved!AnswersAreTrue, Store!AnswersAreTrue

LEMMA SameNext == Proved!Next <=> Store!Next
  BY DEF Proved!Next, Store!Next, Proved!ApiStep, Store!ApiStep, Proved!ToolStep,
         Store!ToolStep, Proved!Create, Store!Create, Proved!WaitForApproval,
         Store!WaitForApproval, Proved!ClaimResume, Store!ClaimResume, Proved!BeginWrite,
         Store!BeginWrite, Proved!FinishWrite, Store!FinishWrite, Proved!AbandonWrite,
         Store!AbandonWrite, Proved!HandlerMayWrite, Store!HandlerMayWrite,
         Proved!HasCurrentGeneration, Store!HasCurrentGeneration, Proved!Rewritten,
         Store!Rewritten, Proved!ClaimApproved, Store!ClaimApproved, Proved!ClaimRefused,
         Store!ClaimRefused, Proved!MayClaim, Store!MayClaim, Proved!NewCall, Store!NewCall,
         Proved!MatchesProtectedActionApproval, Store!MatchesProtectedActionApproval,
         Proved!MatchesApprovalGeneration, Store!MatchesApprovalGeneration,
         Proved!LookupConsumed, Store!LookupConsumed, Proved!WriteTicket, Store!WriteTicket,
         Proved!ReadTicket, Store!ReadTicket, Proved!Calibrate, Store!Calibrate,
         Proved!LoseCall, Store!LoseCall, Proved!Outcomes, Store!Outcomes, Proved!Decisions,
         Store!Decisions, Proved!WriteClearances, Store!WriteClearances,
         Proved!CONFIDENTIAL, Store!CONFIDENTIAL, Proved!RESTRICTED, Store!RESTRICTED,
         Proved!IsRunVisible, Store!IsRunVisible, Proved!IsActionProfileAuthorized,
         Store!IsActionProfileAuthorized, Proved!ProfilesOffering, Store!ProfilesOffering

(* What is there stays there: runs, decisions, tickets and calls.          *)
Continues ==
    /\ \A r \in Runs, g \in Gens : Store!HistoryKept(r, g)
    /\ \A r \in Runs : runs[r] # None =>
          /\ runs'[r] # None
          /\ runs'[r].scope = runs[r].scope
          /\ runs[r].status \in Store!Outcomes => runs'[r].status = runs[r].status
    /\ \A r \in Runs, g \in Gens : tickets[r][g] # None => tickets'[r][g] = tickets[r][g]
    /\ \A c \in Calls : calls[c] # None =>
          /\ calls'[c] # None
          /\ calls'[c].run = calls[c].run
          /\ calls'[c].id = calls[c].id
          /\ calls'[c].proposal = calls[c].proposal

(* A step of the store keeps the store's invariant, and its history.       *)
LEMMA StoreKeeps ==
  ASSUME Store!IInv, [Store!Next]_Store!vars PROVE Store!IInv' /\ Continues
<1>1. Proved!IInv /\ [Proved!Next]_Proved!vars
  BY SameInvariant, SameNext DEF Proved!vars, Store!vars
<1>2. Proved!IInv' /\ Proved!Continues
  BY <1>1, Proved!IInvInductive, Proved!StepsContinue, SameData, RequestsAssumption, NoneAssumption
<1>3. Store!IInv'
  BY <1>2, SameInvariant, PTL
<1>4. Continues
  BY <1>2, SameData
     DEF Continues, Proved!Continues, Proved!RunsContinue, Proved!TicketsContinue,
         Proved!CallsContinue, Proved!HistoryKept, Store!HistoryKept
<1>. QED
  BY <1>3, <1>4
-----------------------------------------------------------------------------
(* A request goes on: some of its fields change, the other requests stay.  *)
OthersStay(q) == \A p \in Requests : p # q => requests'[p] = requests[p]

Moves(q, pc, outcome, call, write) ==
    /\ requests'[q] \in HttpRequest
    /\ requests'[q] # None
    /\ requests'[q].kind = requests[q].kind
    /\ requests'[q].run = requests[q].run
    /\ requests'[q].id = requests[q].id
    /\ requests'[q].decision = requests[q].decision
    /\ requests'[q].clearance = requests[q].clearance
    /\ requests'[q].pc = pc
    /\ requests'[q].outcome = outcome
    /\ requests'[q].call = call
    /\ requests'[q].write = write
    /\ OthersStay(q)

(* A request's record is replaced by another of the same request.          *)
LEMMA RecordMoves ==
  ASSUME TypeOK, NEW q \in Requests, NEW request \in HttpRequest,
         requests' = [requests EXCEPT ![q] = request],
         request.kind = requests[q].kind, request.run = requests[q].run,
         request.id = requests[q].id, request.decision = requests[q].decision,
         request.clearance = requests[q].clearance
  PROVE  /\ Moves(q, request.pc, request.outcome, request.call, request.write)
         /\ requests' \in [Requests -> HttpRequest \union {None}]
<1>1. request # None
  BY NoneAssumption
<1>2. requests \in [Requests -> HttpRequest \union {None}]
  BY DEF TypeOK
<1>3. requests'[q] = request /\ \A p \in Requests : p # q => requests'[p] = requests[p]
  BY <1>2
<1>. QED
  BY <1>1, <1>2, <1>3 DEF Moves, OthersStay

(* It goes to its next await.                                              *)
LEMMA GoesToMoves ==
  ASSUME TypeOK, NEW q \in Requests, requests[q] # None, NEW pc \in Running \union Ended,
         GoesTo(q, pc)
  PROVE  /\ Moves(q, pc, requests[q].outcome, requests[q].call, requests[q].write)
         /\ requests' \in [Requests -> HttpRequest \union {None}]
<1> DEFINE request == [requests[q] EXCEPT !.pc = pc]
<1>1. requests[q] \in HttpRequest
  BY DEF TypeOK
<1>2. /\ request \in HttpRequest
      /\ request.kind = requests[q].kind
      /\ request.run = requests[q].run
      /\ request.id = requests[q].id
      /\ request.decision = requests[q].decision
      /\ request.clearance = requests[q].clearance
      /\ request.pc = pc
      /\ request.outcome = requests[q].outcome
      /\ request.call = requests[q].call
      /\ request.write = requests[q].write
  BY <1>1 DEF HttpRequest
<1>3. requests' = [requests EXCEPT ![q] = request]
  BY DEF GoesTo
<1> HIDE DEF request
<1>. QED
  BY <1>2, <1>3, RecordMoves

(* Its graph is done with, for good or ill.                                *)
LEMMA EndsRunMoves ==
  ASSUME TypeOK, NEW q \in Requests, requests[q] # None, NEW outcome \in Store!Outcomes,
         NEW fault \in {"none", "timeout", "raised", "store"}, EndsRun(q, outcome, fault)
  PROVE  /\ Moves(q, "ending", outcome, requests[q].call, requests[q].write)
         /\ requests' \in [Requests -> HttpRequest \union {None}]
<1> DEFINE request == [requests[q] EXCEPT !.pc = "ending", !.outcome = outcome, !.fault = fault]
<1>1. requests[q] \in HttpRequest
  BY DEF TypeOK
<1>2. /\ request \in HttpRequest
      /\ request.kind = requests[q].kind
      /\ request.run = requests[q].run
      /\ request.id = requests[q].id
      /\ request.decision = requests[q].decision
      /\ request.clearance = requests[q].clearance
      /\ request.pc = "ending"
      /\ request.outcome = outcome
      /\ request.call = requests[q].call
      /\ request.write = requests[q].write
  BY <1>1 DEF HttpRequest, Running
<1>3. requests' = [requests EXCEPT ![q] = request]
  BY DEF EndsRun
<1> HIDE DEF request
<1>. QED
  BY <1>2, <1>3, RecordMoves

(* The other steps that change what a request has in progress.             *)
LEMMA AnswersMoves ==
  ASSUME TypeOK, NEW q \in Requests, NEW outcome \in Store!Outcomes, Answers(q, outcome)
  PROVE  /\ Moves(q, IF requests[q].kind = "start" THEN "binding" ELSE "ending",
                  outcome, requests[q].call, requests[q].write)
         /\ requests' \in [Requests -> HttpRequest \union {None}]
<1> DEFINE pc == IF requests[q].kind = "start" THEN "binding" ELSE "ending"
           request == [requests[q] EXCEPT !.pc = pc, !.outcome = outcome]
<1>1. requests[q] \in HttpRequest
  BY DEF Answers, At, TypeOK
<1>2. pc \in Running
  BY DEF Running
<1>3. requests' = [requests EXCEPT ![q] = request]
  BY DEF Answers
<1> HIDE DEF pc
<1>4. /\ request \in HttpRequest
      /\ request.kind = requests[q].kind
      /\ request.run = requests[q].run
      /\ request.id = requests[q].id
      /\ request.decision = requests[q].decision
      /\ request.clearance = requests[q].clearance
      /\ request.pc = pc
      /\ request.outcome = outcome
      /\ request.call = requests[q].call
      /\ request.write = requests[q].write
  BY <1>1, <1>2 DEF HttpRequest
<1> HIDE DEF request
<1>5. Moves(q, pc, outcome, requests[q].call, requests[q].write)
  BY <1>3, <1>4, RecordMoves
<1>. QED
  BY <1>3, <1>4, <1>5, RecordMoves DEF pc

(* It remembers the tool call it awaits.                                   *)
LEMMA CallsToolMoves ==
  ASSUME TypeOK, NEW q \in Requests, NEW c \in Calls, CallsTool(q, c)
  PROVE  /\ Moves(q, "calling", requests[q].outcome, c, requests[q].write)
         /\ requests' \in [Requests -> HttpRequest \union {None}]
<1> DEFINE request == [requests[q] EXCEPT !.pc = "calling", !.call = c]
<1>1. requests[q] \in HttpRequest
  BY DEF CallsTool, HasPendingAction, At, TypeOK
<1>2. /\ request \in HttpRequest
      /\ request.kind = requests[q].kind
      /\ request.run = requests[q].run
      /\ request.id = requests[q].id
      /\ request.decision = requests[q].decision
      /\ request.clearance = requests[q].clearance
      /\ request.pc = "calling"
      /\ request.outcome = requests[q].outcome
      /\ request.call = c
      /\ request.write = requests[q].write
  BY <1>1 DEF HttpRequest, Running
<1>3. requests' = [requests EXCEPT ![q] = request]
  BY DEF CallsTool
<1> HIDE DEF request
<1>. QED
  BY <1>2, <1>3, RecordMoves

(* What a request reads to write.                                          *)
Copy(q) ==
    [op |-> IF requests[q].pc = "binding" THEN "bind" ELSE requests[q].outcome,
     read |-> runs[requests[q].run], generations |-> generations[requests[q].run]]

(* It has read the record it will write.                                   *)
LEMMA ReadsMoves ==
  ASSUME TypeOK, NEW q \in Requests, Reads(q), Copy(q) \in Store!PendingWrite
  PROVE  /\ Moves(q, requests[q].pc, requests[q].outcome, requests[q].call, Copy(q))
         /\ requests' \in [Requests -> HttpRequest \union {None}]
<1> DEFINE request == [requests[q] EXCEPT !.write = Copy(q)]
<1>1. requests[q] \in HttpRequest
  BY DEF Reads, At, TypeOK
<1>2. requests' = [requests EXCEPT ![q] = request]
  BY DEF Reads, Copy
<1>3. /\ request \in HttpRequest
      /\ request.kind = requests[q].kind
      /\ request.run = requests[q].run
      /\ request.id = requests[q].id
      /\ request.decision = requests[q].decision
      /\ request.clearance = requests[q].clearance
      /\ request.pc = requests[q].pc
      /\ request.outcome = requests[q].outcome
      /\ request.call = requests[q].call
      /\ request.write = Copy(q)
  BY <1>1 DEF HttpRequest
<1> HIDE DEF request
<1>. QED
  BY <1>2, <1>3, RecordMoves

(* Where a write that is done leads.                                       *)
AfterWrite(q) ==
    IF requests[q].pc = "ending" THEN "answered"
    ELSE IF requests[q].outcome = None THEN "persisting" ELSE "ending"

(* It has written it.                                                      *)
LEMMA WritesMoves ==
  ASSUME TypeOK, NEW q \in Requests, Writes(q)
  PROVE  /\ Moves(q, AfterWrite(q), requests[q].outcome, requests[q].call, None)
         /\ requests' \in [Requests -> HttpRequest \union {None}]
<1> DEFINE request == [requests[q] EXCEPT !.pc = AfterWrite(q), !.write = None]
<1>1. requests[q] \in HttpRequest
  BY DEF Writes, TypeOK
<1>2. requests' = [requests EXCEPT ![q] = request]
  BY DEF Writes, AfterWrite
<1>3. AfterWrite(q) \in Running \union Ended
  BY DEF AfterWrite, Running, Ended
<1>4. /\ request \in HttpRequest
      /\ request.kind = requests[q].kind
      /\ request.run = requests[q].run
      /\ request.id = requests[q].id
      /\ request.decision = requests[q].decision
      /\ request.clearance = requests[q].clearance
      /\ request.pc = AfterWrite(q)
      /\ request.outcome = requests[q].outcome
      /\ request.call = requests[q].call
      /\ request.write = None
  BY <1>1, <1>3 DEF HttpRequest
<1> HIDE DEF request
<1>. QED
  BY <1>2, <1>4, RecordMoves

(* Its store call raised, and what it read is dropped.                     *)
LEMMA StoreRaisesMoves ==
  ASSUME TypeOK, NEW q \in Requests, StoreRaises(q)
  PROVE  /\ Moves(q, "ending", "FAILED", requests[q].call, None)
         /\ requests' \in [Requests -> HttpRequest \union {None}]
<1> DEFINE request == [requests[q] EXCEPT !.pc = "ending", !.outcome = "FAILED",
                                          !.fault = "store", !.write = None]
<1>1. requests[q] \in HttpRequest
  BY DEF StoreRaises, At, TypeOK
<1>2. requests' = [requests EXCEPT ![q] = request]
  BY DEF StoreRaises
<1>3. /\ request \in HttpRequest
      /\ request.kind = requests[q].kind
      /\ request.run = requests[q].run
      /\ request.id = requests[q].id
      /\ request.decision = requests[q].decision
      /\ request.clearance = requests[q].clearance
      /\ request.pc = "ending"
      /\ request.outcome = "FAILED"
      /\ request.call = requests[q].call
      /\ request.write = None
  BY <1>1 DEF HttpRequest, Running, Store!Outcomes
<1> HIDE DEF request
<1>. QED
  BY <1>2, <1>3, RecordMoves

(* It is gone, and what it read with it.                                   *)
LEMMA StopsMoves ==
  ASSUME TypeOK, NEW q \in Requests, Stops(q)
  PROVE  /\ Moves(q, "stopped", requests[q].outcome, requests[q].call, None)
         /\ requests' \in [Requests -> HttpRequest \union {None}]
<1> DEFINE request == [requests[q] EXCEPT !.pc = "stopped", !.write = None]
<1>1. requests[q] \in HttpRequest
  BY DEF Stops, TypeOK
<1>2. requests' = [requests EXCEPT ![q] = request]
  BY DEF Stops
<1>3. /\ request \in HttpRequest
      /\ request.kind = requests[q].kind
      /\ request.run = requests[q].run
      /\ request.id = requests[q].id
      /\ request.decision = requests[q].decision
      /\ request.clearance = requests[q].clearance
      /\ request.pc = "stopped"
      /\ request.outcome = requests[q].outcome
      /\ request.call = requests[q].call
      /\ request.write = None
  BY <1>1 DEF HttpRequest, Ended
<1> HIDE DEF request
<1>. QED
  BY <1>2, <1>3, RecordMoves
-----------------------------------------------------------------------------
(* The writer that the store sees.                                         *)
HasWrite(all, q, r) == all[q] # None /\ all[q].run = r /\ all[q].write # None

WriterIn(all, r) ==
    IF \E q \in Requests : HasWrite(all, q, r)
    THEN all[CHOOSE q \in Requests : HasWrite(all, q, r)].write
    ELSE None

(* writerBar before and after a step, through one operator.                *)
LEMMA WriterBar ==
  /\ writerBar = [r \in Runs |-> WriterIn(requests, r)]
  /\ writerBar' = [r \in Runs |-> WriterIn(requests', r)]
<1>1. ASSUME NEW all, NEW r \in Runs
      PROVE  WriterIn(all, r) =
                IF \E q \in Requests : all[q] # None /\ all[q].run = r /\ all[q].write # None
                THEN all[CHOOSE q \in Requests : /\ all[q] # None
                                                /\ all[q].run = r
                                                /\ all[q].write # None].write
                ELSE None
  BY DEF WriterIn, HasWrite
<1>. QED
  BY <1>1 DEF writerBar

(* The writer of a run is its only request with a write, or None.          *)
LEMMA OneWriter ==
  ASSUME NEW all, NEW r \in Runs, NEW q \in Requests, HasWrite(all, q, r),
         \A p \in Requests : HasWrite(all, p, r) => p = q
  PROVE  WriterIn(all, r) = all[q].write
  BY DEF WriterIn

LEMMA NoWriter ==
  ASSUME NEW all, NEW r \in Runs, \A p \in Requests : ~ HasWrite(all, p, r)
  PROVE  WriterIn(all, r) = None
  BY DEF WriterIn

(* At most one request has a write of a run.                               *)
WritersAlone ==
    \A p, q \in Requests, r \in Runs :
        HasWrite(requests, p, r) /\ HasWrite(requests, q, r) => p = q

(* A request that has no write, before and after, changes no writer.       *)
LEMMA WriterStays ==
  ASSUME WritersAlone, NEW q \in Requests, OthersStay(q),
         requests[q] # None => requests[q].write = None, requests'[q].write = None
  PROVE  writerBar' = writerBar
<1>1. \A p \in Requests, r \in Runs :
         /\ HasWrite(requests', p, r) <=> HasWrite(requests, p, r)
         /\ HasWrite(requests, p, r) => requests'[p].write = requests[p].write
  BY DEF HasWrite, OthersStay
<1>2. ASSUME NEW r \in Runs PROVE WriterIn(requests', r) = WriterIn(requests, r)
  <2>1. CASE \E p \in Requests : HasWrite(requests, p, r)
    <3>1. PICK p \in Requests : HasWrite(requests, p, r)
      BY <2>1
    <3>2. \A o \in Requests : HasWrite(requests, o, r) => o = p
      BY <3>1 DEF WritersAlone
    <3>3. WriterIn(requests, r) = requests[p].write
      BY <3>1, <3>2, OneWriter
    <3>4. WriterIn(requests', r) = requests'[p].write
      BY <1>1, <3>1, <3>2, OneWriter
    <3>. QED
      BY <1>1, <3>1, <3>3, <3>4
  <2>2. CASE \A p \in Requests : ~ HasWrite(requests, p, r)
    BY <1>1, <2>2, NoWriter
  <2>. QED
    BY <2>1, <2>2
<1>3. writerBar' = [r \in Runs |-> WriterIn(requests', r)]
  BY WriterBar
<1>. QED
  BY <1>2, <1>3, WriterBar

(* A run's only writer sets the writer of that run.                        *)
LEMMA WriterChanges ==
  ASSUME WritersAlone, NEW q \in Requests, NEW r \in Runs, OthersStay(q),
         requests[q] # None, requests[q].run = r, requests'[q] # None, requests'[q].run = r,
         \A p \in Requests : HasWrite(requests, p, r) => p = q
  PROVE  writerBar' = [writerBar EXCEPT ![r] = requests'[q].write]
<1>1. \A p \in Requests : p # q => ~ HasWrite(requests', p, r)
  BY DEF HasWrite, OthersStay
<1>2. WriterIn(requests', r) = requests'[q].write
  <2>1. CASE requests'[q].write = None
    <3>1. \A p \in Requests : ~ HasWrite(requests', p, r)
      BY <1>1, <2>1 DEF HasWrite
    <3>. QED
      BY <2>1, <3>1, NoWriter
  <2>2. CASE requests'[q].write # None
    <3>1. HasWrite(requests', q, r)
      BY <2>2 DEF HasWrite
    <3>. QED
      BY <1>1, <3>1, OneWriter
  <2>. QED
    BY <2>1, <2>2
<1>3. ASSUME NEW s \in Runs, s # r PROVE WriterIn(requests', s) = WriterIn(requests, s)
  <2>1. \A p \in Requests :
           /\ HasWrite(requests', p, s) <=> HasWrite(requests, p, s)
           /\ HasWrite(requests, p, s) => requests'[p].write = requests[p].write
    BY <1>3 DEF HasWrite, OthersStay
  <2>2. CASE \E p \in Requests : HasWrite(requests, p, s)
    <3>1. PICK p \in Requests : HasWrite(requests, p, s)
      BY <2>2
    <3>2. \A o \in Requests : HasWrite(requests, o, s) => o = p
      BY <3>1, <1>3 DEF WritersAlone
    <3>3. WriterIn(requests, s) = requests[p].write
      BY <3>1, <3>2, OneWriter
    <3>4. WriterIn(requests', s) = requests'[p].write
      BY <2>1, <3>1, <3>2, OneWriter
    <3>. QED
      BY <2>1, <3>1, <3>3, <3>4
  <2>3. CASE \A p \in Requests : ~ HasWrite(requests, p, s)
    BY <2>1, <2>3, NoWriter
  <2>. QED
    BY <2>2, <2>3
<1>4. writerBar' = [s \in Runs |-> WriterIn(requests', s)]
  BY WriterBar
<1>. QED
  BY <1>2, <1>3, <1>4, WriterBar

(* Who writes drives, and drives alone.                                    *)
LEMMA WritesAreAlone ==
  ASSUME LifecycleInv
  PROVE  /\ WritersAlone
         /\ \A q \in Requests : requests[q] # None /\ requests[q].write # None => Drives(q)
         /\ \A p, q \in Requests : Drives(q) /\ HasWrite(requests, p, requests[q].run) => p = q
<1>1. \A q \in Requests : requests[q] # None /\ requests[q].write # None => Drives(q)
  BY DEF LifecycleInv, IsInOrder, Drives, Running
<1>2. \A p, q \in Requests : Drives(q) /\ HasWrite(requests, p, requests[q].run) => p = q
  BY <1>1 DEF LifecycleInv, RunHasOneDriver, HasWrite
<1>3. WritersAlone
  BY <1>1, <1>2 DEF WritersAlone, HasWrite
<1>. QED
  BY <1>1, <1>2, <1>3

(* A request that arrives has no write and disturbs no other.              *)
LEMMA NewRequestAppears ==
  ASSUME TypeOK, NEW q \in Requests, requests[q] = None, NEW kind \in {"start", "resume"},
         NEW r \in Runs, NEW pc \in Running \union Ended, NEW g \in Gens \union {None},
         NEW d \in Store!Decisions \union {None}, NEW cl \in UserClearances,
         requests' = [requests EXCEPT ![q] = NewRequest(kind, r, pc, g, d, cl)]
  PROVE  /\ requests' \in [Requests -> HttpRequest \union {None}]
         /\ OthersStay(q)
         /\ requests'[q] # None
         /\ requests'[q].kind = kind
         /\ requests'[q].run = r
         /\ requests'[q].pc = pc
         /\ requests'[q].id = g
         /\ requests'[q].decision = d
         /\ requests'[q].clearance = cl
         /\ requests'[q].write = None
<1> DEFINE request == NewRequest(kind, r, pc, g, d, cl)
<1>1. /\ request \in HttpRequest
      /\ request.kind = kind
      /\ request.run = r
      /\ request.pc = pc
      /\ request.id = g
      /\ request.decision = d
      /\ request.clearance = cl
      /\ request.write = None
  BY DEF NewRequest, HttpRequest
<1>2. request # None
  BY <1>1, NoneAssumption
<1> HIDE DEF request
<1>3. requests \in [Requests -> HttpRequest \union {None}] /\ requests' = [requests EXCEPT ![q] = request]
  BY DEF TypeOK, request
<1>. QED
  BY <1>1, <1>2, <1>3 DEF OthersStay
-----------------------------------------------------------------------------
(* Every step is a step of the store, or none.                             *)
LEMMA QuietMoves ==
  ASSUME LifecycleInv, NEW q \in Requests, requests[q] # None => requests[q].write = None,
         OthersStay(q), requests'[q].write = None, UNCHANGED <<runs, generations, tickets, calls>>
  PROVE  UNCHANGED Store!vars
<1>1. writerBar' = writerBar
  BY WritesAreAlone, WriterStays
<1>. QED
  BY <1>1 DEF Store!vars

(* A request that gives up its write, if it has one, abandons it.          *)
LEMMA GivesUpWrite ==
  ASSUME LifecycleInv, NEW q \in Requests, requests[q] # None, OthersStay(q),
         requests'[q] # None, requests'[q].run = requests[q].run, requests'[q].write = None,
         UNCHANGED <<runs, generations, tickets, calls>>
  PROVE  [Store!Next]_Store!vars
<1>1. CASE requests[q].write = None
  BY <1>1, QuietMoves
<1>2. CASE requests[q].write # None
  <2> DEFINE r == requests[q].run
  <2>1. r \in Runs
    BY DEF LifecycleInv, TypeOK, HttpRequest
  <2>2. Drives(q) /\ \A p \in Requests : HasWrite(requests, p, r) => p = q
    BY <1>2, WritesAreAlone
  <2>3. writerBar' = [writerBar EXCEPT ![r] = None]
    BY <2>1, <2>2, WritesAreAlone, WriterChanges
  <2>4. WriterIn(requests, r) = requests[q].write
    BY <1>2, <2>1, <2>2, OneWriter DEF HasWrite
  <2>5. writerBar[r] # None
    BY <1>2, <2>1, <2>4, WriterBar
  <2>6. Store!AbandonWrite(r)
    BY <2>3, <2>5 DEF Store!AbandonWrite
  <2>. QED
    BY <2>1, <2>6 DEF Store!Next, Store!ApiStep
<1>. QED
  BY <1>1, <1>2

(* A start creates the run.                                                *)
LEMMA StartRefines ==
  ASSUME LifecycleInv, NEW q \in Requests, NEW r \in Runs, NEW s \in RunScopes,
         NEW cl \in UserClearances, Start(q, r, s, cl)
  PROVE  Store!Next
<1>1. /\ requests[q] = None
      /\ requests' = [requests EXCEPT ![q] = NewRequest("start", r, "executing", None, None, cl)]
  BY DEF Start
<1>2. OthersStay(q) /\ requests'[q].write = None
  BY <1>1, NewRequestAppears, ZenonT(30) DEF LifecycleInv, Running
<1>3. writerBar' = writerBar
  BY <1>1, <1>2, WritesAreAlone, WriterStays
<1>4. Store!Create(r, s)
  BY <1>3 DEF Start, Store!Create
<1>. QED
  BY <1>4 DEF Store!Next, Store!ApiStep

(* A resume that arrives is nothing the store sees.                        *)
LEMMA ResumeRefines ==
  ASSUME LifecycleInv, NEW q \in Requests, NEW r \in Runs, NEW g \in Gens,
         NEW d \in Store!Decisions, NEW cl \in UserClearances, Resume(q, r, g, d, cl)
  PROVE  UNCHANGED Store!vars
<1> DEFINE pc == IF IsRunResumableBy(r, cl) THEN "authorized" ELSE "refused"
<1>1. /\ requests[q] = None
      /\ requests' = [requests EXCEPT ![q] = NewRequest("resume", r, pc, g, d, cl)]
      /\ UNCHANGED <<runs, generations, tickets, calls>>
  BY DEF Resume
<1>2. pc \in Running \union Ended
  BY DEF Running, Ended
<1> HIDE DEF pc
<1>3. OthersStay(q) /\ requests'[q].write = None
  BY <1>1, <1>2, NewRequestAppears DEF LifecycleInv
<1>. QED
  BY <1>1, <1>3, QuietMoves

(* A request that may claim has no write.                                  *)
LEMMA WriteIsDue ==
  ASSUME LifecycleInv, NEW q \in Requests, requests[q] # None,
         requests[q].pc \notin {"binding", "ending"}
  PROVE  requests[q].write = None
  BY DEF LifecycleInv, IsInOrder

(* A claim in time is the store's, one too late is none.                   *)
LEMMA ClaimResumeRefines ==
  ASSUME LifecycleInv, NEW q \in Requests, ClaimResume(q)
  PROVE  [Store!Next]_Store!vars
<1> DEFINE r == requests[q].run
           g == requests[q].id
<1>0. TypeOK
  BY DEF LifecycleInv
<1>1. requests[q] # None /\ requests[q].pc = "authorized" /\ requests[q] \in HttpRequest
  BY <1>0 DEF ClaimResume, At, TypeOK
<1>2. requests[q].write = None
  BY <1>1, WriteIsDue
<1>3. r \in Runs /\ g \in Gens /\ requests[q].decision \in Store!Decisions
  BY <1>1 DEF LifecycleInv, AuthorizedMayDecide, At, HttpRequest
<1>4. requests[q].clearance \in UserClearances
  BY <1>1 DEF HttpRequest
<1>5. OthersStay(q) /\ requests'[q].write = None
  <2>1. CASE GoesTo(q, "deciding")
    BY <1>0, <1>1, <1>2, <2>1, GoesToMoves DEF Moves, Running
  <2>2. CASE GoesTo(q, "conflict")
    BY <1>0, <1>1, <1>2, <2>2, GoesToMoves DEF Moves, Ended
  <2>3. CASE EndsRun(q, "FAILED", "raised")
    BY <1>0, <1>1, <1>2, <2>3, EndsRunMoves DEF Moves, Store!Outcomes
  <2>. QED
    BY <2>1, <2>2, <2>3 DEF ClaimResume
<1>6. writerBar' = writerBar
  BY <1>2, <1>5, WritesAreAlone, WriterStays
<1>7. CASE MayDecide(r, g)
  <2>1. Store!ClaimResume(r, g, requests[q].decision, requests[q].clearance)
    BY <1>6, <1>7 DEF ClaimResume, MayDecide, Store!ClaimResume
  <2>. QED
    BY <1>3, <1>4, <2>1 DEF Store!Next, Store!ApiStep
<1>8. CASE ~ MayDecide(r, g)
  BY <1>6, <1>8 DEF ClaimResume, Store!vars
<1>. QED
  BY <1>7, <1>8

(* The call carries a proposal the run's profile offers.                   *)
LEMMA CallsToolRefines ==
  ASSUME LifecycleInv, NEW q \in Requests, NEW c \in Calls, CallsTool(q, c)
  PROVE  Store!Next
<1> DEFINE r == requests[q].run
           claim == interrupts[r]
           identity == ProfileClassification[runs[r].scope.profile]
<1>1. requests[q] # None /\ requests[q] \in HttpRequest /\ claim # None
  BY DEF CallsTool, HasPendingAction, At, LifecycleInv, TypeOK
<1>2. r \in Runs
  BY <1>1 DEF HttpRequest
<1>3. claim.id \in Gens /\ claim.proposal \in Proposals
  BY <1>1, <1>2 DEF LifecycleInv, TypeOK, Store!Request
<1>4. runs[r] # None /\ runs[r].scope.profile \in ProfilesOffering(claim.proposal.action)
  BY <1>1, <1>2 DEF LifecycleInv, CheckpointIsKept
<1>5. identity \in Store!WriteClearances
  BY <1>4
     DEF ProfilesOffering, ProfileClassification, Profiles, Store!WriteClearances,
         CONFIDENTIAL, RESTRICTED, Store!CONFIDENTIAL, Store!RESTRICTED
<1>6. \/ Store!ClaimApproved(c, r, claim.id, claim.proposal, identity)
      \/ Store!ClaimRefused(c, r, claim.id, claim.proposal, identity)
  BY DEF CallsTool
<1> HIDE DEF r, claim, identity
<1>. QED
  BY <1>2, <1>3, <1>5, <1>6 DEF Store!Next, Store!ToolStep

(* What a driver reads is a record with something to do to it.             *)
LEMMA CopyIsOne ==
  ASSUME LifecycleInv, NEW q \in Requests, Reads(q)
  PROVE  /\ Copy(q) \in Store!PendingWrite
         /\ Copy(q).op \in Store!Outcomes \union {"bind"}
         /\ Copy(q).op = "bind" => requests[q].pc = "binding"
         /\ Copy(q) # None
<1>1. requests[q] # None /\ requests[q] \in HttpRequest /\ Drives(q)
  BY DEF Reads, At, LifecycleInv, TypeOK, Drives, Running
<1>2. requests[q].run \in Runs /\ requests[q].outcome \in Store!Outcomes \union {None}
  BY <1>1 DEF HttpRequest
<1>3. runs[requests[q].run] \in Store!Run /\ generations[requests[q].run] \in Store!History
  BY <1>1, <1>2 DEF LifecycleInv, TypeOK, Store!TypeOK, RunHasOneDriver
<1>4. requests[q].pc = "ending" => requests[q].outcome \in Store!Outcomes
  BY <1>1, <1>2 DEF LifecycleInv, IsInOrder
<1>5. Copy(q).op \in Store!Outcomes \union {"bind"}
  BY <1>4 DEF Copy, Reads, At
<1>6. Copy(q).op = "bind" => requests[q].pc = "binding"
  BY <1>4 DEF Copy, Reads, At, Store!Outcomes
<1>7. Copy(q) \in Store!PendingWrite
  BY <1>3, <1>5 DEF Copy, Store!PendingWrite
<1>. QED
  BY <1>5, <1>6, <1>7, NoneAssumption

(* It begins a write, of a run that is running and has no writer.          *)
LEMMA ReadsRefines ==
  ASSUME LifecycleInv, NEW q \in Requests, Reads(q)
  PROVE  Store!Next
<1> DEFINE r == requests[q].run
           op == IF requests[q].pc = "binding" THEN "bind" ELSE requests[q].outcome
<1>1. requests[q] # None /\ requests[q] \in HttpRequest /\ Drives(q) /\ requests[q].write = None
  BY DEF Reads, At, LifecycleInv, TypeOK, Drives, Running
<1>2. r \in Runs
  BY <1>1 DEF HttpRequest
<1>3. Moves(q, requests[q].pc, requests[q].outcome, requests[q].call, Copy(q))
  BY CopyIsOne, ReadsMoves DEF LifecycleInv
<1>4. \A p \in Requests : HasWrite(requests, p, r) => p = q
  BY <1>1, WritesAreAlone
<1>5. writerBar' = [writerBar EXCEPT ![r] = Copy(q)]
  BY <1>1, <1>2, <1>3, <1>4, WritesAreAlone, WriterChanges DEF Moves
<1>6. writerBar[r] = None
  <2>1. \A p \in Requests : ~ HasWrite(requests, p, r)
    BY <1>1, <1>4 DEF HasWrite
  <2>. QED
    BY <1>2, <2>1, NoWriter, WriterBar
<1>7. runs[r] # None /\ runs[r].status = "RUNNING"
  BY <1>1 DEF LifecycleInv, RunHasOneDriver
<1>8. op \in Store!Outcomes \union {"bind"} /\ (op = "bind" => requests[q].pc = "binding")
  BY CopyIsOne DEF Copy
<1>9. op = "bind" => \A g \in Gens : generations[r][g] = None
  BY <1>1, <1>8 DEF LifecycleInv, IsInOrder
<1>10. Store!BeginWrite(r, op)
  BY <1>5, <1>6, <1>7, <1>9 DEF Store!BeginWrite, Store!HandlerMayWrite, Copy, Reads
<1> HIDE DEF r, op
<1>. QED
  BY <1>2, <1>8, <1>10 DEF Store!Next, Store!ApiStep

(* It finishes the write that the store sees.                              *)
LEMMA WritesRefines ==
  ASSUME LifecycleInv, NEW q \in Requests, Writes(q)
  PROVE  Store!Next
<1> DEFINE r == requests[q].run
<1>1. /\ requests[q] # None
      /\ requests[q].write # None
      /\ requests[q] \in HttpRequest
      /\ Drives(q)
      /\ runs' = [runs EXCEPT ![r] = Store!Rewritten(requests[q].write)]
      /\ UNCHANGED <<generations, tickets, calls>>
  BY WritesAreAlone DEF Writes, LifecycleInv, TypeOK
<1>2. r \in Runs
  BY <1>1 DEF HttpRequest
<1>3. Moves(q, AfterWrite(q), requests[q].outcome, requests[q].call, None)
  BY WritesMoves DEF LifecycleInv
<1>4. \A p \in Requests : HasWrite(requests, p, r) => p = q
  BY <1>1, WritesAreAlone
<1>5. writerBar' = [writerBar EXCEPT ![r] = None]
  BY <1>1, <1>2, <1>3, <1>4, WritesAreAlone, WriterChanges DEF Moves
<1>6. writerBar[r] = requests[q].write
  BY <1>1, <1>2, <1>4, OneWriter, WriterBar DEF HasWrite
<1>7. Store!FinishWrite(r)
  BY <1>1, <1>5, <1>6 DEF Store!FinishWrite
<1> HIDE DEF r
<1>. QED
  BY <1>2, <1>7 DEF Store!Next, Store!ApiStep

(* It puts to a human what the profile offers, on a bound run.             *)
LEMMA PersistsRefines ==
  ASSUME LifecycleInv, NEW q \in Requests, Persists(q)
  PROVE  Store!Next
<1> DEFINE r == requests[q].run
           g == interrupts[r].id
           p == interrupts[r].proposal
<1>0. TypeOK
  BY DEF LifecycleInv
<1>1. /\ requests[q] # None
      /\ requests[q].pc = "persisting"
      /\ requests[q] \in HttpRequest
      /\ Drives(q)
  BY <1>0 DEF Persists, At, TypeOK, Drives, Running
<1>2. r \in Runs /\ requests[q].write = None
  BY <1>1, WriteIsDue DEF HttpRequest
<1>3. /\ interrupts[r] # None
      /\ runs[r] # None
      /\ runs[r].status = "RUNNING"
      /\ runs[r].bound
      /\ runs[r].scope.profile \in ProfilesOffering(p.action)
  BY <1>1, <1>2 DEF LifecycleInv, IsInOrder, CheckpointIsKept, RunHasOneDriver
<1>4. interrupts[r] \in Store!Request
  BY <1>0, <1>2, <1>3 DEF TypeOK
<1>5. g \in Gens /\ p \in Proposals /\ interrupts[r] = [id |-> g, proposal |-> p]
  BY <1>4 DEF Store!Request
<1>6. \A o \in Requests : ~ HasWrite(requests, o, r)
  BY <1>1, <1>2, WritesAreAlone DEF HasWrite
<1>7. writerBar[r] = None
  BY <1>2, <1>6, NoWriter, WriterBar
<1>8. GoesTo(q, "answered")
  BY DEF Persists
<1>9. OthersStay(q) /\ requests'[q].write = None
  BY <1>0, <1>1, <1>2, <1>8, GoesToMoves DEF Moves, Ended
<1>10. writerBar' = writerBar
  BY <1>2, <1>9, WritesAreAlone, WriterStays
<1>11. Store!HandlerMayWrite(r)
  BY <1>3, <1>7 DEF Store!HandlerMayWrite
<1>12. runs[r].scope.profile \in Store!ProfilesOffering(p.action)
  BY <1>3 DEF ProfilesOffering, Store!ProfilesOffering
<1>13. /\ generations[r][g] = None
       /\ runs' = [runs EXCEPT ![r] =
                     [@ EXCEPT !.status = "WAITING_FOR_APPROVAL",
                               !.request = [id |-> g, proposal |-> p],
                               !.action = p.action, !.decision = None, !.approver = None]]
       /\ generations' = [generations EXCEPT ![r][g] =
                            [scope |-> runs[r].scope, proposal |-> p, decision |-> None,
                             approver |-> None, consumed |-> FALSE]]
       /\ UNCHANGED <<tickets, calls>>
  BY <1>5 DEF Persists
<1> HIDE DEF r, g, p
<1>14. Store!WaitForApproval(r, g, p)
  BY <1>3, <1>10, <1>11, <1>12, <1>13 DEF Store!WaitForApproval
<1>. QED
  BY <1>2, <1>5, <1>14 DEF Store!Next, Store!ApiStep

(* The graph's own steps: the request is not at a store call.              *)
GraphAlone(q) ==
    \/ \E outcome \in Store!Outcomes : Answers(q, outcome) \/ ToolReturns(q, outcome)
    \/ \E g \in Gens, p \in Proposals : Proposes(q, g, p)
    \/ Cancels(q)
    \/ ToolRaises(q)
    \/ GraphRaises(q)
    \/ TimesOut(q)

(* Where the graph's own steps lead.                                       *)
LEMMA GraphMoves ==
  ASSUME LifecycleInv, NEW q \in Requests, GraphAlone(q)
  PROVE  /\ requests[q] # None
         /\ requests[q] \in HttpRequest
         /\ requests[q].pc \in {"executing", "deciding", "calling"}
         /\ requests[q].write = None
         /\ requests' \in [Requests -> HttpRequest \union {None}]
         /\ UNCHANGED <<runs, generations, tickets, calls>>
         /\ \/ \E outcome \in Store!Outcomes : Moves(q, "ending", outcome, requests[q].call, None)
            \/ /\ requests[q].pc = "executing"
               /\ requests[q].kind = "start"
               /\ \E outcome \in Store!Outcomes \union {None} :
                     Moves(q, "binding", outcome, requests[q].call, None)
            \/ /\ requests[q].pc = "calling"
               /\ Moves(q, "executing", requests[q].outcome, requests[q].call, None)
<1>0. TypeOK
  BY DEF LifecycleInv
<1>1. /\ requests[q] # None
      /\ requests[q].pc \in {"executing", "deciding", "calling"}
      /\ UNCHANGED <<runs, generations, tickets, calls>>
  BY DEF GraphAlone, Answers, ToolReturns, Proposes, Cancels, ToolRaises, GraphRaises, TimesOut,
         HasPendingAction, At
<1>2. requests[q] \in HttpRequest /\ requests[q].write = None
  BY <1>0, <1>1, WriteIsDue DEF TypeOK
<1>3. requests[q].kind \in {"start", "resume"} /\ requests[q].outcome \in Store!Outcomes \union {None}
  BY <1>2 DEF HttpRequest
<1>4. ASSUME NEW outcome \in Store!Outcomes, NEW fault \in {"none", "timeout", "raised", "store"},
             EndsRun(q, outcome, fault)
      PROVE  /\ Moves(q, "ending", outcome, requests[q].call, None)
             /\ requests' \in [Requests -> HttpRequest \union {None}]
  BY <1>0, <1>1, <1>2, <1>4, EndsRunMoves
<1>5. ASSUME NEW outcome \in Store!Outcomes, Answers(q, outcome)
      PROVE  /\ \/ Moves(q, "ending", outcome, requests[q].call, None)
                \/ /\ requests[q].pc = "executing"
                   /\ requests[q].kind = "start"
                   /\ Moves(q, "binding", outcome, requests[q].call, None)
             /\ requests' \in [Requests -> HttpRequest \union {None}]
  <2>1. requests[q].pc = "executing"
    BY <1>5 DEF Answers, At
  <2>. QED
    BY <1>0, <1>2, <1>3, <1>5, <2>1, AnswersMoves
<1>6. ASSUME NEW g \in Gens, NEW p \in Proposals, Proposes(q, g, p)
      PROVE  /\ \/ Moves(q, "ending", "FAILED", requests[q].call, None)
                \/ /\ requests[q].pc = "executing"
                   /\ requests[q].kind = "start"
                   /\ Moves(q, "binding", requests[q].outcome, requests[q].call, None)
             /\ requests' \in [Requests -> HttpRequest \union {None}]
  <2>1. CASE requests[q].kind = "start"
    <3>1. GoesTo(q, "binding") /\ requests[q].pc = "executing"
      BY <1>6, <2>1 DEF Proposes, At
    <3>. QED
      BY <1>0, <1>1, <1>2, <2>1, <3>1, GoesToMoves DEF Running
  <2>2. CASE requests[q].kind # "start"
    <3>1. EndsRun(q, "FAILED", "none")
      BY <1>6, <2>2 DEF Proposes
    <3>. QED
      BY <3>1, <1>4 DEF Store!Outcomes
  <2>. QED
    BY <2>1, <2>2
<1>7. ASSUME NEW outcome \in Store!Outcomes, ToolReturns(q, outcome)
      PROVE  /\ \/ Moves(q, "ending", outcome, requests[q].call, None)
                \/ /\ requests[q].pc = "calling"
                   /\ Moves(q, "executing", requests[q].outcome, requests[q].call, None)
             /\ requests' \in [Requests -> HttpRequest \union {None}]
  <2>1. requests[q].pc = "calling" /\ (GoesTo(q, "executing") \/ EndsRun(q, outcome, "none"))
    BY <1>7 DEF ToolReturns, At
  <2>2. CASE GoesTo(q, "executing")
    BY <1>0, <1>1, <1>2, <2>1, <2>2, GoesToMoves DEF Running
  <2>3. CASE EndsRun(q, outcome, "none")
    BY <2>3, <1>4
  <2>. QED
    BY <2>1, <2>2, <2>3
<1>8. CASE Cancels(q) \/ ToolRaises(q) \/ GraphRaises(q) \/ TimesOut(q)
  <2>1. \E outcome \in Store!Outcomes, fault \in {"none", "timeout", "raised", "store"} :
           EndsRun(q, outcome, fault)
    <3>1. {"SUCCESS", "FAILED"} = Store!Outcomes
      BY DEF Store!Outcomes
    <3>2. CASE Cancels(q)
      BY <3>1, <3>2 DEF Cancels
    <3>3. CASE ToolRaises(q)
      BY <3>1, <3>3 DEF ToolRaises
    <3>4. CASE GraphRaises(q)
      BY <3>1, <3>4 DEF GraphRaises
    <3>5. CASE TimesOut(q)
      BY <3>1, <3>5 DEF TimesOut
    <3>. QED
      BY <1>8, <3>2, <3>3, <3>4, <3>5
  <2>2. PICK outcome \in Store!Outcomes : Moves(q, "ending", outcome, requests[q].call, None)
    BY <2>1, <1>4
  <2>3. requests' \in [Requests -> HttpRequest \union {None}]
    BY <2>1, <1>4
  <2>. QED
    BY <1>1, <1>2, <2>2, <2>3
<1>9. "FAILED" \in Store!Outcomes
  BY DEF Store!Outcomes
<1>. QED
  BY <1>1, <1>2, <1>3, <1>5, <1>6, <1>7, <1>8, <1>9 DEF GraphAlone

(* The parts of a step, as the proofs go through them.                     *)
LEMMA StepParts ==
  ASSUME Next
  PROVE  \/ \E q \in Requests, r \in Runs, cl \in UserClearances, s \in RunScopes :
               Start(q, r, s, cl)
         \/ \E q \in Requests, r \in Runs, cl \in UserClearances, g \in Gens,
               d \in Store!Decisions : Resume(q, r, g, d, cl)
         \/ \E q \in Requests :
               \/ GraphAlone(q)
               \/ \E c \in Calls : CallsTool(q, c)
               \/ ClaimResume(q)
               \/ Reads(q)
               \/ Writes(q)
               \/ Persists(q)
               \/ StoreRaises(q)
               \/ Stops(q)
         \/ \E c \in Calls :
               \/ ServerStep(c)
               \/ \E r \in Runs, g \in Gens, p \in Proposals, cl \in Store!WriteClearances :
                     OtherCall(c, r, g, p, cl)
  BY DEF Next, GraphStep, ApiStep, GraphAlone

(* Whatever step is taken, the store takes one of its own, or none.        *)
LEMMA StepRefines ==
  ASSUME LifecycleInv, [Next]_vars PROVE [Store!Next]_Store!vars
<1>1. ASSUME NEW q \in Requests, GraphAlone(q) PROVE UNCHANGED Store!vars
  BY <1>1, GraphMoves, QuietMoves DEF Moves
<1>2. ASSUME NEW q \in Requests, StoreRaises(q) \/ Stops(q) PROVE [Store!Next]_Store!vars
  <2>1. /\ requests[q] # None
        /\ UNCHANGED <<runs, generations, tickets, calls>>
    BY <1>2 DEF StoreRaises, Stops, At
  <2>2. /\ requests'[q] # None
        /\ requests'[q].run = requests[q].run
        /\ requests'[q].write = None
        /\ OthersStay(q)
    BY <1>2, StoreRaisesMoves, StopsMoves DEF Moves, LifecycleInv
  <2>. QED
    BY <2>1, <2>2, GivesUpWrite
<1>3. ASSUME NEW c \in Calls, ServerStep(c) PROVE Store!Next
  BY <1>3 DEF ServerStep, Store!Next, Store!ToolStep
<1>4. ASSUME NEW c \in Calls, NEW r \in Runs, NEW g \in Gens, NEW p \in Proposals,
             NEW cl \in Store!WriteClearances, OtherCall(c, r, g, p, cl)
      PROVE  Store!Next
  BY <1>4 DEF OtherCall, Store!Next, Store!ToolStep
<1>5. CASE UNCHANGED vars
  BY <1>5 DEF vars, Store!vars, writerBar
<1>6. CASE Next
  BY <1>1, <1>2, <1>3, <1>4, <1>6, StepParts, StartRefines, ResumeRefines, ClaimResumeRefines,
     CallsToolRefines, ReadsRefines, WritesRefines, PersistsRefines
<1>. QED
  BY <1>5, <1>6
-----------------------------------------------------------------------------
(* What a step leaves of a run, but for a claim of its approval.           *)
StoreUndisturbed(r) ==
    /\ runs[r] = None => runs'[r] = None
    /\ runs[r] # None =>
          /\ runs'[r] # None
          /\ runs'[r].status = runs[r].status
          /\ runs'[r].bound = runs[r].bound
          /\ runs'[r].scope = runs[r].scope
          /\ runs'[r].action = runs[r].action
          /\ runs[r].status = "WAITING_FOR_APPROVAL" => runs'[r].request = runs[r].request
    /\ \A g \in Gens :
          /\ generations[r][g] = None => generations'[r][g] = None
          /\ generations[r][g] # None =>
                /\ generations'[r][g] # None
                /\ generations'[r][g].proposal = generations[r][g].proposal
                /\ generations'[r][g].decision = generations[r][g].decision
                /\ generations'[r][g].approver = generations[r][g].approver

Undisturbed(r) == StoreUndisturbed(r) /\ interrupts'[r] = interrupts[r]

(* A run whose record and generations stay is not disturbed.               *)
LEMMA UnchangedIsUndisturbed ==
  ASSUME NEW r \in Runs, runs'[r] = runs[r], generations'[r] = generations[r]
  PROVE  StoreUndisturbed(r)
  BY DEF StoreUndisturbed

(* Only what a run's users decided, of what concerns one run.              *)
RunDecidedByTheAuthorized(r) ==
    \A g \in Gens :
        generations[r][g] # None /\ generations[r][g].decision # None =>
            /\ IsRunVisible(runs[r].scope.classification, generations[r][g].approver)
            /\ IsActionProfileAuthorized(generations[r][g].proposal.action, runs[r].scope)

(* What the store's invariant says of a run.                               *)
LEMMA StoreFacts ==
  ASSUME LifecycleInv, NEW r \in Runs
  PROVE  /\ \A g \in Gens : generations[r][g] # None => runs[r] # None
         /\ runs[r] # None => runs[r] \in Store!Run
         /\ \A g \in Gens : generations[r][g] \in Store!Generation \union {None}
         /\ runs[r] # None /\ runs[r].status = "WAITING_FOR_APPROVAL" =>
               /\ runs[r].request # None
               /\ runs[r].request \in Store!Request
               /\ runs[r].request.id \in Gens
               /\ generations[r][runs[r].request.id] # None
               /\ generations[r][runs[r].request.id].proposal = runs[r].request.proposal
               /\ generations[r][runs[r].request.id].decision = None
         /\ interrupts[r] \in Store!Request \union {None}
<1>1. Store!IInv /\ Store!TypeOK /\ TypeOK
  BY DEF LifecycleInv, Store!IInv
<1>2. runs[r] # None => runs[r] \in Store!Run
  BY <1>1 DEF Store!TypeOK
<1>3. \A g \in Gens : generations[r][g] \in Store!Generation \union {None}
  BY <1>1 DEF Store!TypeOK, Store!History
<1>4. \A g \in Gens : generations[r][g] # None => runs[r] # None
  BY <1>1 DEF Store!IInv, Store!ConsumedWasApproved
<1>5. ASSUME runs[r] # None, runs[r].status = "WAITING_FOR_APPROVAL"
      PROVE  /\ runs[r].request # None
             /\ runs[r].request \in Store!Request
             /\ runs[r].request.id \in Gens
             /\ generations[r][runs[r].request.id] # None
             /\ generations[r][runs[r].request.id].proposal = runs[r].request.proposal
             /\ generations[r][runs[r].request.id].decision = None
  <2>1. runs[r].request # None /\ runs[r].decision = None
    BY <1>1, <1>5 DEF Store!IInv, Store!WaitingIsQuiet
  <2>2. runs[r].request \in Store!Request
    BY <1>2, <1>5, <2>1 DEF Store!Run
  <2>. QED
    BY <1>1, <1>5, <2>1, <2>2
       DEF Store!IInv, Store!RequestIsBound, Store!HasCurrentGeneration, Store!Request
<1>6. interrupts[r] \in Store!Request \union {None}
  BY <1>1 DEF TypeOK
<1>. QED
  BY <1>2, <1>3, <1>4, <1>5, <1>6

(* What holds of a run holds of it undisturbed.                            *)
LEMMA RunStays ==
  ASSUME LifecycleInv, NEW r \in Runs, Undisturbed(r)
  PROVE  CheckpointIsKept(r)' /\ RunDecidedByTheAuthorized(r)'
<1>1. CheckpointIsKept(r) /\ RunDecidedByTheAuthorized(r)
  BY DEF LifecycleInv, DecidedByTheAuthorized, RunDecidedByTheAuthorized
<1>2. StoreUndisturbed(r) /\ interrupts'[r] = interrupts[r]
  BY DEF Undisturbed
<1>3. CheckpointIsKept(r)'
  BY <1>1, <1>2, StoreFacts DEF CheckpointIsKept, StoreUndisturbed
<1>4. RunDecidedByTheAuthorized(r)'
  BY <1>1, <1>2, StoreFacts DEF RunDecidedByTheAuthorized, StoreUndisturbed
<1>. QED
  BY <1>3, <1>4

(* A request that does not move, and drives no run, stands as it stood,    *)
(* whatever becomes of its run.                                            *)
LEMMA BystanderStays ==
  ASSUME LifecycleInv, Continues, NEW p \in Requests, requests'[p] = requests[p], ~ Drives(p)
  PROVE  /\ ~ Drives(p)'
         /\ IsInOrder(p)'
         /\ AuthorizedMayDecide(p)'
         /\ ResumeIsKept(p)'
<1>1. IsInOrder(p) /\ AuthorizedMayDecide(p) /\ ResumeIsKept(p)
  BY DEF LifecycleInv
<1>2. requests[p] # None => requests[p].run \in Runs
  BY DEF LifecycleInv, TypeOK, HttpRequest
<1>3. ~ Drives(p)'
  BY DEF Drives
<1>4. IsInOrder(p)'
  BY <1>1, <1>3 DEF IsInOrder, Drives
<1>5. AuthorizedMayDecide(p)'
  <2> SUFFICES ASSUME At(p, "authorized") PROVE AuthorizedMayDecide(p)'
    BY DEF AuthorizedMayDecide, At
  <2> DEFINE r == requests[p].run
             g == requests[p].id
  <2>1. /\ r \in Runs /\ g \in Gens /\ generations[r][g] # None
        /\ requests[p].kind = "resume"
        /\ requests[p].decision \in Store!Decisions
        /\ IsRunVisible(runs[r].scope.classification, requests[p].clearance)
        /\ generations[r][g].decision = None =>
              IsActionProfileAuthorized(generations[r][g].proposal.action, runs[r].scope)
    BY <1>1, <1>2 DEF AuthorizedMayDecide, At
  <2>2. runs'[r].scope = runs[r].scope
    BY <2>1, StoreFacts DEF Continues
  <2>3. /\ generations'[r][g] # None
        /\ generations'[r][g].proposal = generations[r][g].proposal
        /\ generations[r][g].decision # None =>
              generations'[r][g].decision = generations[r][g].decision
    BY <2>1 DEF Continues, Store!HistoryKept
  <2> HIDE DEF r, g
  <2>4. generations'[r][g].decision = None => generations[r][g].decision = None
    BY <2>3
  <2>. QED
    BY <2>1, <2>2, <2>3, <2>4 DEF AuthorizedMayDecide, r, g
<1>6. ResumeIsKept(p)'
  <2> SUFFICES ASSUME At(p, "answered"), requests[p].kind = "resume" PROVE ResumeIsKept(p)'
    BY <1>3 DEF ResumeIsKept, At
  <2> DEFINE r == requests[p].run
             g == requests[p].id
  <2>1. /\ r \in Runs /\ g \in Gens /\ generations[r][g] # None
        /\ requests[p].decision \in Store!Decisions
        /\ generations[r][g].decision = requests[p].decision
        /\ requests[p].pc = "answered"
        /\ (/\ requests[p].decision = "approve"
            /\ requests[p].outcome = "SUCCESS"
            /\ generations[r][g].proposal.action = "create_maintenance_ticket")
           => TicketStands(r, g)
    BY <1>1, <1>2 DEF ResumeIsKept, At
  <2>2. /\ generations'[r][g] # None
        /\ generations'[r][g].proposal = generations[r][g].proposal
        /\ generations'[r][g].decision = generations[r][g].decision
    BY <2>1, NoneAssumption DEF Continues, Store!HistoryKept
  <2>3. tickets[r][g] # None => tickets'[r][g] = tickets[r][g]
    BY <2>1 DEF Continues
  <2> HIDE DEF r, g
  <2>4. TicketStands(r, g) => tickets'[r][g] # None /\ tickets'[r][g].target = generations'[r][g].proposal.target
    BY <2>2, <2>3 DEF TicketStands
  <2>. QED
    BY <2>1, <2>2, <2>4 DEF ResumeIsKept, TicketStands, r, g
<1>. QED
  BY <1>3, <1>4, <1>5, <1>6

(* A driver that does not move stands as it stood, if its run does.        *)
LEMMA DriverStays ==
  ASSUME LifecycleInv, Continues, NEW p \in Requests, requests'[p] = requests[p], Drives(p),
         Undisturbed(requests[p].run)
  PROVE  /\ runs'[requests[p].run] # None
         /\ runs'[requests[p].run].status = "RUNNING"
         /\ IsInOrder(p)'
         /\ AuthorizedMayDecide(p)'
         /\ ResumeIsKept(p)'
<1> DEFINE r == requests[p].run
           g == requests[p].id
<1>1. IsInOrder(p) /\ ResumeIsKept(p)
  BY DEF LifecycleInv
<1>2. r \in Runs /\ requests[p] # None
  BY DEF LifecycleInv, TypeOK, HttpRequest, Drives
<1>3. StoreUndisturbed(r) /\ interrupts'[r] = interrupts[r]
  BY DEF Undisturbed
<1>4. runs[r] # None /\ runs[r].status = "RUNNING"
  BY DEF LifecycleInv, RunHasOneDriver
<1>5. runs'[r] # None /\ runs'[r].status = "RUNNING" /\ runs'[r].bound = runs[r].bound
  BY <1>3, <1>4 DEF StoreUndisturbed
<1>6. IsInOrder(p)'
  <2>1. \A h \in Gens : generations[r][h] = None => generations'[r][h] = None
    BY <1>3 DEF StoreUndisturbed
  <2>2. requests'[p] = requests[p] /\ interrupts'[r] = interrupts[r]
    BY <1>3
  <2>. QED
    BY <1>1, <1>2, <1>5, <2>1, <2>2 DEF IsInOrder, Drives
<1>7. AuthorizedMayDecide(p)'
  BY DEF AuthorizedMayDecide, At, Drives
<1>8. ResumeIsKept(p)'
  <2> SUFFICES ASSUME requests[p].kind = "resume" PROVE ResumeIsKept(p)'
    BY DEF ResumeIsKept
  <2>1. /\ g \in Gens
        /\ generations[r][g] # None
        /\ requests[p].decision \in Store!Decisions
        /\ generations[r][g].decision = requests[p].decision
        /\ requests[p].pc = "deciding" /\ interrupts[r] # None =>
              /\ interrupts[r].id = g
              /\ interrupts[r].proposal = generations[r][g].proposal
        /\ requests[p].pc = "calling" =>
              /\ requests[p].call \in Calls
              /\ calls[requests[p].call] # None
              /\ calls[requests[p].call].run = r
              /\ calls[requests[p].call].id = g
              /\ calls[requests[p].call].proposal = generations[r][g].proposal
        /\ requests[p].pc = "executing" => TicketStands(r, g)
        /\ (/\ requests[p].pc \in {"ending", "answered"}
            /\ requests[p].decision = "approve"
            /\ requests[p].outcome = "SUCCESS"
            /\ generations[r][g].proposal.action = "create_maintenance_ticket")
           => TicketStands(r, g)
    BY <1>1 DEF ResumeIsKept
  <2>2. /\ generations'[r][g] # None
        /\ generations'[r][g].proposal = generations[r][g].proposal
        /\ generations'[r][g].decision = generations[r][g].decision
    BY <1>3, <2>1 DEF StoreUndisturbed
  <2>3. tickets[r][g] # None => tickets'[r][g] = tickets[r][g]
    BY <1>2, <2>1 DEF Continues
  <2>4. requests[p].pc = "calling" =>
           /\ calls'[requests[p].call] # None
           /\ calls'[requests[p].call].run = r
           /\ calls'[requests[p].call].id = g
           /\ calls'[requests[p].call].proposal = generations[r][g].proposal
    BY <2>1 DEF Continues
  <2>5. interrupts'[r] = interrupts[r] /\ requests'[p] = requests[p]
    BY <1>3
  <2> HIDE DEF r, g
  <2>6. TicketStands(r, g) => tickets'[r][g] # None /\ tickets'[r][g].target = generations'[r][g].proposal.target
    BY <2>2, <2>3 DEF TicketStands
  <2>. QED
    BY <2>1, <2>2, <2>4, <2>5, <2>6 DEF ResumeIsKept, TicketStands, r, g
<1>. QED
  BY <1>5, <1>6, <1>7, <1>8

(* A step of one request on its run keeps the invariant if it keeps what   *)
(* concerns the two.                                                       *)
LEMMA RequestStepKeeps ==
  ASSUME LifecycleInv, Store!IInv', Continues, TypeOK', NEW q \in Requests, NEW r \in Runs,
         OthersStay(q), requests'[q].run = r,
         \A s \in Runs : s # r => Undisturbed(s),
         \A p \in Requests : p # q /\ Drives(p) /\ requests[p].run = r =>
             Undisturbed(r) /\ ~ Drives(q)',
         Drives(q)' => runs'[r] # None /\ runs'[r].status = "RUNNING",
         IsInOrder(q)', AuthorizedMayDecide(q)', ResumeIsKept(q)',
         CheckpointIsKept(r)', RunDecidedByTheAuthorized(r)'
  PROVE  LifecycleInv'
<1>1. ASSUME NEW p \in Requests, p # q
      PROVE  /\ requests'[p] = requests[p]
             /\ Drives(p)' <=> Drives(p)
             /\ IsInOrder(p)' /\ AuthorizedMayDecide(p)' /\ ResumeIsKept(p)'
             /\ Drives(p)' => /\ runs'[requests[p].run] # None
                              /\ runs'[requests[p].run].status = "RUNNING"
  <2>1. requests'[p] = requests[p]
    BY <1>1 DEF OthersStay
  <2>2. Drives(p)' <=> Drives(p)
    BY <2>1 DEF Drives
  <2>3. CASE ~ Drives(p)
    BY <2>1, <2>2, <2>3, BystanderStays
  <2>4. CASE Drives(p)
    <3>1. requests[p].run \in Runs
      BY <2>4 DEF LifecycleInv, TypeOK, HttpRequest, Drives
    <3>2. Undisturbed(requests[p].run)
      BY <1>1, <2>4, <3>1
    <3>. QED
      BY <2>1, <2>2, <2>4, <3>2, DriverStays
  <2>. QED
    BY <2>3, <2>4
<1>2. RunHasOneDriver'
  <2> SUFFICES ASSUME NEW p \in Requests, Drives(p)'
               PROVE  /\ runs'[requests'[p].run] # None
                      /\ runs'[requests'[p].run].status = "RUNNING"
                      /\ \A o \in Requests : Drives(o)' /\ requests'[o].run = requests'[p].run => o = p
    BY DEF RunHasOneDriver
  <2>1. runs'[requests'[p].run] # None /\ runs'[requests'[p].run].status = "RUNNING"
    BY <1>1
  <2>2. ASSUME NEW o \in Requests, Drives(o)', requests'[o].run = requests'[p].run PROVE o = p
    <3>1. CASE o # q /\ p # q
      <4>1. Drives(o) /\ Drives(p) /\ requests[o].run = requests[p].run
        BY <1>1, <2>2, <3>1
      <4>. QED
        BY <4>1 DEF LifecycleInv, RunHasOneDriver
    <3>2. CASE o # q /\ p = q
      BY <1>1, <2>2, <3>2
    <3>3. CASE o = q /\ p # q
      BY <1>1, <2>2, <3>3
    <3>. QED
      BY <3>1, <3>2, <3>3
  <2>. QED
    BY <2>1, <2>2
<1>3. \A p \in Requests : (IsInOrder(p) /\ AuthorizedMayDecide(p) /\ ResumeIsKept(p))'
  BY <1>1
<1>4. \A s \in Runs : CheckpointIsKept(s)' /\ RunDecidedByTheAuthorized(s)'
  BY RunStays
<1>5. DecidedByTheAuthorized'
  BY <1>4 DEF DecidedByTheAuthorized, RunDecidedByTheAuthorized
<1>. QED
  BY <1>2, <1>3, <1>4, <1>5 DEF LifecycleInv

(* A step of nobody's request.                                             *)
LEMMA OtherStepKeeps ==
  ASSUME LifecycleInv, Store!IInv', Continues, TypeOK', requests' = requests,
         \A r \in Runs : Undisturbed(r)
  PROVE  LifecycleInv'
<1>1. ASSUME NEW p \in Requests
      PROVE  /\ Drives(p)' <=> Drives(p)
             /\ IsInOrder(p)' /\ AuthorizedMayDecide(p)' /\ ResumeIsKept(p)'
             /\ Drives(p) => /\ runs'[requests[p].run] # None
                             /\ runs'[requests[p].run].status = "RUNNING"
  <2>1. Drives(p)' <=> Drives(p)
    BY DEF Drives
  <2>2. CASE ~ Drives(p)
    BY <2>1, <2>2, BystanderStays
  <2>3. CASE Drives(p)
    <3>1. requests[p].run \in Runs
      BY <2>3 DEF LifecycleInv, TypeOK, HttpRequest, Drives
    <3>. QED
      BY <2>1, <2>3, <3>1, DriverStays
  <2>. QED
    BY <2>2, <2>3
<1>2. RunHasOneDriver'
  BY <1>1 DEF LifecycleInv, RunHasOneDriver
<1>3. \A r \in Runs : CheckpointIsKept(r)' /\ RunDecidedByTheAuthorized(r)'
  BY RunStays
<1>4. DecidedByTheAuthorized'
  BY <1>3 DEF DecidedByTheAuthorized, RunDecidedByTheAuthorized
<1>. QED
  BY <1>1, <1>2, <1>3, <1>4 DEF LifecycleInv

(* A driver that moves on, its run left as it is, stands by what it stood  *)
(* by; what it will be told of a ticket is for the steps to show.          *)
LEMMA DriverMovesOn ==
  ASSUME LifecycleInv, Store!IInv', Continues, TypeOK', NEW q \in Requests, Drives(q),
         NEW r \in Runs, requests[q].run = r,
         NEW pc, NEW outcome, NEW call, NEW write, Moves(q, pc, outcome, call, write),
         pc # "authorized",
         \A s \in Runs : StoreUndisturbed(s),
         \A s \in Runs : s # r => interrupts'[s] = interrupts[s],
         IsInOrder(q)', ResumeIsKept(q)', CheckpointIsKept(r)'
  PROVE  LifecycleInv'
<1>1. requests[q] # None
  BY DEF Drives
<1>2. OthersStay(q) /\ requests'[q].run = r /\ requests'[q].pc = pc
  BY DEF Moves
<1>3. \A s \in Runs : s # r => Undisturbed(s)
  BY DEF Undisturbed
<1>4. \A p \in Requests : Drives(p) /\ requests[p].run = r => p = q
  BY DEF LifecycleInv, RunHasOneDriver
<1>5. runs'[r] # None /\ runs'[r].status = "RUNNING"
  BY DEF LifecycleInv, RunHasOneDriver, StoreUndisturbed
<1>6. AuthorizedMayDecide(q)'
  BY <1>2 DEF AuthorizedMayDecide, At
<1>7. RunDecidedByTheAuthorized(r)'
  <2>1. RunDecidedByTheAuthorized(r) /\ StoreUndisturbed(r)
    BY DEF LifecycleInv, DecidedByTheAuthorized, RunDecidedByTheAuthorized
  <2>. QED
    BY <2>1, StoreFacts DEF RunDecidedByTheAuthorized, StoreUndisturbed
<1>. QED
  BY <1>1, <1>2, <1>3, <1>4, <1>5, <1>6, <1>7, RequestStepKeeps

(* The store's types come with its invariant.                              *)
LEMMA TypeStays ==
  ASSUME Store!IInv', interrupts' \in [Runs -> Store!Request \union {None}],
         requests' \in [Requests -> HttpRequest \union {None}]
  PROVE  TypeOK'
<1>1. Store!TypeOK'
  BY DEF Store!IInv
<1>. QED
  BY <1>1 DEF TypeOK

(* The checkpoint of a run that is driven, and stays so, is its graph's.   *)
LEMMA CheckpointMoves ==
  ASSUME LifecycleInv, NEW r \in Runs, runs[r] # None, runs[r].status = "RUNNING",
         runs'[r] = runs[r], generations'[r] = generations[r],
         interrupts'[r] # None =>
             runs[r].scope.profile \in ProfilesOffering(interrupts'[r].proposal.action)
  PROVE  CheckpointIsKept(r)'
<1>1. \A g \in Gens : generations[r][g] # None => generations[r][g].decision # None
  BY DEF LifecycleInv, CheckpointIsKept
<1>. QED
  BY <1>1 DEF CheckpointIsKept

(* What is known of a request whose graph works.                           *)
LEMMA GraphWorks ==
  ASSUME LifecycleInv, NEW q \in Requests, requests[q] # None,
         requests[q].pc \in {"executing", "deciding", "calling"}
  PROVE  /\ Drives(q)
         /\ requests[q] \in HttpRequest
         /\ requests[q].run \in Runs
         /\ runs[requests[q].run] # None
         /\ runs[requests[q].run].status = "RUNNING"
         /\ requests[q].write = None
         /\ IsInOrder(q)
         /\ ResumeIsKept(q)
         /\ CheckpointIsKept(requests[q].run)
         /\ interrupts \in [Runs -> Store!Request \union {None}]
<1>1. Drives(q) /\ requests[q] \in HttpRequest
  BY DEF Drives, Running, LifecycleInv, TypeOK
<1>2. requests[q].run \in Runs
  BY <1>1 DEF HttpRequest
<1>. QED
  BY <1>1, <1>2, WriteIsDue DEF LifecycleInv, RunHasOneDriver, TypeOK

(* The graph's work ends: what a resume is to say of a ticket is so.       *)
LEMMA EndingKeeps ==
  ASSUME LifecycleInv, Store!IInv', Continues, NEW q \in Requests, requests[q] # None,
         requests[q].pc \in {"executing", "deciding", "calling"},
         requests' \in [Requests -> HttpRequest \union {None}],
         UNCHANGED <<runs, generations, tickets, calls>>,
         NEW outcome \in Store!Outcomes,
         Moves(q, "ending", outcome, requests[q].call, None),
         NEW r \in Runs, requests[q].run = r,
         interrupts' \in [Runs -> Store!Request \union {None}],
         \A s \in Runs : s # r => interrupts'[s] = interrupts[s],
         interrupts'[r] # None =>
             runs[r].scope.profile \in ProfilesOffering(interrupts'[r].proposal.action),
         /\ requests[q].kind = "resume"
         /\ requests[q].decision = "approve"
         /\ outcome = "SUCCESS"
         /\ generations[r][requests[q].id].proposal.action = "create_maintenance_ticket"
         => TicketStands(r, requests[q].id)
  PROVE  LifecycleInv'
<1>1. /\ Drives(q)
      /\ runs[r] # None
      /\ runs[r].status = "RUNNING"
      /\ ResumeIsKept(q)
  BY GraphWorks
<1>2. /\ requests'[q] # None
      /\ requests'[q].kind = requests[q].kind
      /\ requests'[q].run = r
      /\ requests'[q].id = requests[q].id
      /\ requests'[q].decision = requests[q].decision
      /\ requests'[q].pc = "ending"
      /\ requests'[q].outcome = outcome
      /\ requests'[q].write = None
  BY DEF Moves
<1>3. TypeOK'
  BY TypeStays
<1>4. IsInOrder(q)'
  BY <1>2, NoneAssumption DEF IsInOrder
<1>5. ResumeIsKept(q)'
  <2> SUFFICES ASSUME requests[q].kind = "resume" PROVE ResumeIsKept(q)'
    BY <1>2 DEF ResumeIsKept
  <2>1. /\ requests[q].id \in Gens
        /\ generations[r][requests[q].id] # None
        /\ requests[q].decision \in Store!Decisions
        /\ generations[r][requests[q].id].decision = requests[q].decision
    BY <1>1 DEF ResumeIsKept
  <2>2. /\ requests[q].decision = "approve"
        /\ outcome = "SUCCESS"
        /\ generations[r][requests[q].id].proposal.action = "create_maintenance_ticket"
        => TicketStands(r, requests[q].id)'
    BY <1>2 DEF TicketStands
  <2>. QED
    BY <1>2, <2>1, <2>2 DEF ResumeIsKept
<1>6. CheckpointIsKept(r)'
  BY <1>1, CheckpointMoves
<1>7. \A s \in Runs : StoreUndisturbed(s)
  BY UnchangedIsUndisturbed
<1>. QED
  BY <1>1, <1>3, <1>4, <1>5, <1>6, <1>7, DriverMovesOn

(* The graph of a start answers, or is interrupted.                        *)
LEMMA BindingKeeps ==
  ASSUME LifecycleInv, Store!IInv', Continues, NEW q \in Requests, requests[q] # None,
         requests[q].pc = "executing", requests[q].kind = "start",
         requests' \in [Requests -> HttpRequest \union {None}],
         UNCHANGED <<runs, generations, tickets, calls>>,
         NEW outcome \in Store!Outcomes \union {None},
         Moves(q, "binding", outcome, requests[q].call, None),
         NEW r \in Runs, requests[q].run = r,
         interrupts' \in [Runs -> Store!Request \union {None}],
         \A s \in Runs : s # r => interrupts'[s] = interrupts[s],
         interrupts'[r] # None =>
             runs[r].scope.profile \in ProfilesOffering(interrupts'[r].proposal.action),
         outcome = None => interrupts'[r] # None
  PROVE  LifecycleInv'
<1>1. /\ Drives(q)
      /\ runs[r] # None
      /\ runs[r].status = "RUNNING"
      /\ IsInOrder(q)
  BY GraphWorks
<1>2. /\ requests'[q] # None
      /\ requests'[q].kind = "start"
      /\ requests'[q].run = r
      /\ requests'[q].pc = "binding"
      /\ requests'[q].outcome = outcome
      /\ requests'[q].write = None
  BY DEF Moves
<1>3. TypeOK'
  BY TypeStays
<1>4. IsInOrder(q)'
  <2>1. \A g \in Gens : generations[r][g] = None
    BY <1>1 DEF IsInOrder
  <2>. QED
    BY <1>2, <2>1 DEF IsInOrder
<1>5. ResumeIsKept(q)'
  BY <1>2 DEF ResumeIsKept
<1>6. CheckpointIsKept(r)'
  BY <1>1, CheckpointMoves
<1>7. \A s \in Runs : StoreUndisturbed(s)
  BY UnchangedIsUndisturbed
<1>. QED
  BY <1>1, <1>3, <1>4, <1>5, <1>6, <1>7, DriverMovesOn

(* A resume whose model answers has its ticket by then.                    *)
LEMMA AnswersKeeps ==
  ASSUME LifecycleInv, Store!IInv', Continues, NEW q \in Requests,
         NEW outcome \in Store!Outcomes, Answers(q, outcome)
  PROVE  LifecycleInv'
<1>1. /\ requests[q] # None
      /\ requests[q].pc = "executing"
      /\ UNCHANGED <<runs, generations, tickets, calls, interrupts>>
  BY DEF Answers, At
<1>2. /\ requests[q].run \in Runs
      /\ requests[q].kind \in {"start", "resume"}
      /\ requests[q].write = None
      /\ ResumeIsKept(q)
      /\ Drives(q)
      /\ CheckpointIsKept(requests[q].run)
      /\ interrupts \in [Runs -> Store!Request \union {None}]
  BY <1>1, GraphWorks DEF HttpRequest
<1>3. PICK r \in Runs : requests[q].run = r
  BY <1>2
<1>4. /\ Moves(q, IF requests[q].kind = "start" THEN "binding" ELSE "ending",
                outcome, requests[q].call, None)
      /\ requests' \in [Requests -> HttpRequest \union {None}]
  BY <1>2, AnswersMoves DEF LifecycleInv
<1>5. interrupts'[r] # None =>
         runs[r].scope.profile \in ProfilesOffering(interrupts'[r].proposal.action)
  BY <1>1, <1>2, <1>3 DEF CheckpointIsKept
<1>6. CASE requests[q].kind = "start"
  <2>1. Moves(q, "binding", outcome, requests[q].call, None) /\ outcome # None
    BY <1>4, <1>6, NoneAssumption
  <2>. QED
    BY <1>1, <1>2, <1>3, <1>4, <1>5, <1>6, <2>1, BindingKeeps
<1>7. CASE requests[q].kind = "resume"
  <2>1. Moves(q, "ending", outcome, requests[q].call, None)
    BY <1>4, <1>7
  <2>2. TicketStands(r, requests[q].id)
    BY <1>1, <1>2, <1>3, <1>7 DEF ResumeIsKept
  <2>. QED
    BY <1>1, <1>2, <1>3, <1>4, <1>5, <2>1, <2>2, EndingKeeps
<1>. QED
  BY <1>2, <1>6, <1>7

(* A start that is interrupted was offered the write; so was its graph.    *)
LEMMA ProposesKeeps ==
  ASSUME LifecycleInv, Store!IInv', Continues, NEW q \in Requests, NEW g \in Gens,
         NEW p \in Proposals, Proposes(q, g, p)
  PROVE  LifecycleInv'
<1>1. /\ requests[q] # None
      /\ requests[q].pc = "executing"
      /\ UNCHANGED <<runs, generations, tickets, calls>>
  BY DEF Proposes, At
<1>2. /\ requests[q].run \in Runs
      /\ requests[q].kind \in {"start", "resume"}
      /\ requests[q].outcome \in Store!Outcomes \union {None}
      /\ requests[q].write = None
      /\ interrupts \in [Runs -> Store!Request \union {None}]
  BY <1>1, GraphWorks DEF HttpRequest
<1>3. PICK r \in Runs : requests[q].run = r
  BY <1>2
<1> DEFINE interrupt == [id |-> g, proposal |-> p]
<1>4. interrupt \in Store!Request /\ interrupt.proposal = p
  BY DEF Store!Request
<1>5. interrupts' = [interrupts EXCEPT ![r] = interrupt]
  BY <1>3 DEF Proposes
<1>6. runs[r].scope.profile \in ProfilesOffering(p.action)
  BY <1>3 DEF Proposes
<1>7. interrupt # None
  BY <1>4, NoneAssumption
<1> HIDE DEF interrupt
<1>8. /\ interrupts' \in [Runs -> Store!Request \union {None}]
      /\ interrupts'[r] = interrupt
      /\ \A s \in Runs : s # r => interrupts'[s] = interrupts[s]
  BY <1>2, <1>4, <1>5
<1>9. CASE requests[q].kind = "start"
  <2>1. GoesTo(q, "binding")
    BY <1>9 DEF Proposes
  <2>2. /\ Moves(q, "binding", requests[q].outcome, requests[q].call, None)
        /\ requests' \in [Requests -> HttpRequest \union {None}]
    BY <1>1, <1>2, <2>1, GoesToMoves DEF LifecycleInv, Running
  <2>. QED
    BY <1>1, <1>2, <1>3, <1>4, <1>6, <1>7, <1>8, <1>9, <2>2, BindingKeeps
<1>10. CASE requests[q].kind = "resume"
  <2>1. EndsRun(q, "FAILED", "none") /\ "FAILED" \in Store!Outcomes
    BY <1>10 DEF Proposes, Store!Outcomes
  <2>2. /\ Moves(q, "ending", "FAILED", requests[q].call, None)
        /\ requests' \in [Requests -> HttpRequest \union {None}]
    BY <1>1, <1>2, <2>1, EndsRunMoves DEF LifecycleInv
  <2>. QED
    BY <1>1, <1>2, <1>3, <1>4, <1>6, <1>8, <2>1, <2>2, EndingKeeps
<1>. QED
  BY <1>2, <1>9, <1>10

(* A resume that rejects has nothing to say of a ticket.                   *)
LEMMA CancelsKeeps ==
  ASSUME LifecycleInv, Store!IInv', Continues, NEW q \in Requests, Cancels(q)
  PROVE  LifecycleInv'
<1>1. /\ requests[q] # None
      /\ requests[q].pc = "deciding"
      /\ requests[q].decision = "reject"
      /\ UNCHANGED <<runs, generations, tickets, calls>>
  BY DEF Cancels, HasPendingAction, At
<1>2. requests[q].run \in Runs /\ requests[q].write = None
      /\ interrupts \in [Runs -> Store!Request \union {None}]
  BY <1>1, GraphWorks
<1>3. PICK r \in Runs : requests[q].run = r
  BY <1>2
<1>4. PICK outcome \in Store!Outcomes : EndsRun(q, outcome, "none")
  BY DEF Cancels, Store!Outcomes
<1>5. /\ Moves(q, "ending", outcome, requests[q].call, None)
      /\ requests' \in [Requests -> HttpRequest \union {None}]
  BY <1>1, <1>2, <1>4, EndsRunMoves DEF LifecycleInv
<1>6. /\ interrupts' \in [Runs -> Store!Request \union {None}]
      /\ interrupts'[r] = None
      /\ \A s \in Runs : s # r => interrupts'[s] = interrupts[s]
  BY <1>2, <1>3 DEF Cancels
<1>. QED
  BY <1>1, <1>3, <1>5, <1>6, EndingKeeps

(* A tool that answered for the token of a resume answered for its ticket. *)
LEMMA ToolReturnsKeeps ==
  ASSUME LifecycleInv, Store!IInv', Continues, NEW q \in Requests,
         NEW outcome \in Store!Outcomes, ToolReturns(q, outcome)
  PROVE  LifecycleInv'
<1>1. /\ requests[q] # None
      /\ requests[q].pc = "calling"
      /\ calls[requests[q].call].pc = "ok"
      /\ UNCHANGED <<runs, generations, tickets, calls>>
  BY DEF ToolReturns, At
<1>2. /\ requests[q].run \in Runs
      /\ requests[q].write = None
      /\ Drives(q)
      /\ IsInOrder(q)
      /\ ResumeIsKept(q)
      /\ runs[requests[q].run] # None
      /\ runs[requests[q].run].status = "RUNNING"
      /\ interrupts \in [Runs -> Store!Request \union {None}]
  BY <1>1, GraphWorks
<1>3. PICK r \in Runs : requests[q].run = r
  BY <1>2
<1>4. requests[q].kind = "resume"
  BY <1>1, <1>2 DEF IsInOrder
<1> DEFINE g == requests[q].id
           c == requests[q].call
<1>5. /\ g \in Gens
      /\ generations[r][g] # None
      /\ requests[q].decision \in Store!Decisions
      /\ generations[r][g].decision = requests[q].decision
      /\ c \in Calls
      /\ calls[c] # None
      /\ calls[c].run = r
      /\ calls[c].id = g
      /\ calls[c].proposal = generations[r][g].proposal
  BY <1>1, <1>2, <1>3, <1>4 DEF ResumeIsKept
<1>6. calls[c].proposal.action = "create_maintenance_ticket" => TicketStands(r, g)
  BY <1>1, <1>5, SMTT(30) DEF LifecycleInv, Store!IInv, Store!AnswersAreTrue, TicketStands
<1>7. /\ interrupts' \in [Runs -> Store!Request \union {None}]
      /\ interrupts'[r] = None
      /\ \A s \in Runs : s # r => interrupts'[s] = interrupts[s]
  BY <1>2, <1>3 DEF ToolReturns
<1>8. CASE calls[c].proposal.action # "create_maintenance_ticket"
  <2>1. EndsRun(q, outcome, "none")
    BY <1>8 DEF ToolReturns
  <2>2. /\ Moves(q, "ending", outcome, requests[q].call, None)
        /\ requests' \in [Requests -> HttpRequest \union {None}]
    BY <1>1, <1>2, <2>1, EndsRunMoves DEF LifecycleInv
  <2>3. generations[r][requests[q].id].proposal.action # "create_maintenance_ticket"
    BY <1>5, <1>8
  <2>. QED
    BY <1>1, <1>3, <1>7, <2>2, <2>3, EndingKeeps
<1>9. CASE calls[c].proposal.action = "create_maintenance_ticket"
  <2>1. GoesTo(q, "executing")
    BY <1>9 DEF ToolReturns
  <2>2. /\ Moves(q, "executing", requests[q].outcome, requests[q].call, None)
        /\ requests' \in [Requests -> HttpRequest \union {None}]
    BY <1>1, <1>2, <2>1, GoesToMoves DEF LifecycleInv, Running
  <2>3. /\ requests'[q] # None
        /\ requests'[q].kind = "resume"
        /\ requests'[q].run = r
        /\ requests'[q].id = g
        /\ requests'[q].decision = requests[q].decision
        /\ requests'[q].pc = "executing"
        /\ requests'[q].write = None
    BY <1>3, <1>4, <2>2 DEF Moves
  <2>4. IsInOrder(q)'
    BY <2>3 DEF IsInOrder
  <2>5. TicketStands(r, g)
    BY <1>6, <1>9
  <2>6. ResumeIsKept(q)'
    <3> HIDE DEF g
    <3>1. tickets'[r][g] # None /\ tickets'[r][g].target = generations'[r][g].proposal.target
      BY <1>1, <2>5 DEF TicketStands
    <3>. QED
      BY <1>1, <1>5, <2>3, <3>1 DEF ResumeIsKept, TicketStands
  <2>7. CheckpointIsKept(r)'
    BY <1>1, <1>2, <1>3, <1>7, CheckpointMoves
  <2>8. \A s \in Runs : StoreUndisturbed(s)
    BY <1>1, UnchangedIsUndisturbed
  <2>9. TypeOK'
    BY <1>7, <2>2, TypeStays
  <2>. QED
    BY <1>2, <1>3, <1>7, <2>2, <2>4, <2>6, <2>7, <2>8, <2>9, DriverMovesOn
<1>. QED
  BY <1>8, <1>9

(* The graph, or its tool, does not come to an end: the run fails.         *)
LEMMA GraphFailsKeeps ==
  ASSUME LifecycleInv, Store!IInv', Continues, NEW q \in Requests,
         ToolRaises(q) \/ GraphRaises(q) \/ TimesOut(q)
  PROVE  LifecycleInv'
<1>1. /\ requests[q] # None
      /\ requests[q].pc \in {"executing", "deciding", "calling"}
      /\ UNCHANGED <<runs, generations, tickets, calls, interrupts>>
  BY DEF ToolRaises, GraphRaises, TimesOut, At
<1>2. /\ requests[q].run \in Runs
      /\ requests[q].write = None
      /\ CheckpointIsKept(requests[q].run)
      /\ interrupts \in [Runs -> Store!Request \union {None}]
  BY <1>1, GraphWorks
<1>3. PICK r \in Runs : requests[q].run = r
  BY <1>2
<1>4. PICK fault \in {"raised", "timeout"} : EndsRun(q, "FAILED", fault)
  BY DEF ToolRaises, GraphRaises, TimesOut
<1>5. "FAILED" \in Store!Outcomes
  BY DEF Store!Outcomes
<1>6. /\ Moves(q, "ending", "FAILED", requests[q].call, None)
      /\ requests' \in [Requests -> HttpRequest \union {None}]
  BY <1>1, <1>2, <1>4, <1>5, EndsRunMoves DEF LifecycleInv
<1>7. interrupts'[r] # None =>
         runs[r].scope.profile \in ProfilesOffering(interrupts'[r].proposal.action)
  BY <1>1, <1>2, <1>3 DEF CheckpointIsKept
<1>. QED
  BY <1>1, <1>2, <1>3, <1>5, <1>6, <1>7, EndingKeeps

(* The graph's own steps, taken together.                                  *)
LEMMA GraphAloneKeeps ==
  ASSUME LifecycleInv, Store!IInv', Continues, NEW q \in Requests, GraphAlone(q)
  PROVE  LifecycleInv'
BY AnswersKeeps, ToolReturnsKeeps, ProposesKeeps, CancelsKeeps, GraphFailsKeeps DEF GraphAlone

(* A call that claims an approval leaves of every run what the requests    *)
(* rely on, and is about what it was sent.                                 *)
LEMMA ClaimUndisturbs ==
  ASSUME LifecycleInv, NEW c \in Calls, NEW r \in Runs, NEW g \in Gens, NEW p \in Proposals,
         NEW cl \in Store!WriteClearances,
         Store!ClaimApproved(c, r, g, p, cl) \/ Store!ClaimRefused(c, r, g, p, cl)
  PROVE  /\ \A s \in Runs : StoreUndisturbed(s)
         /\ calls'[c] # None
         /\ calls'[c].run = r
         /\ calls'[c].id = g
         /\ calls'[c].proposal = p
<1>0. TypeOK /\ Store!TypeOK
  BY DEF LifecycleInv, TypeOK
<1>1. ASSUME NEW pc \in {"owned", "lookup", "read", "ok", "denied", "unknown"},
             NEW claimed \in BOOLEAN,
             calls' = [calls EXCEPT ![c] = Store!NewCall(r, g, p, cl, pc, claimed)]
      PROVE  /\ calls'[c] # None
             /\ calls'[c].run = r
             /\ calls'[c].id = g
             /\ calls'[c].proposal = p
  <2> DEFINE call == Store!NewCall(r, g, p, cl, pc, claimed)
  <2>1. call \in Store!Call /\ call.run = r /\ call.id = g /\ call.proposal = p
    BY DEF Store!NewCall, Store!Call
  <2>2. call # None
    BY <2>1, NoneAssumption
  <2> HIDE DEF call
  <2>3. calls'[c] = call
    BY <1>0, <1>1 DEF Store!TypeOK, call
  <2>. QED
    BY <2>1, <2>2, <2>3
<1>2. CASE Store!ClaimRefused(c, r, g, p, cl)
  <2>1. UNCHANGED <<runs, generations>>
        /\ \E pc \in {"lookup", "denied"} :
              calls' = [calls EXCEPT ![c] = Store!NewCall(r, g, p, cl, pc, FALSE)]
    BY <1>2 DEF Store!ClaimRefused
  <2>2. \A s \in Runs : StoreUndisturbed(s)
    BY <2>1, UnchangedIsUndisturbed
  <2>. QED
    BY <1>1, <2>1, <2>2
<1>3. CASE Store!ClaimApproved(c, r, g, p, cl)
  <2> DEFINE run == [runs[r] EXCEPT !.request = None]
             generation == [generations[r][g] EXCEPT !.consumed = TRUE]
  <2>1. PICK pc \in {"owned", "unknown"} :
           /\ Store!MayClaim(Store!NewCall(r, g, p, cl, pc, TRUE))
           /\ calls' = [calls EXCEPT ![c] = Store!NewCall(r, g, p, cl, pc, TRUE)]
    BY <1>3 DEF Store!ClaimApproved
  <2>2. runs[r] # None /\ runs[r].status = "RUNNING" /\ generations[r][g] # None
    BY <2>1
       DEF Store!MayClaim, Store!NewCall, Store!MatchesProtectedActionApproval,
           Store!MatchesApprovalGeneration
  <2>3. runs[r] \in Store!Run /\ generations[r][g] \in Store!Generation
    BY <2>2, StoreFacts
  <2>4. /\ run \in Store!Run
        /\ run.status = runs[r].status
        /\ run.bound = runs[r].bound
        /\ run.scope = runs[r].scope
        /\ run.action = runs[r].action
    BY <2>3 DEF Store!Run
  <2>5. /\ generation \in Store!Generation
        /\ generation.proposal = generations[r][g].proposal
        /\ generation.decision = generations[r][g].decision
        /\ generation.approver = generations[r][g].approver
    BY <2>3 DEF Store!Generation
  <2>6. runs' = [runs EXCEPT ![r] = run] /\ generations' = [generations EXCEPT ![r][g] = generation]
    BY <1>3 DEF Store!ClaimApproved
  <2>7. run # None /\ generation # None
    BY <2>4, <2>5, NoneAssumption
  <2> HIDE DEF run, generation
  <2>8. runs'[r] = run /\ \A s \in Runs : s # r => runs'[s] = runs[s]
    BY <1>0, <2>6 DEF Store!TypeOK
  <2>9. /\ generations'[r][g] = generation
        /\ \A h \in Gens : h # g => generations'[r][h] = generations[r][h]
        /\ \A s \in Runs : s # r => generations'[s] = generations[s]
    BY <1>0, <2>6 DEF Store!TypeOK, Store!History
  <2>10. StoreUndisturbed(r)
    BY <2>2, <2>4, <2>5, <2>7, <2>8, <2>9 DEF StoreUndisturbed
  <2>11. \A s \in Runs : s # r => StoreUndisturbed(s)
    BY <2>8, <2>9, UnchangedIsUndisturbed
  <2>. QED
    BY <1>1, <2>1, <2>10, <2>11
<1>. QED
  BY <1>2, <1>3

(* The call is sent the decided proposal, under the decided token.         *)
LEMMA CallsToolKeeps ==
  ASSUME LifecycleInv, Store!IInv', Continues, NEW q \in Requests, NEW c \in Calls,
         CallsTool(q, c)
  PROVE  LifecycleInv'
<1>1. /\ requests[q] # None
      /\ requests[q].pc = "deciding"
      /\ interrupts[requests[q].run] # None
      /\ UNCHANGED interrupts
  BY DEF CallsTool, HasPendingAction, At
<1>2. /\ requests[q].run \in Runs
      /\ requests[q].write = None
      /\ Drives(q)
      /\ IsInOrder(q)
      /\ ResumeIsKept(q)
      /\ CheckpointIsKept(requests[q].run)
      /\ interrupts \in [Runs -> Store!Request \union {None}]
  BY <1>1, GraphWorks
<1>3. PICK r \in Runs : requests[q].run = r
  BY <1>2
<1> DEFINE claim == interrupts[r]
           g == requests[q].id
           identity == ProfileClassification[runs[r].scope.profile]
<1>4. requests[q].kind = "resume"
  BY <1>1, <1>2 DEF IsInOrder
<1>5. /\ g \in Gens
      /\ generations[r][g] # None
      /\ requests[q].decision \in Store!Decisions
      /\ generations[r][g].decision = requests[q].decision
      /\ claim.id = g
      /\ claim.proposal = generations[r][g].proposal
  BY <1>1, <1>2, <1>3, <1>4 DEF ResumeIsKept
<1>6. claim.proposal \in Proposals
  BY <1>1, <1>2, <1>3 DEF Store!Request
<1>7. identity \in Store!WriteClearances
  <2>1. runs[r].scope.profile \in ProfilesOffering(claim.proposal.action)
    BY <1>1, <1>2, <1>3 DEF CheckpointIsKept
  <2>. QED
    BY <2>1
       DEF ProfilesOffering, ProfileClassification, Profiles, Store!WriteClearances,
           CONFIDENTIAL, RESTRICTED, Store!CONFIDENTIAL, Store!RESTRICTED
<1>8. \/ Store!ClaimApproved(c, r, claim.id, claim.proposal, identity)
      \/ Store!ClaimRefused(c, r, claim.id, claim.proposal, identity)
  BY <1>3 DEF CallsTool
<1>9. /\ Moves(q, "calling", requests[q].outcome, c, None)
      /\ requests' \in [Requests -> HttpRequest \union {None}]
  BY <1>2, CallsToolMoves DEF LifecycleInv
<1> HIDE DEF claim, identity
<1>10. /\ \A s \in Runs : StoreUndisturbed(s)
       /\ calls'[c] # None
       /\ calls'[c].run = r
       /\ calls'[c].id = g
       /\ calls'[c].proposal = claim.proposal
  BY <1>5, <1>6, <1>7, <1>8, ClaimUndisturbs
<1>11. /\ generations'[r][g] # None
       /\ generations'[r][g].proposal = generations[r][g].proposal
       /\ generations'[r][g].decision = generations[r][g].decision
  BY <1>5, <1>10 DEF StoreUndisturbed
<1>12. /\ requests'[q] # None
       /\ requests'[q].kind = "resume"
       /\ requests'[q].run = r
       /\ requests'[q].id = g
       /\ requests'[q].decision = requests[q].decision
       /\ requests'[q].pc = "calling"
       /\ requests'[q].call = c
       /\ requests'[q].write = None
  BY <1>3, <1>4, <1>9 DEF Moves
<1>13. IsInOrder(q)'
  BY <1>12 DEF IsInOrder
<1> HIDE DEF g
<1>14. ResumeIsKept(q)'
  BY <1>5, <1>10, <1>11, <1>12 DEF ResumeIsKept
<1>15. CheckpointIsKept(r)'
  <2>1. Undisturbed(r)
    BY <1>1, <1>10 DEF Undisturbed
  <2>. QED
    BY <2>1, RunStays
<1>16. TypeOK'
  BY <1>1, <1>2, <1>9, TypeStays
<1>. QED
  BY <1>1, <1>2, <1>3, <1>9, <1>10, <1>13, <1>14, <1>15, <1>16, DriverMovesOn

(* What is known of a request whose store call is due.                     *)
LEMMA StoreCallIsDue ==
  ASSUME LifecycleInv, NEW q \in Requests, requests[q] # None,
         requests[q].pc \in {"binding", "persisting", "ending"}
  PROVE  /\ Drives(q)
         /\ requests[q] \in HttpRequest
         /\ requests[q].run \in Runs
         /\ runs[requests[q].run] # None
         /\ runs[requests[q].run].status = "RUNNING"
         /\ \A p \in Requests : Drives(p) /\ requests[p].run = requests[q].run => p = q
         /\ IsInOrder(q)
         /\ ResumeIsKept(q)
         /\ CheckpointIsKept(requests[q].run)
         /\ RunDecidedByTheAuthorized(requests[q].run)
         /\ interrupts \in [Runs -> Store!Request \union {None}]
<1>1. Drives(q) /\ requests[q] \in HttpRequest
  BY DEF Drives, Running, LifecycleInv, TypeOK
<1>2. requests[q].run \in Runs
  BY <1>1 DEF HttpRequest
<1>. QED
  BY <1>1, <1>2
     DEF LifecycleInv, RunHasOneDriver, TypeOK, DecidedByTheAuthorized, RunDecidedByTheAuthorized

(* To read a record changes nothing of the run.                            *)
LEMMA ReadsKeeps ==
  ASSUME LifecycleInv, Store!IInv', Continues, NEW q \in Requests, Reads(q)
  PROVE  LifecycleInv'
<1>1. /\ requests[q] # None
      /\ requests[q].pc \in {"binding", "ending"}
      /\ UNCHANGED <<runs, generations, tickets, calls, interrupts>>
  BY DEF Reads, At
<1>2. /\ Drives(q)
      /\ requests[q].run \in Runs
      /\ runs[requests[q].run] # None
      /\ runs[requests[q].run].status = "RUNNING"
      /\ IsInOrder(q)
      /\ ResumeIsKept(q)
      /\ CheckpointIsKept(requests[q].run)
      /\ interrupts \in [Runs -> Store!Request \union {None}]
  BY <1>1, StoreCallIsDue
<1>3. PICK r \in Runs : requests[q].run = r
  BY <1>2
<1>4. /\ Moves(q, requests[q].pc, requests[q].outcome, requests[q].call, Copy(q))
      /\ requests' \in [Requests -> HttpRequest \union {None}]
  BY CopyIsOne, ReadsMoves DEF LifecycleInv
<1>5. /\ requests'[q] # None
      /\ requests'[q].kind = requests[q].kind
      /\ requests'[q].run = r
      /\ requests'[q].id = requests[q].id
      /\ requests'[q].decision = requests[q].decision
      /\ requests'[q].pc = requests[q].pc
      /\ requests'[q].outcome = requests[q].outcome
      /\ requests'[q].write = Copy(q)
  BY <1>3, <1>4 DEF Moves
<1>6. IsInOrder(q)'
  <2>1. requests[q].pc = "binding" => Copy(q).op = "bind"
    BY DEF Copy
  <2>. QED
    BY <1>1, <1>2, <1>3, <1>5, <2>1 DEF IsInOrder
<1>7. ResumeIsKept(q)'
  <2> SUFFICES ASSUME requests[q].kind = "resume" PROVE ResumeIsKept(q)'
    BY <1>5 DEF ResumeIsKept
  <2>. QED
    BY <1>1, <1>2, <1>3, <1>5 DEF ResumeIsKept, TicketStands
<1>8. CheckpointIsKept(r)'
  BY <1>1, <1>2, <1>3, CheckpointMoves DEF CheckpointIsKept
<1>9. \A s \in Runs : StoreUndisturbed(s)
  BY <1>1, UnchangedIsUndisturbed
<1>10. TypeOK'
  BY <1>1, <1>2, <1>4, TypeStays
<1>. QED
  BY <1>1, <1>2, <1>3, <1>4, <1>6, <1>7, <1>8, <1>9, <1>10, DriverMovesOn

(* A store call that raises leaves the run to be failed.                   *)
LEMMA StoreRaisesKeeps ==
  ASSUME LifecycleInv, Store!IInv', Continues, NEW q \in Requests, StoreRaises(q)
  PROVE  LifecycleInv'
<1>1. /\ requests[q] # None
      /\ requests[q].pc \in {"binding", "persisting", "ending"}
      /\ UNCHANGED <<runs, generations, tickets, calls, interrupts>>
  BY DEF StoreRaises, At
<1>2. /\ Drives(q)
      /\ requests[q].run \in Runs
      /\ runs[requests[q].run] # None
      /\ runs[requests[q].run].status = "RUNNING"
      /\ ResumeIsKept(q)
      /\ CheckpointIsKept(requests[q].run)
      /\ interrupts \in [Runs -> Store!Request \union {None}]
  BY <1>1, StoreCallIsDue
<1>3. PICK r \in Runs : requests[q].run = r
  BY <1>2
<1>4. /\ Moves(q, "ending", "FAILED", requests[q].call, None)
      /\ requests' \in [Requests -> HttpRequest \union {None}]
  BY StoreRaisesMoves DEF LifecycleInv
<1>5. /\ requests'[q] # None
      /\ requests'[q].kind = requests[q].kind
      /\ requests'[q].run = r
      /\ requests'[q].id = requests[q].id
      /\ requests'[q].decision = requests[q].decision
      /\ requests'[q].pc = "ending"
      /\ requests'[q].outcome = "FAILED"
      /\ requests'[q].write = None
  BY <1>3, <1>4 DEF Moves
<1>6. IsInOrder(q)'
  BY <1>5, NoneAssumption DEF IsInOrder, Store!Outcomes
<1>7. ResumeIsKept(q)'
  BY <1>1, <1>2, <1>3, <1>5 DEF ResumeIsKept
<1>8. CheckpointIsKept(r)'
  BY <1>1, <1>2, <1>3, CheckpointMoves DEF CheckpointIsKept
<1>9. \A s \in Runs : StoreUndisturbed(s)
  BY <1>1, UnchangedIsUndisturbed
<1>10. TypeOK'
  BY <1>1, <1>2, <1>4, TypeStays
<1>. QED
  BY <1>1, <1>2, <1>3, <1>4, <1>6, <1>7, <1>8, <1>9, <1>10, DriverMovesOn

(* A request that stops leaves the run as it is, and to nobody.            *)
LEMMA StopsKeeps ==
  ASSUME LifecycleInv, Store!IInv', Continues, NEW q \in Requests, Stops(q)
  PROVE  LifecycleInv'
<1>1. /\ requests[q] # None
      /\ requests[q].pc \in Running
      /\ UNCHANGED <<runs, generations, tickets, calls, interrupts>>
  BY DEF Stops
<1>2. /\ requests[q].run \in Runs
      /\ interrupts \in [Runs -> Store!Request \union {None}]
  BY <1>1 DEF LifecycleInv, TypeOK, HttpRequest
<1>3. PICK r \in Runs : requests[q].run = r
  BY <1>2
<1>4. /\ Moves(q, "stopped", requests[q].outcome, requests[q].call, None)
      /\ requests' \in [Requests -> HttpRequest \union {None}]
  BY StopsMoves DEF LifecycleInv
<1>5. /\ OthersStay(q)
      /\ requests'[q] # None
      /\ requests'[q].run = r
      /\ requests'[q].pc = "stopped"
      /\ requests'[q].write = None
  BY <1>3, <1>4 DEF Moves
<1>6. ~ Drives(q)'
  BY <1>5 DEF Drives, Running
<1>7. IsInOrder(q)' /\ AuthorizedMayDecide(q)' /\ ResumeIsKept(q)'
  BY <1>5, <1>6 DEF IsInOrder, AuthorizedMayDecide, ResumeIsKept, At
<1>8. \A s \in Runs : Undisturbed(s)
  BY <1>1, UnchangedIsUndisturbed DEF Undisturbed
<1>9. CheckpointIsKept(r)' /\ RunDecidedByTheAuthorized(r)'
  BY <1>8, RunStays
<1>10. TypeOK'
  BY <1>1, <1>2, <1>4, TypeStays
<1>. QED
  BY <1>5, <1>6, <1>7, <1>8, <1>9, <1>10, RequestStepKeeps

(* The record a request read is that of a running run.                     *)
LEMMA RunIsRewritten ==
  ASSUME LifecycleInv, NEW q \in Requests, NEW r \in Runs, requests[q] # None,
         requests[q].run = r, requests[q].write # None,
         runs' = [runs EXCEPT ![r] = Store!Rewritten(requests[q].write)]
  PROVE  /\ \A s \in Runs : s # r => runs'[s] = runs[s]
         /\ runs'[r] # None
         /\ runs'[r].scope = runs[r].scope
         /\ requests[q].write.op = "bind" => runs'[r].status = "RUNNING" /\ runs'[r].bound
         /\ runs'[r].status # "WAITING_FOR_APPROVAL"
<1> DEFINE w == requests[q].write
           bound == [w.read EXCEPT !.bound = TRUE]
           ended == [w.read EXCEPT !.status = w.op, !.request = None]
<1>1. Drives(q) /\ \A p \in Requests : HasWrite(requests, p, r) => p = q
  BY WritesAreAlone
<1>2. writerBar[r] = w
  BY <1>1, OneWriter, WriterBar DEF HasWrite
<1>3. w \in Store!PendingWrite
  BY DEF LifecycleInv, TypeOK, HttpRequest
<1>4. w.read.status = "RUNNING" /\ w.read.scope = runs[r].scope
  BY <1>2 DEF LifecycleInv, Store!IInv, Store!WriterReadRecord
<1>5. w.read \in Store!Run /\ w.op \in Store!Outcomes \union {"bind"}
  BY <1>3 DEF Store!PendingWrite
<1>6. /\ bound \in Store!Run
      /\ bound.status = w.read.status
      /\ bound.scope = w.read.scope
      /\ bound.bound
  BY <1>5 DEF Store!Run
<1>7. w.op # "bind" => /\ ended \in Store!Run
                       /\ ended.status = w.op
                       /\ ended.scope = w.read.scope
  BY <1>5 DEF Store!Run, Store!Statuses
<1>8. Store!Rewritten(w) = IF w.op = "bind" THEN bound ELSE ended
  BY DEF Store!Rewritten
<1>9. runs \in [Runs -> Store!Run \union {None}]
  BY DEF LifecycleInv, TypeOK, Store!TypeOK
<1> HIDE DEF bound, ended, w
<1>10. runs'[r] = (IF w.op = "bind" THEN bound ELSE ended) /\ \A s \in Runs : s # r => runs'[s] = runs[s]
  BY <1>8, <1>9 DEF w
<1>11. w.op # "bind" => w.op # "WAITING_FOR_APPROVAL"
  BY <1>5 DEF Store!Outcomes
<1>. QED
  BY <1>4, <1>6, <1>7, <1>10, <1>11, NoneAssumption DEF w

(* A driver binds its run and goes on, or ends it and answers.             *)
LEMMA WritesKeeps ==
  ASSUME LifecycleInv, Store!IInv', Continues, NEW q \in Requests, Writes(q)
  PROVE  LifecycleInv'
<1>1. /\ requests[q] # None
      /\ requests[q].write # None
      /\ requests[q].pc \in {"binding", "ending"}
      /\ UNCHANGED <<generations, tickets, calls, interrupts>>
  BY DEF Writes, LifecycleInv, IsInOrder
<1>2. /\ Drives(q)
      /\ requests[q] \in HttpRequest
      /\ requests[q].run \in Runs
      /\ runs[requests[q].run] # None
      /\ runs[requests[q].run].status = "RUNNING"
      /\ \A p \in Requests : Drives(p) /\ requests[p].run = requests[q].run => p = q
      /\ IsInOrder(q)
      /\ ResumeIsKept(q)
      /\ CheckpointIsKept(requests[q].run)
      /\ RunDecidedByTheAuthorized(requests[q].run)
      /\ interrupts \in [Runs -> Store!Request \union {None}]
  BY <1>1, StoreCallIsDue
<1>3. PICK r \in Runs : requests[q].run = r
  BY <1>2
<1>4. runs' = [runs EXCEPT ![r] = Store!Rewritten(requests[q].write)]
  BY <1>3 DEF Writes
<1>5. /\ \A s \in Runs : s # r => runs'[s] = runs[s]
      /\ runs'[r] # None
      /\ runs'[r].scope = runs[r].scope
      /\ requests[q].write.op = "bind" => runs'[r].status = "RUNNING" /\ runs'[r].bound
      /\ runs'[r].status # "WAITING_FOR_APPROVAL"
  BY <1>1, <1>3, <1>4, RunIsRewritten
<1>6. /\ Moves(q, AfterWrite(q), requests[q].outcome, requests[q].call, None)
      /\ requests' \in [Requests -> HttpRequest \union {None}]
  BY WritesMoves DEF LifecycleInv
<1>7. /\ OthersStay(q)
      /\ requests'[q] # None
      /\ requests'[q].kind = requests[q].kind
      /\ requests'[q].run = r
      /\ requests'[q].id = requests[q].id
      /\ requests'[q].decision = requests[q].decision
      /\ requests'[q].outcome = requests[q].outcome
      /\ requests'[q].write = None
      /\ requests'[q].pc = AfterWrite(q)
  BY <1>3, <1>6 DEF Moves
<1>8. \/ requests[q].pc = "ending" /\ AfterWrite(q) = "answered"
      \/ /\ requests[q].pc = "binding"
         /\ requests[q].kind = "start"
         /\ requests[q].write.op = "bind"
         /\ requests[q].outcome = None => interrupts[r] # None
         /\ AfterWrite(q) = IF requests[q].outcome = None THEN "persisting" ELSE "ending"
  BY <1>1, <1>2, <1>3 DEF AfterWrite, IsInOrder
<1>9. Drives(q)' => runs'[r] # None /\ runs'[r].status = "RUNNING"
  BY <1>5, <1>7, <1>8 DEF Drives, Running
<1>10. IsInOrder(q)'
  BY <1>1, <1>5, <1>7, <1>8 DEF IsInOrder, Drives, Running
<1>11. AuthorizedMayDecide(q)'
  BY <1>7, <1>8 DEF AuthorizedMayDecide, At
<1>12. ResumeIsKept(q)'
  <2> SUFFICES ASSUME requests[q].kind = "resume" PROVE ResumeIsKept(q)'
    BY <1>7 DEF ResumeIsKept
  <2>1. requests[q].pc = "ending" /\ requests'[q].pc = "answered"
    BY <1>7, <1>8
  <2>. QED
    BY <1>1, <1>2, <1>3, <1>7, <2>1 DEF ResumeIsKept, TicketStands
<1>13. CheckpointIsKept(r)'
  <2>1. \A g \in Gens : generations[r][g] # None => generations[r][g].decision # None
    BY <1>2, <1>3 DEF CheckpointIsKept
  <2>2. interrupts[r] # None =>
           runs[r].scope.profile \in ProfilesOffering(interrupts[r].proposal.action)
    BY <1>2, <1>3 DEF CheckpointIsKept
  <2>. QED
    BY <1>1, <1>5, <2>1, <2>2 DEF CheckpointIsKept
<1>14. RunDecidedByTheAuthorized(r)'
  BY <1>1, <1>2, <1>3, <1>5 DEF RunDecidedByTheAuthorized
<1>15. \A s \in Runs : s # r => Undisturbed(s)
  BY <1>1, <1>5, UnchangedIsUndisturbed DEF Undisturbed
<1>16. TypeOK'
  BY <1>1, <1>2, <1>6, TypeStays
<1>. QED
  BY <1>2, <1>3, <1>7, <1>9, <1>10, <1>11, <1>12, <1>13, <1>14, <1>15, <1>16, RequestStepKeeps

(* What is put to a human is what the graph is interrupted for.            *)
LEMMA PersistsKeeps ==
  ASSUME LifecycleInv, Store!IInv', Continues, NEW q \in Requests, Persists(q)
  PROVE  LifecycleInv'
<1>0. TypeOK /\ Store!TypeOK
  BY DEF LifecycleInv, TypeOK
<1>1. /\ requests[q] # None
      /\ requests[q].pc = "persisting"
      /\ UNCHANGED <<tickets, calls, interrupts>>
  BY DEF Persists, At
<1>2. /\ Drives(q)
      /\ requests[q].run \in Runs
      /\ runs[requests[q].run] # None
      /\ runs[requests[q].run].status = "RUNNING"
      /\ \A p \in Requests : Drives(p) /\ requests[p].run = requests[q].run => p = q
      /\ IsInOrder(q)
      /\ CheckpointIsKept(requests[q].run)
      /\ RunDecidedByTheAuthorized(requests[q].run)
      /\ interrupts \in [Runs -> Store!Request \union {None}]
      /\ requests[q].write = None
  BY <1>1, StoreCallIsDue, WriteIsDue
<1>3. PICK r \in Runs : requests[q].run = r
  BY <1>2
<1> DEFINE proposed == interrupts[r]
           g == proposed.id
           action == proposed.proposal.action
           run == [runs[r] EXCEPT !.status = "WAITING_FOR_APPROVAL", !.request = proposed,
                                  !.action = action, !.decision = None, !.approver = None]
           generation == [scope |-> runs[r].scope, proposal |-> proposed.proposal,
                          decision |-> None, approver |-> None, consumed |-> FALSE]
<1>4. proposed # None /\ proposed \in Store!Request /\ requests[q].kind = "start"
  BY <1>1, <1>2, <1>3 DEF IsInOrder
<1>5. g \in Gens /\ proposed.proposal \in Proposals
  BY <1>4 DEF Store!Request
<1>6. action \in Store!ActionNames
  BY <1>5, RequestsAssumption DEF ActionNames, Store!ActionNames
<1>7. runs[r] \in Store!Run
  BY <1>0, <1>2, <1>3 DEF Store!TypeOK
<1>8. /\ run \in Store!Run
      /\ run.status = "WAITING_FOR_APPROVAL"
      /\ run.request = proposed
      /\ run.action = action
      /\ run.scope = runs[r].scope
  <2> HIDE DEF proposed, action
  <2>1. "WAITING_FOR_APPROVAL" \in Store!Statuses
    BY DEF Store!Statuses
  <2>2. run \in Store!Run
    BY <1>4, <1>6, <1>7, <2>1 DEF Store!Run
  <2>3. run.status = "WAITING_FOR_APPROVAL" /\ run.request = proposed
    BY <1>7 DEF Store!Run
  <2>4. run.action = action /\ run.scope = runs[r].scope
    BY <1>7 DEF Store!Run
  <2>. QED
    BY <2>2, <2>3, <2>4
<1>9. generation \in Store!Generation /\ generation.decision = None
  BY <1>5, <1>7 DEF Store!Generation, Store!Run
<1>10. /\ runs' = [runs EXCEPT ![r] = run]
       /\ generations' = [generations EXCEPT ![r][g] = generation]
       /\ generations[r][g] = None
       /\ GoesTo(q, "answered")
  BY <1>3 DEF Persists
<1>11. run # None /\ generation # None
  BY <1>8, <1>9, NoneAssumption
<1> HIDE DEF run, generation
<1>12. runs'[r] = run /\ \A s \in Runs : s # r => runs'[s] = runs[s]
  BY <1>0, <1>10 DEF Store!TypeOK
<1>13. /\ generations'[r][g] = generation
       /\ \A h \in Gens : h # g => generations'[r][h] = generations[r][h]
       /\ \A s \in Runs : s # r => generations'[s] = generations[s]
  BY <1>0, <1>5, <1>10 DEF Store!TypeOK, Store!History
<1>14. /\ Moves(q, "answered", requests[q].outcome, requests[q].call, None)
       /\ requests' \in [Requests -> HttpRequest \union {None}]
  BY <1>0, <1>1, <1>2, <1>10, GoesToMoves DEF Ended
<1>15. /\ OthersStay(q)
       /\ requests'[q] # None
       /\ requests'[q].kind = "start"
       /\ requests'[q].run = r
       /\ requests'[q].write = None
       /\ requests'[q].pc = "answered"
  BY <1>3, <1>4, <1>14 DEF Moves
<1>16. ~ Drives(q)'
  BY <1>15 DEF Drives, Running
<1>17. IsInOrder(q)' /\ AuthorizedMayDecide(q)' /\ ResumeIsKept(q)'
  BY <1>15, <1>16 DEF IsInOrder, AuthorizedMayDecide, ResumeIsKept, At
<1>18. CheckpointIsKept(r)'
  <2>1. \A h \in Gens : generations[r][h] # None => generations[r][h].decision # None
    BY <1>2, <1>3 DEF CheckpointIsKept
  <2>2. runs[r].scope.profile \in ProfilesOffering(proposed.proposal.action)
    BY <1>2, <1>3, <1>4 DEF CheckpointIsKept
  <2>. QED
    BY <1>1, <1>8, <1>11, <1>12, <1>13, <2>1, <2>2 DEF CheckpointIsKept
<1>19. RunDecidedByTheAuthorized(r)'
  BY <1>2, <1>3, <1>8, <1>9, <1>12, <1>13 DEF RunDecidedByTheAuthorized
<1>20. \A s \in Runs : s # r => Undisturbed(s)
  BY <1>1, <1>12, <1>13, UnchangedIsUndisturbed DEF Undisturbed
<1>21. TypeOK'
  BY <1>1, <1>2, <1>14, TypeStays
<1>22. \A p \in Requests : p # q /\ Drives(p) /\ requests[p].run = r =>
          Undisturbed(r) /\ ~ Drives(q)'
  BY <1>2, <1>3
<1> HIDE DEF proposed, g
<1>. QED
  BY <1>15, <1>16, <1>17, <1>18, <1>19, <1>20, <1>21, <1>22, RequestStepKeeps

(* A run that is not there has no driver, no checkpoint, no generations.   *)
LEMMA StartKeeps ==
  ASSUME LifecycleInv, Store!IInv', Continues, NEW q \in Requests, NEW r \in Runs,
         NEW s \in RunScopes, NEW cl \in UserClearances, Start(q, r, s, cl)
  PROVE  LifecycleInv'
<1> DEFINE run == [status |-> "RUNNING", scope |-> s, bound |-> FALSE, request |-> None,
                   action |-> None, decision |-> None, approver |-> None]
<1>1. /\ runs[r] = None
      /\ runs' = [runs EXCEPT ![r] = run]
      /\ requests[q] = None
      /\ requests' = [requests EXCEPT ![q] = NewRequest("start", r, "executing", None, None, cl)]
      /\ UNCHANGED <<generations, tickets, calls, interrupts>>
  BY DEF Start
<1>2. run \in Store!Run /\ run.status = "RUNNING" /\ run # None
  <2>1. run \in Store!Run
    BY DEF Store!Run, Store!Statuses
  <2>. QED
    BY <2>1, NoneAssumption
<1> HIDE DEF run
<1>3. runs'[r] = run /\ \A o \in Runs : o # r => runs'[o] = runs[o]
  BY <1>1 DEF LifecycleInv, TypeOK, Store!TypeOK
<1>4. /\ requests' \in [Requests -> HttpRequest \union {None}]
      /\ OthersStay(q)
      /\ requests'[q] # None
      /\ requests'[q].kind = "start"
      /\ requests'[q].run = r
      /\ requests'[q].pc = "executing"
      /\ requests'[q].write = None
  <2>1. /\ "executing" \in Running \union Ended
        /\ None \in Gens \union {None}
        /\ None \in Store!Decisions \union {None}
    BY DEF Running
  <2>2. /\ requests[q] = None
        /\ requests' = [requests EXCEPT ![q] = NewRequest("start", r, "executing", None, None, cl)]
        /\ TypeOK
    BY <1>1 DEF LifecycleInv
  <2>3. requests' \in [Requests -> HttpRequest \union {None}] /\ OthersStay(q)
    BY <2>1, <2>2, NewRequestAppears
  <2>4. requests'[q] # None
    BY <2>1, <2>2, NewRequestAppears
  <2>5. requests'[q] = NewRequest("start", r, "executing", None, None, cl)
    BY <2>2 DEF TypeOK
  <2>6. /\ requests'[q].kind = "start"
        /\ requests'[q].run = r
        /\ requests'[q].pc = "executing"
        /\ requests'[q].write = None
    BY <2>5 DEF NewRequest
  <2>. QED
    BY <2>3, <2>4, <2>6
<1>5. \A g \in Gens : generations[r][g] = None
  BY <1>1, StoreFacts
<1>6. interrupts[r] = None
  BY <1>1 DEF LifecycleInv, CheckpointIsKept
<1>7. \A p \in Requests : ~ (Drives(p) /\ requests[p].run = r)
  BY <1>1 DEF LifecycleInv, RunHasOneDriver
<1>8. IsInOrder(q)' /\ AuthorizedMayDecide(q)' /\ ResumeIsKept(q)'
  BY <1>1, <1>4, <1>5 DEF IsInOrder, AuthorizedMayDecide, ResumeIsKept, At
<1>9. CheckpointIsKept(r)' /\ RunDecidedByTheAuthorized(r)'
  BY <1>1, <1>2, <1>3, <1>5, <1>6 DEF CheckpointIsKept, RunDecidedByTheAuthorized
<1>10. \A o \in Runs : o # r => Undisturbed(o)
  BY <1>1, <1>3, UnchangedIsUndisturbed DEF Undisturbed
<1>11. TypeOK'
  BY <1>1, <1>4, TypeStays DEF LifecycleInv, TypeOK
<1>. QED
  BY <1>2, <1>3, <1>4, <1>7, <1>8, <1>9, <1>10, <1>11, RequestStepKeeps

(* Who is let past the check was shown the action of its token, unless     *)
(* that is decided already.                                                *)
LEMMA ResumeKeeps ==
  ASSUME LifecycleInv, Store!IInv', Continues, NEW q \in Requests, NEW r \in Runs,
         NEW g \in Gens, NEW d \in Store!Decisions, NEW cl \in UserClearances,
         Resume(q, r, g, d, cl)
  PROVE  LifecycleInv'
<1> DEFINE pc == IF IsRunResumableBy(r, cl) THEN "authorized" ELSE "refused"
<1>1. /\ requests[q] = None
      /\ generations[r][g] # None
      /\ requests' = [requests EXCEPT ![q] = NewRequest("resume", r, pc, g, d, cl)]
      /\ UNCHANGED <<runs, generations, tickets, calls, interrupts>>
  BY DEF Resume
<1>2. pc \in {"authorized", "refused"} /\ (pc = "authorized" => IsRunResumableBy(r, cl))
  OBVIOUS
<1> HIDE DEF pc
<1>3. /\ requests' \in [Requests -> HttpRequest \union {None}]
      /\ OthersStay(q)
      /\ requests'[q] # None
      /\ requests'[q].kind = "resume"
      /\ requests'[q].run = r
      /\ requests'[q].pc = pc
      /\ requests'[q].id = g
      /\ requests'[q].decision = d
      /\ requests'[q].clearance = cl
      /\ requests'[q].write = None
  BY <1>1, <1>2, NewRequestAppears, ZenonT(30) DEF LifecycleInv, Running, Ended
<1>4. ~ Drives(q)'
  BY <1>2, <1>3 DEF Drives, Running
<1>5. IsInOrder(q)' /\ ResumeIsKept(q)'
  BY <1>2, <1>3, <1>4 DEF IsInOrder, ResumeIsKept, At
<1>6. AuthorizedMayDecide(q)'
  <2> SUFFICES ASSUME pc = "authorized"
               PROVE  /\ IsRunVisible(runs[r].scope.classification, cl)
                      /\ generations[r][g].decision = None =>
                            IsActionProfileAuthorized(generations[r][g].proposal.action,
                                                      runs[r].scope)
    BY <1>1, <1>3 DEF AuthorizedMayDecide, At
  <2>1. IsRunResumableBy(r, cl)
    BY <1>2
  <2>2. ASSUME generations[r][g].decision = None
        PROVE  IsActionProfileAuthorized(generations[r][g].proposal.action, runs[r].scope)
    <3>1. runs[r] # None /\ runs[r].status = "WAITING_FOR_APPROVAL" /\ runs[r].request.id = g
      BY <1>1, <2>1, <2>2 DEF LifecycleInv, CheckpointIsKept, IsRunResumableBy
    <3>2. generations[r][g].proposal = runs[r].request.proposal
      BY <3>1, StoreFacts
    <3>3. runs[r].action = runs[r].request.proposal.action
      BY <3>1 DEF LifecycleInv, CheckpointIsKept
    <3>. QED
      BY <2>1, <3>1, <3>2, <3>3 DEF IsRunResumableBy
  <2>. QED
    BY <2>1, <2>2 DEF IsRunResumableBy
<1>7. \A s \in Runs : Undisturbed(s)
  BY <1>1, UnchangedIsUndisturbed DEF Undisturbed
<1>8. CheckpointIsKept(r)' /\ RunDecidedByTheAuthorized(r)'
  BY <1>7, RunStays
<1>9. TypeOK'
  BY <1>1, <1>3, TypeStays DEF LifecycleInv, TypeOK
<1>. QED
  BY <1>3, <1>4, <1>5, <1>6, <1>7, <1>8, <1>9, RequestStepKeeps

(* A claim that comes too late changes nothing.                            *)
LEMMA ConflictKeeps ==
  ASSUME LifecycleInv, Store!IInv', Continues, NEW q \in Requests, ClaimResume(q),
         ~ MayDecide(requests[q].run, requests[q].id)
  PROVE  LifecycleInv'
<1>1. /\ requests[q] # None
      /\ requests[q].pc = "authorized"
      /\ GoesTo(q, "conflict")
      /\ UNCHANGED <<runs, generations, tickets, calls, interrupts>>
  BY DEF ClaimResume, At
<1>2. /\ requests[q].run \in Runs
      /\ interrupts \in [Runs -> Store!Request \union {None}]
  BY <1>1 DEF LifecycleInv, TypeOK, HttpRequest
<1>3. PICK r \in Runs : requests[q].run = r
  BY <1>2
<1>4. requests[q].write = None
  BY <1>1, WriteIsDue
<1>5. /\ Moves(q, "conflict", requests[q].outcome, requests[q].call, None)
      /\ requests' \in [Requests -> HttpRequest \union {None}]
  BY <1>1, <1>4, GoesToMoves DEF LifecycleInv, Ended
<1>6. /\ OthersStay(q)
      /\ requests'[q].run = r
      /\ requests'[q].pc = "conflict"
      /\ requests'[q].write = None
  BY <1>3, <1>5 DEF Moves
<1>7. ~ Drives(q)'
  BY <1>6 DEF Drives, Running
<1>8. IsInOrder(q)' /\ AuthorizedMayDecide(q)' /\ ResumeIsKept(q)'
  BY <1>6, <1>7 DEF IsInOrder, AuthorizedMayDecide, ResumeIsKept, At
<1>9. \A s \in Runs : Undisturbed(s)
  BY <1>1, UnchangedIsUndisturbed DEF Undisturbed
<1>10. CheckpointIsKept(r)' /\ RunDecidedByTheAuthorized(r)'
  BY <1>9, RunStays
<1>11. TypeOK'
  BY <1>1, <1>2, <1>5, TypeStays
<1>. QED
  BY <1>6, <1>7, <1>8, <1>9, <1>10, <1>11, RequestStepKeeps

(* A claim that is in time decides what the checkpoint is stopped at, for  *)
(* a user who may; nobody drives the run that waited.                      *)
LEMMA ClaimKeeps ==
  ASSUME LifecycleInv, Store!IInv', Continues, NEW q \in Requests, ClaimResume(q),
         MayDecide(requests[q].run, requests[q].id)
  PROVE  LifecycleInv'
<1>0. TypeOK /\ Store!TypeOK
  BY DEF LifecycleInv, TypeOK
<1>1. /\ requests[q] # None
      /\ requests[q].pc = "authorized"
      /\ UNCHANGED <<tickets, calls, interrupts>>
  BY DEF ClaimResume, At
<1>2. /\ requests[q].run \in Runs
      /\ requests[q].clearance \in UserClearances
      /\ requests[q].write = None
      /\ AuthorizedMayDecide(q)
      /\ interrupts \in [Runs -> Store!Request \union {None}]
  BY <1>1, WriteIsDue DEF LifecycleInv, TypeOK, HttpRequest
<1>3. PICK r \in Runs : requests[q].run = r
  BY <1>2
<1> DEFINE g == requests[q].id
           d == requests[q].decision
           cl == requests[q].clearance
           run == [runs[r] EXCEPT !.status = "RUNNING", !.decision = d, !.approver = cl]
           generation == [generations[r][g] EXCEPT !.decision = d, !.approver = cl]
<1>4. /\ requests[q].kind = "resume"
      /\ g \in Gens
      /\ d \in Store!Decisions
      /\ generations[r][g] # None
      /\ IsRunVisible(runs[r].scope.classification, cl)
      /\ generations[r][g].decision = None =>
            IsActionProfileAuthorized(generations[r][g].proposal.action, runs[r].scope)
  BY <1>1, <1>2, <1>3 DEF AuthorizedMayDecide, At
<1>5. /\ runs[r] # None
      /\ runs[r].status = "WAITING_FOR_APPROVAL"
      /\ runs[r].request # None
      /\ runs[r].request.id = g
  BY <1>3 DEF MayDecide
<1>6. /\ runs[r].request = interrupts[r]
      /\ \A h \in Gens : generations[r][h] # None /\ generations[r][h].decision = None => h = g
      /\ interrupts[r] # None =>
            runs[r].scope.profile \in ProfilesOffering(interrupts[r].proposal.action)
  BY <1>5 DEF LifecycleInv, CheckpointIsKept
<1>7. /\ generations[r][g].decision = None
      /\ generations[r][g].proposal = interrupts[r].proposal
  BY <1>5, <1>6, StoreFacts
<1>8. runs[r] \in Store!Run /\ generations[r][g] \in Store!Generation
  BY <1>4, <1>5, StoreFacts
<1>9. /\ run \in Store!Run
      /\ run.status = "RUNNING"
      /\ run.scope = runs[r].scope
  <2>1. run \in Store!Run
    BY <1>2, <1>4, <1>8 DEF Store!Run, Store!Statuses
  <2>2. run.status = "RUNNING" /\ run.scope = runs[r].scope
    BY <1>8 DEF Store!Run
  <2>. QED
    BY <2>1, <2>2
<1>10. /\ generation \in Store!Generation
       /\ generation.decision = d
       /\ generation.approver = cl
       /\ generation.proposal = generations[r][g].proposal
  <2>1. generation \in Store!Generation
    BY <1>2, <1>4, <1>8 DEF Store!Generation
  <2>2. generation.decision = d /\ generation.approver = cl
    BY <1>8 DEF Store!Generation
  <2>3. generation.proposal = generations[r][g].proposal
    BY <1>8 DEF Store!Generation
  <2>. QED
    BY <2>1, <2>2, <2>3
<1>11. /\ runs' = [runs EXCEPT ![r] = run]
       /\ generations' = [generations EXCEPT ![r][g] = generation]
       /\ GoesTo(q, "deciding") \/ EndsRun(q, "FAILED", "raised")
  BY <1>3 DEF ClaimResume
<1>12. run # None /\ generation # None /\ d # None
  BY <1>4, <1>9, <1>10, NoneAssumption
<1> HIDE DEF run, generation
<1>13. runs'[r] = run /\ \A s \in Runs : s # r => runs'[s] = runs[s]
  BY <1>0, <1>11 DEF Store!TypeOK
<1>14. /\ generations'[r][g] = generation
       /\ \A h \in Gens : h # g => generations'[r][h] = generations[r][h]
       /\ \A s \in Runs : s # r => generations'[s] = generations[s]
  BY <1>0, <1>4, <1>11 DEF Store!TypeOK, Store!History
<1>15. /\ \/ Moves(q, "deciding", requests[q].outcome, requests[q].call, None)
          \/ Moves(q, "ending", "FAILED", requests[q].call, None)
       /\ requests' \in [Requests -> HttpRequest \union {None}]
  BY <1>0, <1>1, <1>2, <1>11, GoesToMoves, EndsRunMoves DEF Running, Store!Outcomes
<1>16. /\ OthersStay(q)
       /\ requests'[q] # None
       /\ requests'[q].kind = "resume"
       /\ requests'[q].run = r
       /\ requests'[q].id = g
       /\ requests'[q].decision = d
       /\ requests'[q].write = None
       /\ \/ requests'[q].pc = "deciding"
          \/ requests'[q].pc = "ending" /\ requests'[q].outcome = "FAILED"
  BY <1>3, <1>4, <1>15 DEF Moves
<1>17. \A p \in Requests : ~ (Drives(p) /\ requests[p].run = r)
  BY <1>5 DEF LifecycleInv, RunHasOneDriver
<1>18. IsInOrder(q)'
  BY <1>16, NoneAssumption DEF IsInOrder, Store!Outcomes
<1>19. AuthorizedMayDecide(q)'
  BY <1>16 DEF AuthorizedMayDecide, At
<1> HIDE DEF g, d, cl
<1>20. ResumeIsKept(q)'
  BY <1>1, <1>4, <1>5, <1>6, <1>7, <1>10, <1>12, <1>14, <1>16 DEF ResumeIsKept
<1>21. CheckpointIsKept(r)'
  BY <1>1, <1>6, <1>9, <1>10, <1>12, <1>13, <1>14 DEF CheckpointIsKept
<1>22. RunDecidedByTheAuthorized(r)'
  <2>1. RunDecidedByTheAuthorized(r)
    BY DEF LifecycleInv, DecidedByTheAuthorized, RunDecidedByTheAuthorized
  <2>. QED
    BY <1>4, <1>7, <1>9, <1>10, <1>13, <1>14, <2>1 DEF RunDecidedByTheAuthorized
<1>23. \A s \in Runs : s # r => Undisturbed(s)
  BY <1>1, <1>13, <1>14, UnchangedIsUndisturbed DEF Undisturbed
<1>24. TypeOK'
  BY <1>1, <1>2, <1>15, TypeStays
<1>. QED
  BY <1>9, <1>12, <1>13, <1>16, <1>17, <1>18, <1>19, <1>20, <1>21, <1>22, <1>23, <1>24,
     RequestStepKeeps

(* The MCP servers, and whoever else calls them, leave the requests alone. *)
LEMMA ServersKeep ==
  ASSUME LifecycleInv, Store!IInv', Continues, NEW c \in Calls,
         \/ ServerStep(c)
         \/ \E r \in Runs, g \in Gens, p \in Proposals, cl \in Store!WriteClearances :
               OtherCall(c, r, g, p, cl)
  PROVE  LifecycleInv'
<1>1. UNCHANGED <<interrupts, requests>>
  BY DEF ServerStep, OtherCall
<1>2. \A s \in Runs : StoreUndisturbed(s)
  <2>1. CASE ServerStep(c)
    <3>1. UNCHANGED <<runs, generations>>
      BY <2>1, ZenonT(30)
         DEF ServerStep, Store!LookupConsumed, Store!WriteTicket, Store!ReadTicket,
             Store!Calibrate, Store!LoseCall
    <3> SUFFICES ASSUME NEW s \in Runs PROVE StoreUndisturbed(s)
      OBVIOUS
    <3>2. runs'[s] = runs[s] /\ generations'[s] = generations[s]
      BY <3>1, Zenon
    <3>. QED
      BY <3>2, UnchangedIsUndisturbed, Zenon
  <2>2. ASSUME NEW r \in Runs, NEW g \in Gens, NEW p \in Proposals,
               NEW cl \in Store!WriteClearances, OtherCall(c, r, g, p, cl)
        PROVE  \A s \in Runs : StoreUndisturbed(s)
    <3>1. Store!ClaimApproved(c, r, g, p, cl) \/ Store!ClaimRefused(c, r, g, p, cl)
      BY <2>2 DEF OtherCall
    <3>. QED
      BY <3>1, ClaimUndisturbs
  <2>. QED
    BY <2>1, <2>2
<1>3. \A s \in Runs : Undisturbed(s)
  BY <1>1, <1>2 DEF Undisturbed
<1>4. TypeOK'
  BY <1>1, TypeStays DEF LifecycleInv, TypeOK
<1>. QED
  BY <1>1, <1>3, <1>4, OtherStepKeeps
-----------------------------------------------------------------------------
(* With no requests, no runs and no calls, there is nothing to keep.       *)
LEMMA InvInitially == Init => LifecycleInv
<1> SUFFICES ASSUME Init PROVE LifecycleInv
  OBVIOUS
<1>1. Store!Init
  BY DEF Init
<1>2. Store!IInv
  <2>1. Proved!Init => Proved!IInv
    BY Proved!InitIInv, SameData, RequestsAssumption, NoneAssumption
  <2>. QED
    BY <1>1, <2>1, SameInit, SameInvariant
<1>3. \A r \in Runs : runs[r] = None /\ interrupts[r] = None
  BY <1>1 DEF Init, Store!Init
<1>4. \A r \in Runs, g \in Gens : generations[r][g] = None
  BY <1>1 DEF Store!Init
<1>5. \A q \in Requests : requests[q] = None
  BY DEF Init
<1>6. TypeOK
  BY <1>2 DEF Init, TypeOK, Store!IInv
<1>7. RunHasOneDriver /\ \A q \in Requests : IsInOrder(q) /\ AuthorizedMayDecide(q) /\ ResumeIsKept(q)
  BY <1>5 DEF RunHasOneDriver, IsInOrder, AuthorizedMayDecide, ResumeIsKept, Drives, At
<1>8. \A r \in Runs : CheckpointIsKept(r)
  BY <1>3, <1>4 DEF CheckpointIsKept
<1>9. DecidedByTheAuthorized
  BY <1>4 DEF DecidedByTheAuthorized
<1>. QED
  BY <1>2, <1>6, <1>7, <1>8, <1>9 DEF LifecycleInv

(* Every step keeps the invariant: the store's part by the store's lemmas, *)
(* the rest by one lemma for each action.                                  *)
LEMMA InvInductive == LifecycleInv /\ [Next]_vars => LifecycleInv'
<1> SUFFICES ASSUME LifecycleInv, [Next]_vars PROVE LifecycleInv'
  OBVIOUS
<1>1. Store!IInv' /\ Continues
  BY StepRefines, StoreKeeps DEF LifecycleInv
<1>2. CASE UNCHANGED vars
  <2>1. UNCHANGED <<runs, generations, interrupts, requests>>
    BY <1>2 DEF vars
  <2>2. \A s \in Runs : Undisturbed(s)
    BY <2>1, UnchangedIsUndisturbed DEF Undisturbed
  <2>3. TypeOK'
    BY <1>1, <2>1, TypeStays DEF LifecycleInv, TypeOK
  <2>. QED
    BY <1>1, <2>1, <2>2, <2>3, OtherStepKeeps
<1>3. CASE Next
  BY <1>1, <1>3, StepParts, StartKeeps, ResumeKeeps, GraphAloneKeeps, CallsToolKeeps,
     ConflictKeeps, ClaimKeeps, ReadsKeeps, WritesKeeps, PersistsKeeps, StoreRaisesKeeps,
     StopsKeeps, ServersKeep
<1>. QED
  BY <1>2, <1>3

(* The parts of the safety argument hold in every state.                   *)
THEOREM StrengthenedInvariant == Spec => []LifecycleInv
  BY InvInitially, InvInductive, PTL DEF Spec

(* Every variable of the requests and of the store keeps its type.         *)
THEOREM TypeCorrect == Spec => []TypeOK
<1>1. LifecycleInv => TypeOK
  BY DEF LifecycleInv
<1>. QED
  BY <1>1, StrengthenedInvariant, PTL

(* Only who may see the run, and decide the action in its scope, decides   *)
(* it, whatever happened between the check and the claim (resume_run).     *)
THEOREM DecisionsAreAuthorized == Spec => []DecidedByTheAuthorized
<1>1. LifecycleInv => DecidedByTheAuthorized
  BY DEF LifecycleInv
<1>. QED
  BY <1>1, StrengthenedInvariant, PTL

(* A resume that was answered tells the truth of the factory: a success    *)
(* has its ticket, a rejection has no effect.                              *)
THEOREM ResumesAnswerTruly == Spec => []AnsweredResumeIsTrue
<1>1. LifecycleInv => AnsweredResumeIsTrue
  <2> SUFFICES ASSUME LifecycleInv, NEW q \in Requests, At(q, "answered"),
                      requests[q].kind = "resume"
               PROVE  LET r == requests[q].run
                          g == requests[q].id
                          ticket == tickets[r][g]
                          proposal == generations[r][g].proposal
                      IN /\ generations[r][g] # None
                         /\ generations[r][g].decision = requests[q].decision
                         /\ requests[q].decision = "reject" => Store!EffectsOf(r, g) = {}
                         /\ (/\ requests[q].decision = "approve"
                             /\ requests[q].outcome = "SUCCESS"
                             /\ proposal.action = "create_maintenance_ticket")
                            => ticket # None /\ ticket.target = proposal.target
    BY DEF AnsweredResumeIsTrue
  <2> DEFINE r == requests[q].run
             g == requests[q].id
  <2>1. ResumeIsKept(q) /\ requests[q].pc = "answered"
    BY DEF LifecycleInv, At
  <2>2. r \in Runs
    BY DEF At, LifecycleInv, TypeOK, HttpRequest
  <2>3. /\ g \in Gens
        /\ generations[r][g] # None
        /\ generations[r][g].decision = requests[q].decision
        /\ (/\ requests[q].decision = "approve"
            /\ requests[q].outcome = "SUCCESS"
            /\ generations[r][g].proposal.action = "create_maintenance_ticket")
           => TicketStands(r, g)
    BY <2>1 DEF ResumeIsKept, At
  <2>4. requests[q].decision = "reject" => Store!EffectsOf(r, g) = {}
    <3>1. ASSUME NEW c \in Calls, calls[c] # None, calls[c].effect, calls[c].run = r,
                 calls[c].id = g
          PROVE  generations[r][g].decision = "approve"
      <4>1. calls[c].claimed
        BY <3>1 DEF LifecycleInv, Store!IInv, Store!EffectIsClaimed
      <4>2. generations[r][g].consumed
        BY <3>1, <4>1 DEF LifecycleInv, Store!IInv, Store!ClaimIsExclusive
      <4>. QED
        BY <2>2, <2>3, <4>2 DEF LifecycleInv, Store!IInv, Store!ConsumedWasApproved
    <3>. QED
      BY <2>3, <3>1 DEF Store!EffectsOf
  <2>. QED
    BY <2>3, <2>4 DEF TicketStands
<1>. QED
  BY <1>1, StrengthenedInvariant, PTL

(* A run that ended stays as it ended: complete and fail, which look at no *)
(* status, never meet it.                                                  *)
THEOREM EndsStay == Spec => EndIsFinal
<1>1. LifecycleInv /\ [Next]_vars =>
         [\A r \in Runs : runs[r] # None /\ runs[r].status \in Store!Outcomes
              => runs'[r].status = runs[r].status]_vars
  <2> SUFFICES ASSUME LifecycleInv, [Next]_vars PROVE Continues
    BY DEF Continues
  <2>. QED
    BY StepRefines, StoreKeeps DEF LifecycleInv
<1>. QED
  BY <1>1, StrengthenedInvariant, PTL DEF Spec, EndIsFinal

(* The requests implement the store: though none of them locks a run, no   *)
(* two ever write it at a time, and each finds it as it left it.           *)
THEOREM StoreIsImplemented == Spec => ImplementsStore
<1>1. Init => Store!Init
  BY DEF Init
<1>2. LifecycleInv /\ [Next]_vars => [Store!Next]_(Store!vars)
  BY StepRefines
<1>. QED
  BY <1>1, <1>2, StrengthenedInvariant, PTL DEF Spec, ImplementsStore, Store!Spec
=============================================================================
