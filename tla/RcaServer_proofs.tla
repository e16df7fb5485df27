-------------------------- MODULE RcaServer_proofs --------------------------
(***************************************************************************)
(* What the callers of the RCA server may rely on, for any number of       *)
(* callers and of workers and whatever the sources deliver: a job keeps    *)
(* its room until it is done, what is told of it agrees with what the run  *)
(* store told, no time is owned by two categories, and an analysis of      *)
(* ordinary evidence is reported.                                          *)
(***************************************************************************)
EXTENDS RcaServer, SumTheorems, SequenceTheorems

Fields ==
    {"pc", "explain", "runtime", "bundle", "report", "told", "reasoning", "assessment"}

JobsTypeOK ==
    /\ DOMAIN calls = Callers
    /\ \A c \in Callers : DOMAIN calls[c] = Fields
    /\ jobs \in [Callers -> Job \union {None}]
    /\ pending \subseteq Callers
    /\ server \in {"serving", "closing", "closed"}

(* The pool counts a job from its admission to its end, never more of them *)
(* than it has workers, and the provider is open as long as it counts one. *)
PoolInv ==
    /\ IsFiniteSet(pending)
    /\ Cardinality(pending) <= Capacity
    /\ server = "closed" => pending = {}
    /\ \A c \in Callers : jobs[c] # None => c \in pending

(* A job was given the status its caller was told, and the caller is told  *)
(* of an assessment only in the end.                                       *)
ToldInv(c) ==
    /\ At(c, "waiting") /\ jobs[c] # None => jobs[c].failed = (calls[c].told = "failed")
    /\ calls[c].pc \in {"idle", "listing", "reported", "waiting"} => calls[c].assessment = None
    /\ calls[c].assessment # None =>
          calls[c].assessment \in AllowedAssessments(calls[c].told = "failed")

ServerInv ==
    /\ JobsTypeOK
    /\ PoolInv
    /\ \A c \in Callers : ToldInv(c)
-----------------------------------------------------------------------------
(* What a new record of a call is.                                         *)
LEMMA AskedFields ==
  ASSUME NEW pc, NEW explain
  PROVE  /\ DOMAIN Asked(pc, explain) = Fields
         /\ Asked(pc, explain).pc = pc
         /\ Asked(pc, explain).told = None
         /\ Asked(pc, explain).assessment = None
BY DEF Asked, Fields

LEMMA CannotReportFields ==
  ASSUME NEW explain, NEW bundle
  PROVE  LET raised == [Asked("raised", explain) EXCEPT !.bundle = bundle]
         IN /\ DOMAIN raised = Fields
            /\ raised.pc = "raised"
            /\ raised.explain = explain
            /\ raised.bundle = bundle
            /\ raised.told = None
            /\ raised.reasoning = None
            /\ raised.assessment = None
BY DEF Asked, Fields

(* A call that keeps what its caller was told of keeps its part of the     *)
(* invariant, and nobody else's is disturbed.                              *)
LEMMA SetsKeeps ==
  ASSUME ServerInv, NEW c \in Callers, NEW call, Sets(c, call),
         DOMAIN call = Fields,
         UNCHANGED <<jobs, pending, server>>,
         call.pc # "waiting",
         call.assessment = None
  PROVE  ServerInv'
<1>1. /\ DOMAIN calls' = Callers
      /\ calls'[c] = call
      /\ \A d \in Callers : d # c => calls'[d] = calls[d]
  BY DEF ServerInv, JobsTypeOK, Sets
<1>2. JobsTypeOK'
  BY <1>1 DEF ServerInv, JobsTypeOK
<1>3. PoolInv'
  BY DEF ServerInv, PoolInv
<1>4. ASSUME NEW d \in Callers
      PROVE  ToldInv(d)'
  <2>1. CASE d = c
    BY <1>1, <2>1 DEF ToldInv, At
  <2>2. CASE d # c
    BY <1>1, <2>2 DEF ServerInv, ToldInv, At
  <2>. QED
    BY <2>1, <2>2
<1>. QED
  BY <1>2, <1>3, <1>4 DEF ServerInv
-----------------------------------------------------------------------------
LEMMA Initially == RcaInit => ServerInv
<1> SUFFICES ASSUME RcaInit PROVE ServerInv
  OBVIOUS
<1>1. JobsTypeOK
  BY AskedFields DEF RcaInit, JobsTypeOK
<1>2. PoolInv
  BY FS_EmptySet, ServerAssumption DEF RcaInit, PoolInv
<1>3. \A c \in Callers : ToldInv(c)
  BY AskedFields DEF RcaInit, ToldInv, At
<1>. QED
  BY <1>1, <1>2, <1>3 DEF ServerInv

(* What is told of the run is asked for before it is analyzed.             *)
LEMMA AsksKeeps ==
  ASSUME ServerInv, NEW c \in Callers, NEW explain, Asks(c, explain)
  PROVE  ServerInv'
<1> DEFINE seen == [status |-> run.status, requested |-> run.requested, decided |-> run.decided]
           listing == [Asked("listing", explain) EXCEPT !.runtime = seen]
<1>1. /\ DOMAIN listing = Fields
      /\ listing.pc = "listing"
      /\ listing.assessment = None
  BY DEF Asked, Fields
<1>2. \/ Sets(c, listing)
      \/ Sets(c, Asked("refused", explain))
  BY DEF Asks
<1>3. UNCHANGED <<jobs, pending, server>>
  BY DEF Asks
<1> HIDE DEF listing
<1>. QED
  BY <1>1, <1>2, <1>3, SetsKeeps, AskedFields

LEMMA RaisesKeeps ==
  ASSUME ServerInv, NEW c \in Callers, NEW pc, pc # "waiting", Raises(c, pc),
         UNCHANGED <<jobs, pending, server>>
  PROVE  ServerInv'
BY SetsKeeps, AskedFields DEF Raises

LEMMA CollectsKeeps ==
  ASSUME ServerInv, NEW c \in Callers, NEW offer, Collects(c, offer)
  PROVE  ServerInv'
<1>1. UNCHANGED <<jobs, pending, server>> /\ At(c, "listing")
  BY DEF Collects
<1>2. CASE Raises(c, "refused")
  BY <1>1, <1>2, RaisesKeeps
<1>4. CASE \E bundle : CannotReport(c, bundle)
  <2>1. PICK bundle : CannotReport(c, bundle)
    BY <1>4
  <2> DEFINE raised == [Asked("raised", calls[c].explain) EXCEPT !.bundle = bundle]
  <2>2. Sets(c, raised)
    BY <2>1 DEF CannotReport
  <2>3. DOMAIN raised = Fields /\ raised.pc = "raised" /\ raised.assessment = None
    BY CannotReportFields
  <2> HIDE DEF raised
  <2>. QED
    BY <1>1, <2>2, <2>3, SetsKeeps
<1>3. CASE \E bundle, report :
              Sets(c, [calls[c] EXCEPT !.pc = "reported", !.bundle = bundle,
                                       !.report = report, !.told = bundle.runtime.status])
  <2>1. PICK bundle, report :
              Sets(c, [calls[c] EXCEPT !.pc = "reported", !.bundle = bundle,
                                       !.report = report, !.told = bundle.runtime.status])
    BY <1>3
  <2> DEFINE reported == [calls[c] EXCEPT !.pc = "reported", !.bundle = bundle,
                                          !.report = report, !.told = bundle.runtime.status]
  <2>2. DOMAIN calls[c] = Fields /\ calls[c].assessment = None
    BY <1>1 DEF ServerInv, JobsTypeOK, ToldInv, At
  <2>3. /\ DOMAIN reported = Fields
        /\ reported.pc = "reported"
        /\ reported.assessment = None
    BY <2>2 DEF Fields
  <2> HIDE DEF reported
  <2>. QED
    BY <1>1, <2>1, <2>3, SetsKeeps DEF reported
<1>. QED
  BY <1>2, <1>3, <1>4 DEF Collects

(* An answer without an assessment, of a caller with or without a job.     *)
LEMMA AnsweredKeeps ==
  ASSUME ServerInv, NEW c \in Callers, NEW reasoning,
         Answered(c, reasoning, None),
         UNCHANGED <<jobs, pending, server>>
  PROVE  ServerInv'
<1> DEFINE answer == [Asked("answered", calls[c].explain) EXCEPT !.told = calls[c].told,
                         !.reasoning = reasoning, !.assessment = None]
<1>1. /\ DOMAIN answer = Fields
      /\ answer.pc = "answered"
      /\ answer.assessment = None
  BY DEF Asked, Fields
<1>2. Sets(c, answer)
  BY DEF Answered
<1> HIDE DEF answer
<1>. QED
  BY <1>1, <1>2, SetsKeeps

(* A job gets room only where there is some.                               *)
LEMMA ExplainsKeeps ==
  ASSUME ServerInv, NEW c \in Callers, Explains(c)
  PROVE  ServerInv'
<1>1. CASE ~ IsAdmitted
  BY <1>1, AnsweredKeeps DEF Explains
<1>2. CASE IsAdmitted
  <2> DEFINE waiting == [Asked("waiting", TRUE) EXCEPT !.told = calls[c].told]
             job == [pc |-> "resolving", failed |-> calls[c].told = "failed"]
  <2>1. /\ jobs' = [jobs EXCEPT ![c] = job]
        /\ pending' = pending \union {c}
        /\ Sets(c, waiting)
        /\ UNCHANGED server
    BY <1>2 DEF Explains
  <2>2. /\ DOMAIN waiting = Fields
        /\ waiting.pc = "waiting"
        /\ waiting.told = calls[c].told
        /\ waiting.assessment = None
    BY DEF Asked, Fields
  <2>3. job \in Job /\ job.failed = (calls[c].told = "failed")
    BY DEF Job
  <2> HIDE DEF waiting, job
  <2>4. /\ DOMAIN calls' = Callers
        /\ calls'[c] = waiting /\ jobs'[c] = job
        /\ \A d \in Callers : d # c => calls'[d] = calls[d] /\ jobs'[d] = jobs[d]
    BY <2>1 DEF ServerInv, JobsTypeOK, Sets
  <2>5. JobsTypeOK'
    BY <2>1, <2>2, <2>3, <2>4 DEF ServerInv, JobsTypeOK
  <2>6. PoolInv'
    <3>1. IsFiniteSet(pending) /\ Cardinality(pending) < Capacity /\ server = "serving"
      BY <1>2 DEF IsAdmitted, ServerInv, PoolInv
    <3>2. Cardinality(pending) \in Nat
      BY <3>1, FS_CardinalityType
    <3>3. /\ IsFiniteSet(pending \union {c})
          /\ Cardinality(pending \union {c}) \in {Cardinality(pending), Cardinality(pending) + 1}
      BY <3>1, FS_AddElement
    <3>4. Cardinality(pending \union {c}) <= Capacity
      BY <3>1, <3>2, <3>3, ServerAssumption
    <3>. QED
      BY <2>1, <2>4, <3>1, <3>3, <3>4 DEF ServerInv, PoolInv
  <2>7. ASSUME NEW d \in Callers
        PROVE  ToldInv(d)'
    <3>1. CASE d = c
      BY <2>2, <2>3, <2>4, <3>1 DEF ToldInv, At
    <3>2. CASE d # c
      BY <2>4, <3>2 DEF ServerInv, ToldInv, At
    <3>. QED
      BY <3>1, <3>2
  <2>. QED
    BY <2>5, <2>6, <2>7 DEF ServerInv
<1>. QED
  BY <1>1, <1>2

(* The end of a job gives its room back, and tells its caller what agrees. *)
LEMMA CompletesKeeps ==
  ASSUME ServerInv, NEW c \in Callers, jobs[c] # None, NEW reasoning, NEW assessment,
         Completes(c, reasoning, assessment),
         assessment # None => assessment \in AllowedAssessments(jobs[c].failed)
  PROVE  ServerInv'
<1>1. /\ jobs' = [jobs EXCEPT ![c] = None]
      /\ pending' = pending \ {c}
      /\ UNCHANGED server
  BY DEF Completes
<1>2. /\ jobs'[c] = None
      /\ \A d \in Callers : d # c => jobs'[d] = jobs[d]
      /\ jobs' \in [Callers -> Job \union {None}]
  BY <1>1 DEF ServerInv, JobsTypeOK
<1>3. PoolInv'
  <2>0. IsFiniteSet(pending)
    BY DEF ServerInv, PoolInv
  <2>1. IsFiniteSet(pending') /\ Cardinality(pending') <= Cardinality(pending)
    BY <1>1, <2>0, FS_Subset
  <2>2. Cardinality(pending) \in Nat /\ Cardinality(pending') \in Nat
    BY <2>1, FS_CardinalityType DEF ServerInv, PoolInv
  <2>3. server' = "closed" => pending' = {}
    BY <1>1 DEF ServerInv, PoolInv
  <2>4. Cardinality(pending') <= Capacity
    BY <2>1, <2>2, ServerAssumption DEF ServerInv, PoolInv
  <2>. QED
    BY <1>1, <1>2, <2>1, <2>3, <2>4 DEF ServerInv, PoolInv
<1>4. /\ DOMAIN calls' = Callers
      /\ \A d \in Callers : d # c => calls'[d] = calls[d]
      /\ DOMAIN calls'[c] = Fields
      /\ ToldInv(c)'
  <2>1. CASE At(c, "waiting")
    <3> DEFINE answer == [Asked("answered", calls[c].explain) EXCEPT !.told = calls[c].told,
                             !.reasoning = reasoning, !.assessment = assessment]
    <3>1. /\ DOMAIN answer = Fields
          /\ answer.pc = "answered"
          /\ answer.told = calls[c].told
          /\ answer.assessment = assessment
      BY DEF Asked, Fields
    <3>2. calls' = [calls EXCEPT ![c] = answer]
      BY <2>1 DEF Completes, Answered, Sets
    <3> HIDE DEF answer
    <3>3. jobs[c].failed = (calls[c].told = "failed")
      BY <2>1 DEF ServerInv, ToldInv
    <3>. QED
      BY <3>1, <3>2, <3>3 DEF ServerInv, JobsTypeOK, ToldInv, At
  <2>2. CASE ~ At(c, "waiting")
    <3>1. UNCHANGED calls
      BY <2>2 DEF Completes
    <3>. QED
      BY <2>2, <3>1 DEF ServerInv, JobsTypeOK, ToldInv, At
  <2>. QED
    BY <2>1, <2>2
<1>5. JobsTypeOK'
  BY <1>1, <1>2, <1>4 DEF ServerInv, JobsTypeOK
<1>6. \A d \in Callers : ToldInv(d)'
  BY <1>2, <1>4 DEF ServerInv, ToldInv, At
<1>. QED
  BY <1>3, <1>5, <1>6 DEF ServerInv

LEMMA ResolvesKeeps ==
  ASSUME ServerInv, NEW c \in Callers, Resolves(c)
  PROVE  ServerInv'
<1>1. jobs[c] # None /\ jobs[c] \in Job
  BY DEF Resolves, InJob, ServerInv, JobsTypeOK
<1>2. CASE Completes(c, "not_allowed", None)
  BY <1>1, <1>2, CompletesKeeps
<1>3. CASE /\ jobs' = [jobs EXCEPT ![c].pc = "calling"]
           /\ UNCHANGED <<run, calls, pending, server, time>>
  <2>1. /\ jobs' \in [Callers -> Job \union {None}]
        /\ jobs'[c] \in Job /\ jobs'[c].failed = jobs[c].failed
        /\ \A d \in Callers : d # c => jobs'[d] = jobs[d]
    BY <1>1, <1>3 DEF ServerInv, JobsTypeOK, Job
  <2>2. JobsTypeOK'
    BY <1>3, <2>1 DEF ServerInv, JobsTypeOK
  <2>3. PoolInv'
    BY <1>1, <1>3, <2>1 DEF ServerInv, PoolInv
  <2>4. \A d \in Callers : ToldInv(d)'
    BY <1>1, <1>3, <2>1 DEF ServerInv, ToldInv, At
  <2>. QED
    BY <2>2, <2>3, <2>4 DEF ServerInv
<1>. QED
  BY <1>2, <1>3 DEF Resolves

LEMMA ModelAnswersKeeps ==
  ASSUME ServerInv, NEW c \in Callers, NEW output, ModelAnswers(c, output)
  PROVE  ServerInv'
BY CompletesKeeps DEF ModelAnswers, InJob, IsEpistemicallySound

LEMMA Inductive == ServerInv /\ [RcaNext]_rcaVars => ServerInv'
<1> SUFFICES ASSUME ServerInv, [RcaNext]_rcaVars
             PROVE  ServerInv'
  OBVIOUS
<1>1. CASE UNCHANGED <<calls, jobs, pending, server>>
  BY <1>1 DEF ServerInv, JobsTypeOK, PoolInv, ToldInv, At
<1>2. ASSUME NEW c \in Callers, NEW explain \in Requests[c], Asks(c, explain)
      PROVE  ServerInv'
  BY <1>2, AsksKeeps
<1>3. ASSUME NEW c \in Callers, StoreFails(c) \/ IsCancelled(c)
      PROVE  ServerInv'
  BY <1>3, RaisesKeeps DEF StoreFails, IsCancelled
<1>4. ASSUME NEW c \in Callers, NEW offer \in Offers[c], Collects(c, offer)
      PROVE  ServerInv'
  BY <1>4, CollectsKeeps
<1>5. ASSUME NEW c \in Callers, ReportsAlone(c) \/ StopsWaiting(c)
      PROVE  ServerInv'
  BY <1>5, AnsweredKeeps DEF ReportsAlone, StopsWaiting
<1>6. ASSUME NEW c \in Callers, DeadlineExpires(c)
      PROVE  ServerInv'
  BY <1>6, CompletesKeeps DEF DeadlineExpires, InJob
<1>7. CASE Closes \/ ClosesProvider
  BY <1>7 DEF Closes, ClosesProvider, ServerInv, JobsTypeOK, PoolInv, ToldInv, At
<1>8. [RunContinues]_rcaVars => UNCHANGED <<calls, jobs, pending, server>>
  BY DEF RunContinues, rcaVars
<1>. QED
  BY <1>1, <1>2, <1>3, <1>4, <1>5, <1>6, <1>7, <1>8,
     ExplainsKeeps, ResolvesKeeps, ModelAnswersKeeps DEF RcaNext

(* The invariant of the pool and of what callers are told, for any number  *)
(* of callers, workers and models and whatever the backends offer.         *)
THEOREM StrengthenedInvariant == RcaSpec => []ServerInv
<1>. QED
  BY Initially, Inductive, PTL DEF RcaSpec

(* There is never a job more than workers, also when callers give up, are  *)
(* cancelled or are refused room; and none is left when the provider is    *)
(* closed.                                                                 *)
THEOREM WorkersAreNeverOverrun == RcaSpec => []JobsAreAccommodated
<1>1. ServerInv => JobsAreAccommodated
  <2> SUFFICES ASSUME ServerInv PROVE JobsAreAccommodated
    OBVIOUS
  <2> DEFINE unfinished == {c \in Callers : jobs[c] # None}
  <2>1. unfinished \in SUBSET pending
    BY DEF ServerInv, PoolInv
  <2>2. IsFiniteSet(unfinished) /\ Cardinality(unfinished) <= Cardinality(pending)
    BY <2>1, FS_Subset DEF ServerInv, PoolInv
  <2>3. Cardinality(unfinished) \in Nat /\ Cardinality(pending) \in Nat
    BY <2>2, FS_CardinalityType DEF ServerInv, PoolInv
  <2>4. Cardinality(unfinished) <= Capacity
    BY <2>2, <2>3, ServerAssumption DEF ServerInv, PoolInv
  <2>5. server = "closed" => unfinished = {}
    BY <2>1 DEF ServerInv, PoolInv
  <2>. QED
    BY <2>4, <2>5 DEF JobsAreAccommodated
<1>. QED
  BY <1>1, StrengthenedInvariant, PTL

(* Whatever a model says of a run, no caller is told of an assessment that *)
(* contradicts the status told with it.                                    *)
THEOREM ModelsNeverContradict == RcaSpec => []ExplanationsAgree
<1>1. ServerInv => ExplanationsAgree
  BY DEF ServerInv, ToldInv, ExplanationsAgree
<1>. QED
  BY <1>1, StrengthenedInvariant, PTL
-----------------------------------------------------------------------------
(* Time.  Boundaries cut an execution into pieces, each of them reaching   *)
(* to the next boundary, and ticks are measured by the pieces they are in. *)
Measures(length, pieces, lo, hi, boundaries, next, ticks) ==
    /\ lo \in Nat /\ hi \in Nat /\ lo \in boundaries
    /\ \A t \in boundaries : t \in Nat /\ lo <= t /\ t <= hi
    /\ \A t \in boundaries : t < hi =>
          /\ next[t] \in boundaries /\ t < next[t]
          /\ \A v \in boundaries : t < v => next[t] <= v
          /\ \A x \in t .. next[t] - 1 : x \in ticks <=> <<t, next[t]>> \in pieces
    /\ \A piece \in pieces : \E t \in boundaries : t < hi /\ piece = <<t, next[t]>>
    /\ ticks \in SUBSET (lo .. hi - 1)
    /\ DOMAIN length = pieces
    /\ \A piece \in pieces : length[piece] = piece[2] - piece[1]

LEMMA TicksOfPieces ==
  ASSUME NEW lo, NEW hi, NEW B, NEW next, NEW P, NEW ticks, NEW length,
         Measures(length, P, lo, hi, B, next, ticks)
  PROVE  SumFunction(length) = Cardinality(ticks)
<1> USE DEF Measures
<1> DEFINE part == [piece \in P |-> piece[1] .. piece[2] - 1]
<1>0. /\ lo \in Nat /\ hi \in Nat /\ lo \in B /\ ticks \in SUBSET (lo .. hi - 1)
      /\ \A t \in B : t \in Nat /\ lo <= t /\ t <= hi
      /\ \A t \in B : t < hi => /\ next[t] \in B /\ next[t] \in Nat /\ t < next[t]
                                /\ \A v \in B : t < v => next[t] <= v
  OBVIOUS
<1>1. \A piece \in P : /\ piece[1] \in B /\ piece[2] \in B /\ piece = <<piece[1], piece[2]>>
                        /\ piece[2] = next[piece[1]] /\ piece[1] < piece[2] /\ piece[1] < hi
                        /\ piece[1] \in Nat /\ piece[2] \in Nat
  OBVIOUS
<1>2. IsFiniteSet(P)
  <2>1. IsFiniteSet(lo .. hi)
    BY FS_Interval
  <2>2. IsFiniteSet((lo .. hi) \X (lo .. hi))
    BY <2>1, FS_Product
  <2>3. P \in SUBSET ((lo .. hi) \X (lo .. hi))
    BY <1>1
  <2>. QED
    BY <2>2, <2>3, FS_Subset
<1>3. \A piece \in P : IsFiniteSet(part[piece]) /\ length[piece] = Cardinality(part[piece])
  <2>1. TAKE piece \in P
  <2> DEFINE a == piece[1]
             b == piece[2]
  <2>2. a \in Nat /\ b \in Nat /\ a < b /\ length[piece] = b - a /\ part[piece] = a .. b - 1
    BY <1>1
  <2> HIDE DEF a, b, part
  <2>3. IsFiniteSet(a .. b - 1) /\ Cardinality(a .. b - 1) = b - a
    BY <2>2, FS_Interval
  <2>. QED
    BY <2>2, <2>3
<1>4. \A p, q \in P : p # q => part[p] \intersect part[q] = {}
  <2>1. SUFFICES ASSUME NEW p \in P, NEW q \in P, p # q, NEW x \in part[p], x \in part[q]
                 PROVE  FALSE
    OBVIOUS
  <2>0. part[p] = p[1] .. p[2] - 1 /\ part[q] = q[1] .. q[2] - 1
    BY ONLY p \in P, q \in P DEF part
  <2>3. p[1] # q[1]
    BY ONLY <1>1, p \in P, q \in P, p # q
  <2>5. /\ p[1] \in Nat /\ q[1] \in Nat /\ p[2] \in Nat /\ q[2] \in Nat
        /\ p[1] \in B /\ q[1] \in B /\ p[1] < hi /\ q[1] < hi
        /\ p[2] = next[p[1]] /\ q[2] = next[q[1]]
    BY ONLY <1>1, p \in P, q \in P
  <2>2. /\ x \in Int /\ p[1] <= x /\ x < p[2] /\ q[1] <= x /\ x < q[2]
    BY ONLY <2>0, <2>5, x \in part[p], x \in part[q]
  <2>4. /\ p[1] < q[1] => p[2] <= q[1]
        /\ q[1] < p[1] => q[2] <= p[1]
    BY ONLY <1>0, <2>5
  <2>. QED
    BY ONLY <2>2, <2>3, <2>4, <2>5
<1>5. \A x : x \in ticks <=> \E p \in P : x \in part[p]
  <2>1. ASSUME NEW p \in P, NEW x \in part[p] PROVE x \in ticks
    <3>1. PICK t \in B : t < hi /\ p = <<t, next[t]>>
      OBVIOUS
    <3>2. x \in t .. next[t] - 1
      BY <3>1
    <3>. QED
      BY <3>1, <3>2
  <2>2. ASSUME NEW x \in ticks PROVE \E p \in P : x \in part[p]
    <3> DEFINE before == {t \in B : t <= x}
    <3>0. x \in Nat /\ lo <= x /\ x < hi
      OBVIOUS
    <3>1. before \in SUBSET Nat /\ before # {} /\ \A t \in before : t <= x
      BY ONLY <1>0, <3>0 DEF before
    <3> HIDE DEF before
    <3>2. PICK t \in before : \A u \in before : u <= t
      BY <3>0, <3>1, GreatestNumber
    <3>3. t \in B /\ t \in Nat /\ t <= x /\ t < hi
      BY ONLY <1>0, <3>0, t \in before DEF before
    <3>4. next[t] \in B /\ next[t] \in Nat /\ t < next[t]
      BY ONLY <1>0, <3>3
    <3>7. ~ (next[t] <= x)
      BY ONLY <3>2, <3>3, <3>4 DEF before
    <3>5. x \in t .. next[t] - 1
      BY ONLY <3>0, <3>3, <3>4, <3>7
    <3>6. <<t, next[t]>> \in P
      BY <3>3, <3>5
    <3>. QED
      BY <3>5, <3>6
  <2>. QED
    BY <2>1, <2>2
<1> HIDE DEF part
<1>7. SumFunctionOnSet(length, P) = Cardinality(ticks)
  BY ONLY <1>2, <1>3, <1>4, <1>5, SumOfDisjoint
<1>. QED
  BY <1>7 DEF SumFunction

(* The spans of an analysis end after they started, and so does its        *)
(* approval, as far as there is one.                                       *)
TimedSpan == {s \in TempoSpan : s.start <= s.end}

IsTimed(bundle) ==
    /\ bundle.spans \in Seq(TimedSpan)
    /\ bundle.runtime.requested \in Nat \union {None}
    /\ bundle.runtime.decided \in Nat \union {None}

(* When a category was active, within the execution or not.                *)
Times(bundle, component) ==
    {<<s.start, s.end>> : s \in {t \in Spans(bundle) : CategoryOf(t.operation) = component}}
      \union (IF component = "approval" THEN ApprovalTiming(bundle.runtime) ELSE {})

IsActive(bundle, component, t) == \E i \in Times(bundle, component) : i[1] <= t /\ t < i[2]

LEMMA SpansAreTimed ==
  ASSUME NEW bundle, IsTimed(bundle)
  PROVE  /\ Spans(bundle) \subseteq TimedSpan
         /\ \A s \in Spans(bundle) : s.start \in Nat /\ s.end \in Nat /\ s.start <= s.end
         /\ \A i \in DOMAIN bundle.spans : bundle.spans[i] \in Spans(bundle)
<1>1. \A i \in DOMAIN bundle.spans : bundle.spans[i] \in TimedSpan
  BY LenProperties DEF IsTimed
<1>2. Spans(bundle) \subseteq TimedSpan
      /\ \A i \in DOMAIN bundle.spans : bundle.spans[i] \in Spans(bundle)
  BY <1>1 DEF Spans, ToSet
<1>3. \A s \in TimedSpan : s.start \in Nat /\ s.end \in Nat /\ s.start <= s.end
  BY DEF TimedSpan, TempoSpan
<1>. QED
  BY <1>2, <1>3

LEMMA TimesAreNumbers ==
  ASSUME NEW bundle, IsTimed(bundle), NEW component
  PROVE  \A i \in Times(bundle, component) : i[1] \in Nat /\ i[2] \in Nat
<1>1. ASSUME NEW s \in Spans(bundle) PROVE s.start \in Nat /\ s.end \in Nat
  BY SpansAreTimed
<1>2. \A i \in ApprovalTiming(bundle.runtime) : i[1] \in Nat /\ i[2] \in Nat
  BY DEF ApprovalTiming, IsTimed
<1>. QED
  BY <1>1, <1>2 DEF Times

(* Cut to the execution, a category is active at the same of its ticks.    *)
LEMMA IntervalsKeepTicks ==
  ASSUME NEW bundle, IsTimed(bundle), NEW component, NEW root,
         root.start \in Nat, root.end \in Nat
  PROVE  /\ \A i \in Intervals(bundle, root, component) :
               /\ i[1] \in Nat /\ i[2] \in Nat
               /\ root.start <= i[1] /\ i[1] < i[2] /\ i[2] <= root.end
         /\ \A t \in root.start .. root.end - 1 :
               IsActive(bundle, component, t)
                  <=> \E i \in Intervals(bundle, root, component) : i[1] <= t /\ t < i[2]
<1> DEFINE times == Times(bundle, component)
           cut == {i \in {Within(span, root) : span \in times} : i[1] < i[2]}
<1>1. Intervals(bundle, root, component) = cut
  BY DEF Intervals, Times
<1>2. \A i \in times : i[1] \in Nat /\ i[2] \in Nat
  BY TimesAreNumbers
<1> HIDE DEF times
<1>3. \A span \in times :
         /\ Within(span, root)[1] \in Nat /\ Within(span, root)[2] \in Nat
         /\ root.start <= Within(span, root)[1] /\ Within(span, root)[2] <= root.end
         /\ \A t \in root.start .. root.end - 1 :
               span[1] <= t /\ t < span[2]
                  <=> Within(span, root)[1] <= t /\ t < Within(span, root)[2]
  BY <1>2 DEF Within
<1>4. ASSUME NEW t \in root.start .. root.end - 1
      PROVE  IsActive(bundle, component, t) <=> \E i \in cut : i[1] <= t /\ t < i[2]
  <2>1. ASSUME NEW span \in times, span[1] <= t, t < span[2]
        PROVE  \E i \in cut : i[1] <= t /\ t < i[2]
    <3>1. Within(span, root)[1] <= t /\ t < Within(span, root)[2] /\ t \in Int
      BY <1>3, <2>1
    <3>2. Within(span, root) \in cut
      BY <1>3, <3>1
    <3>. QED
      BY <3>1, <3>2
  <2>2. ASSUME NEW i \in cut, i[1] <= t, t < i[2]
        PROVE  \E span \in times : span[1] <= t /\ t < span[2]
    BY <1>3, <2>2
  <2>. QED
    BY <2>1, <2>2 DEF IsActive, times
<1>. QED
  BY <1>1, <1>3, <1>4

(* The categories in the order of their priority.                          *)
LEMMA Priorities ==
  /\ \A k \in 1 .. 5 : Priority[k] \in Components
  /\ \A c \in Components : /\ (CHOOSE k \in 1 .. 5 : Priority[k] = c) \in 1 .. 5
                           /\ Priority[CHOOSE k \in 1 .. 5 : Priority[k] = c] = c
  /\ \A j, k \in 1 .. 5 : Priority[j] = Priority[k] => j = k
<1>1. \A k \in 1 .. 5 : k = 1 \/ k = 2 \/ k = 3 \/ k = 4 \/ k = 5
  OBVIOUS
<1>2. /\ Priority[1] = "retrieval" /\ Priority[2] = "llm" /\ Priority[3] = "persistence"
      /\ Priority[4] = "approval" /\ Priority[5] = "mcp"
  BY DEF Priority
<1>3. \A c \in Components : \E k \in 1 .. 5 : Priority[k] = c
  BY <1>2 DEF Components
<1>4. \A k \in 1 .. 5 : Priority[k] \in Components
  BY <1>1, <1>2 DEF Components
<1>5. \A j, k \in 1 .. 5 : Priority[j] = Priority[k] => j = k
  BY <1>1, <1>2
<1>. QED
  BY <1>3, <1>4, <1>5

(* The ticks of an execution at which a category is the first to be active.*)
OwnTicks(bundle, root, k) ==
    {t \in root.start .. root.end - 1 :
        /\ IsActive(bundle, Priority[k], t)
        /\ \A j \in 1 .. k - 1 : ~ IsActive(bundle, Priority[j], t)}

LEMMA OwnedIsTicks ==
  ASSUME NEW bundle, IsTimed(bundle), NEW root \in Spans(bundle), NEW k \in 1 .. 5
  PROVE  OwnedDurations(bundle, root)[Priority[k]] = Cardinality(OwnTicks(bundle, root, k))
<1> DEFINE covers == [c \in Components |-> Intervals(bundle, root, c)]
           boundaries == {root.start, root.end}
               \union UNION {{i[1], i[2]} : i \in UNION {covers[c] : c \in Components}}
           next(t) == CHOOSE u \in boundaries :
                         t < u /\ \A v \in boundaries : t < v => u <= v
           pieces == {<<t, next(t)>> : t \in {u \in boundaries : u < root.end}}
           owns(j, piece) == \E i \in covers[Priority[j]] : i[1] <= piece[1] /\ piece[2] <= i[2]
           owned(n) == {piece \in pieces :
                           owns(n, piece) /\ \A j \in 1 .. n - 1 : ~ owns(j, piece)}
           total(n) == SumFunction([piece \in owned(n) |-> piece[2] - piece[1]])
<1>1. OwnedDurations(bundle, root)[Priority[k]] = total(k)
  <2>1. OwnedDurations(bundle, root) =
            [c \in Components |-> total(CHOOSE n \in 1 .. 5 : Priority[n] = c)]
    BY DEF OwnedDurations
  <2>2. Priority[k] \in Components /\ (CHOOSE n \in 1 .. 5 : Priority[n] = Priority[k]) = k
    BY Priorities
  <2> HIDE DEF total
  <2>. QED
    BY <2>1, <2>2
<1>2. root.start \in Nat /\ root.end \in Nat /\ root.start <= root.end
  BY SpansAreTimed
<1>3. \A c \in Components : \A i \in covers[c] :
         /\ i[1] \in Nat /\ i[2] \in Nat
         /\ root.start <= i[1] /\ i[1] < i[2] /\ i[2] <= root.end
         /\ i[1] \in boundaries /\ i[2] \in boundaries
  <2>1. TAKE c \in Components
  <2>2. TAKE i \in covers[c]
  <2>3. covers[c] = Intervals(bundle, root, c)
    OBVIOUS
  <2>4. /\ i[1] \in Nat /\ i[2] \in Nat
        /\ root.start <= i[1] /\ i[1] < i[2] /\ i[2] <= root.end
    BY <1>2, <2>3, IntervalsKeepTicks
  <2> HIDE DEF covers
  <2>. QED
    BY <2>4
<1>4. /\ root.start \in boundaries /\ root.end \in boundaries
      /\ \A t \in boundaries : t \in Nat /\ root.start <= t /\ t <= root.end
  <2> HIDE DEF covers
  <2>. QED
    BY <1>2, <1>3
<1>5. \A j \in 1 .. 5 : \A t \in root.start .. root.end - 1 :
         IsActive(bundle, Priority[j], t) <=> \E i \in covers[Priority[j]] : i[1] <= t /\ t < i[2]
  BY <1>2, Priorities, IntervalsKeepTicks
<1> HIDE DEF covers, boundaries
<1>6. \A t \in boundaries : t < root.end =>
         next(t) \in boundaries /\ t < next(t) /\ \A v \in boundaries : t < v => next(t) <= v
  <2>1. TAKE t \in boundaries
  <2>2. HAVE t < root.end
  <2> DEFINE later == {u \in boundaries : t < u}
  <2>3. later \in SUBSET Nat /\ later # {}
    BY <1>4, <2>2
  <2> HIDE DEF later
  <2>4. PICK u \in later : \A v \in later : u <= v
    BY <2>3, LeastNumber
  <2>5. u \in boundaries /\ t < u /\ \A v \in boundaries : t < v => u <= v
    BY <2>4 DEF later
  <2>. QED
    BY <2>5
<1> DEFINE follows == [t \in boundaries |-> next(t)]
<1> HIDE DEF next
<1>7. \A t \in boundaries : t < root.end =>
         /\ follows[t] \in boundaries /\ follows[t] \in Nat /\ t < follows[t]
         /\ \A v \in boundaries : t < v => follows[t] <= v
  BY <1>4, <1>6
<1>8. \A piece \in owned(k) : \E t \in boundaries : t < root.end /\ piece = <<t, follows[t]>>
  OBVIOUS
<1>9. ASSUME NEW t \in boundaries, t < root.end, NEW x \in t .. follows[t] - 1, NEW j \in 1 .. 5
      PROVE  IsActive(bundle, Priority[j], x) <=> owns(j, <<t, follows[t]>>)
  <2>1. /\ t \in Nat /\ follows[t] \in Nat /\ x \in Int /\ t <= x /\ x < follows[t]
        /\ root.start <= t /\ follows[t] <= root.end
    BY <1>4, <1>7, <1>9
  <2>2. x \in root.start .. root.end - 1
    BY <1>2, <2>1
  <2>3. ASSUME NEW i \in covers[Priority[j]]
        PROVE  i[1] <= x /\ x < i[2] <=> i[1] <= t /\ follows[t] <= i[2]
    <3>1. i[1] \in boundaries /\ i[2] \in boundaries /\ i[1] \in Nat /\ i[2] \in Nat
      BY <1>3, Priorities
    <3>2. (t < i[1] => follows[t] <= i[1]) /\ (t < i[2] => follows[t] <= i[2])
      BY <1>7, <1>9, <3>1
    <3>. QED
      BY ONLY <2>1, <3>1, <3>2
  <2>. QED
    BY <1>5, <2>2, <2>3
<1>10. \A t \in boundaries : t < root.end =>
          \A x \in t .. follows[t] - 1 :
             x \in OwnTicks(bundle, root, k) <=> <<t, follows[t]>> \in owned(k)
  <2>1. TAKE t \in boundaries
  <2>2. HAVE t < root.end
  <2>3. TAKE x \in t .. follows[t] - 1
  <2>4. x \in root.start .. root.end - 1
    BY <1>2, <1>4, <1>7, <2>2
  <2>5. <<t, follows[t]>> \in pieces
    BY <2>2
  <2>6. \A j \in 1 .. 5 : IsActive(bundle, Priority[j], x) <=> owns(j, <<t, follows[t]>>)
    BY <1>9, <2>2
  <2> HIDE DEF owns, pieces
  <2>7. \A j \in 1 .. k - 1 : j \in 1 .. 5
    OBVIOUS
  <2>. QED
    BY <2>4, <2>5, <2>6, <2>7 DEF OwnTicks
<1>11. OwnTicks(bundle, root, k) \in SUBSET (root.start .. root.end - 1)
  BY DEF OwnTicks
<1> DEFINE lo == root.start
           hi == root.end
           mine == owned(k)
           ticks == OwnTicks(bundle, root, k)
           length == [piece \in mine |-> piece[2] - piece[1]]
<1> HIDE DEF owned, follows
<1>12. SumFunction(length) = Cardinality(ticks)
  <2>1. /\ lo \in Nat /\ hi \in Nat /\ ticks \in SUBSET (lo .. hi - 1)
        /\ lo \in boundaries /\ \A t \in boundaries : t \in Nat /\ lo <= t /\ t <= hi
    BY ONLY <1>2, <1>4, <1>11
  <2>2. \A t \in boundaries : t < hi =>
           /\ follows[t] \in boundaries /\ t < follows[t]
           /\ \A v \in boundaries : t < v => follows[t] <= v
           /\ \A x \in t .. follows[t] - 1 : x \in ticks <=> <<t, follows[t]>> \in mine
    BY ONLY <1>7, <1>10
  <2>3. \A piece \in mine : \E t \in boundaries : t < hi /\ piece = <<t, follows[t]>>
    BY ONLY <1>8
  <2>4. DOMAIN length = mine /\ \A piece \in mine : length[piece] = piece[2] - piece[1]
    OBVIOUS
  <2> HIDE DEF lo, hi, mine, ticks, length
  <2>5. Measures(length, mine, lo, hi, boundaries, follows, ticks)
    BY ONLY <2>1, <2>2, <2>3, <2>4 DEF Measures
  <2>. QED
    BY ONLY <2>5, TicksOfPieces
<1>. QED
  BY <1>1, <1>12

(* Together they own no more than there is.                                *)
LEMMA OwnedIsBounded ==
  ASSUME NEW bundle, IsTimed(bundle), NEW root \in Spans(bundle)
  PROVE  SumFunction(OwnedDurations(bundle, root)) <= Duration(root)
<1> DEFINE owned == OwnedDurations(bundle, root)
           index(c) == CHOOSE k \in 1 .. 5 : Priority[k] = c
           part == [c \in Components |-> OwnTicks(bundle, root, index(c))]
           all == UNION {part[c] : c \in Components}
<1>1. root.start \in Nat /\ root.end \in Nat /\ root.start <= root.end
  BY SpansAreTimed
<1>2. IsFiniteSet(Components)
  <2>1. IsFiniteSet({}) /\ \A S, x : IsFiniteSet(S) => IsFiniteSet(S \union {x})
    BY FS_EmptySet, FS_AddElement
  <2>2. Components = (((({} \union {"retrieval"}) \union {"llm"}) \union {"persistence"})
                        \union {"approval"}) \union {"mcp"}
    BY DEF Components
  <2>. QED
    BY <2>1, <2>2
<1>3. \A c \in Components : index(c) \in 1 .. 5 /\ Priority[index(c)] = c
  BY Priorities
<1> HIDE DEF index
<1>4. /\ IsFiniteSet(root.start .. root.end - 1)
      /\ Cardinality(root.start .. root.end - 1) = root.end - root.start
  <2>1. ASSUME NEW a \in Nat, NEW b \in Nat, a <= b
        PROVE  IsFiniteSet(a .. b - 1) /\ Cardinality(a .. b - 1) = b - a
    <3>1. b - 1 \in Int /\ a \in Int
      BY ONLY a \in Nat, b \in Nat
    <3>2. /\ IsFiniteSet(a .. b - 1)
          /\ Cardinality(a .. b - 1) = IF a > b - 1 THEN 0 ELSE (b - 1) - a + 1
      BY ONLY <3>1, FS_Interval
    <3>. QED
      BY ONLY <2>1, <3>2, a \in Nat, b \in Nat
  <2>. QED
    BY ONLY <1>1, <2>1
<1>5. \A c \in Components : part[c] \subseteq root.start .. root.end - 1
  BY DEF OwnTicks
<1>6. \A c \in Components : IsFiniteSet(part[c]) /\ owned[c] = Cardinality(part[c])
  <2>1. TAKE c \in Components
  <2>2. owned[Priority[index(c)]] = Cardinality(OwnTicks(bundle, root, index(c)))
    BY <1>3, OwnedIsTicks
  <2>3. part[c] = OwnTicks(bundle, root, index(c)) /\ Priority[index(c)] = c
    BY <1>3
  <2>4. IsFiniteSet(part[c])
    BY <1>4, <1>5, FS_Subset
  <2>. QED
    BY ONLY <2>2, <2>3, <2>4
<1>7. \A c, d \in Components : c # d => part[c] \intersect part[d] = {}
  <2>1. SUFFICES ASSUME NEW c \in Components, NEW d \in Components, c # d,
                        NEW t \in part[c], t \in part[d]
                 PROVE  FALSE
    OBVIOUS
  <2> DEFINE m == index(c)
             n == index(d)
  <2>2. m # n /\ m \in 1 .. 5 /\ n \in 1 .. 5
    BY ONLY <1>3, c \in Components, d \in Components, c # d
  <2>3. t \in OwnTicks(bundle, root, m) /\ t \in OwnTicks(bundle, root, n)
    BY ONLY c \in Components, d \in Components, t \in part[c], t \in part[d] DEF part
  <2> HIDE DEF m, n
  <2>4. /\ IsActive(bundle, Priority[m], t) /\ IsActive(bundle, Priority[n], t)
        /\ \A j \in 1 .. m - 1 : ~ IsActive(bundle, Priority[j], t)
        /\ \A j \in 1 .. n - 1 : ~ IsActive(bundle, Priority[j], t)
    BY ONLY <2>3 DEF OwnTicks
  <2>. QED
    BY ONLY <2>2, <2>4
<1>8. \A t : t \in all <=> \E c \in Components : t \in part[c]
  OBVIOUS
<1>9. all \in SUBSET (root.start .. root.end - 1)
  BY <1>5
<1>10. DOMAIN owned = Components
  BY DEF OwnedDurations
<1> HIDE DEF owned, part, all
<1>11. SumFunctionOnSet(owned, Components) = Cardinality(all)
  BY ONLY <1>2, <1>6, <1>7, <1>8, SumOfDisjoint
<1>12. Cardinality(all) <= root.end - root.start
  BY <1>4, <1>9, FS_Subset
<1>. QED
  BY <1>10, <1>11, <1>12 DEF SumFunction, Duration, owned

(* The execution that is analyzed is a span of the trace.                  *)
LEMMA RootIsASpan ==
  ASSUME NEW bundle, IsTimed(bundle), RunRoot(bundle) # None
  PROVE  RunRoot(bundle) \in Spans(bundle)
<1> DEFINE roots == {i \in DOMAIN bundle.spans : bundle.spans[i].operation = "agent.run"}
           length == [i \in roots |-> Duration(bundle.spans[i])]
           lengths == {length[i] : i \in roots}
           IsRoot(i) == \A j \in roots :
               \/ Duration(bundle.spans[i]) > Duration(bundle.spans[j])
               \/ Duration(bundle.spans[i]) = Duration(bundle.spans[j]) /\ i <= j
<1>1. roots # {} /\ RunRoot(bundle) = bundle.spans[CHOOSE i \in roots : IsRoot(i)]
  BY DEF RunRoot
<1>2. IsFiniteSet(roots) /\ roots \in SUBSET Nat /\ roots \in SUBSET DOMAIN bundle.spans
  <2>1. Len(bundle.spans) \in Nat /\ DOMAIN bundle.spans = 1 .. Len(bundle.spans)
    BY LenProperties DEF IsTimed
  <2>2. IsFiniteSet(1 .. Len(bundle.spans))
    BY <2>1, FS_Interval
  <2>. QED
    BY <2>1, <2>2, FS_Subset
<1>3. \A i \in roots : length[i] = Duration(bundle.spans[i]) /\ length[i] \in Nat
  BY SpansAreTimed DEF Duration
<1> HIDE DEF roots, length
<1>4. lengths \in SUBSET Nat /\ lengths # {} /\ IsFiniteSet(lengths)
  <2>1. IsFiniteSet(lengths)
    BY <1>2, FiniteValues
  <2>. QED
    BY <1>1, <1>3, <2>1
<1>5. PICK d \in lengths : \A e \in lengths : e <= d
  BY <1>4, GreatestOfFinite
<1> DEFINE longest == {i \in roots : length[i] = d}
<1>6. longest \in SUBSET Nat /\ longest # {}
  BY <1>2, <1>5
<1>7. PICK i \in longest : \A j \in longest : i <= j
  <2> HIDE DEF longest
  <2>. QED
    BY <1>6, LeastNumber
<1>8. \A j \in roots : length[j] <= length[i] /\ (length[j] = length[i] => i <= j)
  BY <1>5, <1>7
<1>9. i \in roots /\ IsRoot(i)
  <2>1. i \in roots
    BY <1>7
  <2> HIDE DEF longest, lengths
  <2>. QED
    BY ONLY <1>3, <1>8, <2>1
<1>10. (CHOOSE j \in roots : IsRoot(j)) \in roots
  BY <1>9
<1>. QED
  BY <1>1, <1>2, <1>10, SpansAreTimed

-----------------------------------------------------------------------------
(* The trace.  Of some spans one is the earliest.                          *)
LEMMA EarliestIsASpan ==
  ASSUME NEW S, S \subseteq TempoSpan, S # {}
  PROVE  Earliest(S) \in S
<1> DEFINE starts == {s.start : s \in S}
<1>1. \A s \in S : s.start \in Nat /\ s.id \in Nat
  BY DEF TempoSpan
<1>2. starts \in SUBSET Nat /\ starts # {}
  BY <1>1
<1>3. PICK start \in starts : \A t \in starts : start <= t
  <2> HIDE DEF starts
  <2>. QED
    BY <1>2, LeastNumber
<1> DEFINE ids == {s.id : s \in {t \in S : t.start = start}}
<1>4. ids \in SUBSET Nat /\ ids # {}
  BY <1>1, <1>3
<1>5. PICK id \in ids : \A n \in ids : id <= n
  <2> HIDE DEF ids, starts
  <2>. QED
    BY <1>4, LeastNumber
<1>6. PICK s \in S : s.start = start /\ s.id = id
  BY <1>5
<1>7. \A t \in S : start <= t.start /\ (t.start = start => id <= t.id)
  BY <1>3, <1>5
<1>8. \A t \in S : ~ Earlier(t, s)
  <2> HIDE DEF starts, ids
  <2>. QED
    BY <1>1, <1>6, <1>7 DEF Earlier
<1>. QED
  BY <1>8 DEF Earliest

LEMMA InOrderIsOfThem ==
  ASSUME NEW S, S \subseteq TempoSpan, IsFiniteSet(S)
  PROVE  InOrder(S) \in Seq(S) /\ (S # {} => InOrder(S) # <<>>)
<1> DEFINE order(g) == [T \in SUBSET S |->
                          IF T = {} THEN <<>> ELSE <<Earliest(T)>> \o g[T \ {Earliest(T)}]]
           ordered == CHOOSE g : g = order(g)
           rest == [T \in SUBSET S |-> T \ {Earliest(T)}]
           step == [p \in (SUBSET S) \X Seq(S) |-> <<Earliest(p[1])>> \o p[2]]
<1>1. InOrder(S) = ordered[S]
  BY DEF InOrder, MapThenFoldSet
<1>2. \A T \in SUBSET S : T # {} => /\ Earliest(T) \in T /\ <<Earliest(T)>> \in Seq(S)
                                    /\ rest[T] = T \ {Earliest(T)}
  <2>1. TAKE T \in SUBSET S
  <2>2. HAVE T # {}
  <2>3. T \subseteq TempoSpan
    OBVIOUS
  <2>4. Earliest(T) \in T
    BY <2>2, <2>3, EarliestIsASpan
  <2>. QED
    BY <2>4
<1>3. \A T \in SUBSET S : \A v \in Seq(S) : T # {} =>
         step[<<T, v>>] \in Seq(S) /\ step[<<T, v>>] = <<Earliest(T)>> \o v
  BY <1>2, ConcatProperties
<1>4. \A T \in SUBSET S : T # {} => rest[T] \in SUBSET T /\ rest[T] # T
  BY <1>2
<1> HIDE DEF rest, step
<1>5. PICK g \in [SUBSET S -> Seq(S)] :
         \A T \in SUBSET S : g[T] = IF T = {} THEN <<>> ELSE step[<<T, g[rest[T]]>>]
  <2>1. <<>> \in Seq(S)
    OBVIOUS
  <2>2. \A T \in SUBSET S : \A v \in Seq(S) : T # {} => step[<<T, v>>] \in Seq(S)
    BY ONLY <1>3
  <2>3. Shrinks(S, Seq(S), <<>>, rest, step)
    BY ONLY <1>4, <2>1, <2>2 DEF Shrinks
  <2>4. \E g \in [SUBSET S -> Seq(S)] : Recurs(g, S, <<>>, rest, step)
    BY ONLY IsFiniteSet(S), <2>3, SubsetRecursion
  <2>. QED
    BY ONLY <2>4 DEF Recurs
<1>6. g = order(g)
  <2>1. ASSUME NEW T \in SUBSET S PROVE g[T] = order(g)[T]
    <3>1. CASE T = {}
      BY <1>5, <3>1
    <3>2. CASE T # {}
      <4>1. g[rest[T]] \in Seq(S) /\ rest[T] = T \ {Earliest(T)}
        BY <1>2, <1>4, <1>5, <3>2
      <4>2. g[T] = <<Earliest(T)>> \o g[rest[T]]
        BY <1>3, <1>5, <3>2, <4>1
      <4>. QED
        BY <3>2, <4>1, <4>2
    <3>. QED
      BY <3>1, <3>2
  <2>2. DOMAIN g = SUBSET S
    BY <1>5
  <2>. QED
    BY <1>5, <2>1, <2>2
<1> HIDE DEF order
<1>7. ordered = order(ordered)
  BY <1>6
<1> HIDE DEF ordered
<1>8. \A T \in SUBSET S :
         ordered[T] = IF T = {} THEN <<>> ELSE <<Earliest(T)>> \o ordered[T \ {Earliest(T)}]
  BY <1>7 DEF order
<1> DEFINE bad == {T \in SUBSET S : ordered[T] \notin Seq(S)}
<1>9. bad = {}
  <2>1. SUFFICES ASSUME bad # {} PROVE FALSE
    OBVIOUS
  <2>2. PICK T \in bad : \A U \in bad : U \subseteq T => U = T
    <3>1. bad \in SUBSET SUBSET S
      OBVIOUS
    <3> HIDE DEF bad
    <3>. QED
      BY ONLY IsFiniteSet(S), <2>1, <3>1, LeastSubset
  <2>3. T # {}
    <3>1. <<>> \in Seq(S) /\ {} \in SUBSET S
      OBVIOUS
    <3>2. ordered[{}] = <<>>
      BY ONLY <1>8, <3>1
    <3>. QED
      BY <2>2, <3>1, <3>2
  <2>4. rest[T] \in SUBSET S /\ ordered[rest[T]] \in Seq(S)
    BY <1>4, <2>2, <2>3
  <2>5. ordered[T] = <<Earliest(T)>> \o ordered[rest[T]]
    BY <1>2, <1>8, <2>3
  <2>6. ordered[T] \in Seq(S)
    BY <1>2, <2>3, <2>4, <2>5, ConcatProperties
  <2>. QED
    BY <2>2, <2>6
<1>10. ordered[S] \in Seq(S)
  BY <1>9
<1>11. ASSUME S # {} PROVE ordered[S] # <<>>
  <2>1. <<Earliest(S)>> \in Seq(S) /\ ordered[rest[S]] \in Seq(S)
    BY <1>2, <1>4, <1>9, <1>11
  <2>2. ordered[S] = <<Earliest(S)>> \o ordered[rest[S]]
    BY <1>2, <1>8, <1>11
  <2>3. Len(ordered[S]) = Len(<<Earliest(S)>>) + Len(ordered[rest[S]])
    BY <2>1, <2>2, ConcatProperties
  <2>4. Len(<<Earliest(S)>>) = 1 /\ Len(ordered[rest[S]]) \in Nat /\ Len(<<>>) = 0
    BY <2>1, LenProperties
  <2>. QED
    BY <2>3, <2>4
<1>. QED
  BY <1>1, <1>10, <1>11

(* Parents before children, all of them are spans of the trace.            *)
LEMMA ParentFirstIsOfThem ==
  ASSUME NEW S, S \subseteq TempoSpan, IsFiniteSet(S)
  PROVE  ParentFirstOrder(S) \in Seq(S)
<1> DEFINE ready(T) == {s \in T : s.parent = None \/ s.parent \in {r.id : r \in S \ T}}
           round(T) == IF ready(T) # {} THEN InOrder(ready(T)) ELSE <<Earliest(T)>>
           order(g) == [T \in SUBSET S |->
                          IF T = {} THEN <<>> ELSE round(T) \o g[T \ ToSet(round(T))]]
           ordered == CHOOSE g : g = order(g)
           rest == [T \in SUBSET S |-> T \ ToSet(round(T))]
           step == [p \in (SUBSET S) \X Seq(S) |-> round(p[1]) \o p[2]]
<1>1. ParentFirstOrder(S) = ordered[S]
  BY DEF ParentFirstOrder
<1>2. ASSUME NEW T \in SUBSET S, T # {}
      PROVE  /\ round(T) \in Seq(S) /\ ToSet(round(T)) \intersect T # {}
             /\ rest[T] = T \ ToSet(round(T))
  <2> DEFINE some == ready(T)
  <2>1. T \subseteq TempoSpan /\ some \subseteq T /\ some \subseteq TempoSpan
    OBVIOUS
  <2>2. IsFiniteSet(some)
    BY <2>1, FS_Subset
  <2>3. CASE some # {}
    <3> HIDE DEF ready
    <3>1. round(T) = InOrder(some)
      BY <2>3
    <3> HIDE DEF some
    <3>2. InOrder(some) \in Seq(some) /\ InOrder(some) # <<>>
      BY <2>1, <2>2, <2>3, InOrderIsOfThem
    <3>3. Len(InOrder(some)) \in Nat \ {0}
      BY <3>2, EmptySeq
    <3>4. InOrder(some)[1] \in some /\ InOrder(some)[1] \in ToSet(InOrder(some))
      BY <3>2, <3>3, LenProperties DEF ToSet
    <3>5. InOrder(some) \in Seq(S)
      BY <2>1, <3>2, SeqMonotonic
    <3>. QED
      BY <2>1, <3>1, <3>4, <3>5
  <2>4. CASE some = {}
    <3> HIDE DEF ready
    <3>1. round(T) = <<Earliest(T)>> /\ Earliest(T) \in T
      BY <1>2, <2>1, <2>4, EarliestIsASpan
    <3>2. <<Earliest(T)>> \in Seq(S) /\ Earliest(T) \in ToSet(<<Earliest(T)>>)
      BY <3>1 DEF ToSet
    <3>. QED
      BY <3>1, <3>2
  <2>. QED
    BY <2>3, <2>4
<1> HIDE DEF round, ready
<1>3. \A T \in SUBSET S : \A v \in Seq(S) : T # {} =>
         step[<<T, v>>] \in Seq(S) /\ step[<<T, v>>] = round(T) \o v
  BY <1>2, ConcatProperties
<1>4. \A T \in SUBSET S : T # {} => rest[T] \in SUBSET T /\ rest[T] # T
  BY <1>2
<1> HIDE DEF rest, step
<1>5. PICK g \in [SUBSET S -> Seq(S)] :
         \A T \in SUBSET S : g[T] = IF T = {} THEN <<>> ELSE step[<<T, g[rest[T]]>>]
  <2>1. <<>> \in Seq(S)
    OBVIOUS
  <2>2. \A T \in SUBSET S : \A v \in Seq(S) : T # {} => step[<<T, v>>] \in Seq(S)
    BY ONLY <1>3
  <2>3. Shrinks(S, Seq(S), <<>>, rest, step)
    BY ONLY <1>4, <2>1, <2>2 DEF Shrinks
  <2>4. \E g \in [SUBSET S -> Seq(S)] : Recurs(g, S, <<>>, rest, step)
    BY ONLY IsFiniteSet(S), <2>3, SubsetRecursion
  <2>. QED
    BY ONLY <2>4 DEF Recurs
<1>6. g = order(g)
  <2>1. ASSUME NEW T \in SUBSET S PROVE g[T] = order(g)[T]
    <3>1. CASE T = {}
      BY <1>5, <3>1
    <3>2. CASE T # {}
      <4>1. g[rest[T]] \in Seq(S) /\ rest[T] = T \ ToSet(round(T))
        BY <1>2, <1>4, <1>5, <3>2
      <4>2. g[T] = round(T) \o g[rest[T]]
        BY <1>3, <1>5, <3>2, <4>1
      <4>. QED
        BY <3>2, <4>1, <4>2
    <3>. QED
      BY <3>1, <3>2
  <2>2. DOMAIN g = SUBSET S
    BY <1>5
  <2>. QED
    BY <1>5, <2>1, <2>2
<1> HIDE DEF order
<1>7. ordered = order(ordered)
  BY <1>6
<1> HIDE DEF ordered
<1>8. \A T \in SUBSET S :
         ordered[T] = IF T = {} THEN <<>> ELSE round(T) \o ordered[T \ ToSet(round(T))]
  BY <1>7 DEF order
<1> DEFINE bad == {T \in SUBSET S : ordered[T] \notin Seq(S)}
<1>9. bad = {}
  <2>1. SUFFICES ASSUME bad # {} PROVE FALSE
    OBVIOUS
  <2>2. PICK T \in bad : \A U \in bad : U \subseteq T => U = T
    <3>1. bad \in SUBSET SUBSET S
      OBVIOUS
    <3> HIDE DEF bad
    <3>. QED
      BY ONLY IsFiniteSet(S), <2>1, <3>1, LeastSubset
  <2>3. T # {}
    <3>1. <<>> \in Seq(S) /\ {} \in SUBSET S
      OBVIOUS
    <3>2. ordered[{}] = <<>>
      BY ONLY <1>8, <3>1
    <3>. QED
      BY <2>2, <3>1, <3>2
  <2>4. rest[T] \in SUBSET S /\ ordered[rest[T]] \in Seq(S)
    BY <1>4, <2>2, <2>3
  <2>5. ordered[T] = round(T) \o ordered[rest[T]]
    BY <1>2, <1>8, <2>3
  <2>6. ordered[T] \in Seq(S)
    BY <1>2, <2>3, <2>4, <2>5, ConcatProperties
  <2>. QED
    BY <2>2, <2>6
<1>. QED
  BY <1>1, <1>9

(* What is kept of a sequence is of it, and no more.                       *)
LEMMA KeptAreOfThem ==
  ASSUME NEW A, NEW seq \in Seq(A), NEW elements
  PROVE  /\ Kept(seq, elements) \in Seq(A \intersect elements)
         /\ Len(Kept(seq, elements)) <= Len(seq)
<1> DEFINE S == DOMAIN seq
           B == A \intersect elements
           last(T) == Max(T)
           with(i, kept) == IF seq[i] \in elements THEN Append(kept, seq[i]) ELSE kept
           fold(g) == [T \in SUBSET S |-> IF T = {} THEN <<>> ELSE with(last(T), g[T \ {last(T)}])]
           folded == CHOOSE g : g = fold(g)
           rest == [T \in SUBSET S |-> T \ {last(T)}]
           step == [p \in (SUBSET S) \X Seq(B) |-> with(last(p[1]), p[2])]
<1>1. Kept(seq, elements) = folded[S]
  BY DEF Kept, FoldLeft, MapThenFoldSet
<1>2. S = 1 .. Len(seq) /\ Len(seq) \in Nat /\ IsFiniteSet(S) /\ Cardinality(S) = Len(seq)
      /\ \A i \in S : seq[i] \in A
  <2> DEFINE n == Len(seq)
  <2>1. n \in Nat /\ DOMAIN seq = 1 .. n /\ \A i \in 1 .. n : seq[i] \in A
    BY LenProperties
  <2> HIDE DEF n
  <2>2. IsFiniteSet(1 .. n) /\ Cardinality(1 .. n) = n
    BY ONLY <2>1, FS_Interval
  <2>. QED
    BY <2>1, <2>2 DEF n
<1>3. \A T \in SUBSET S : T # {} => last(T) \in T /\ rest[T] = T \ {last(T)}
  <2>1. TAKE T \in SUBSET S
  <2>2. HAVE T # {}
  <2>3. T \subseteq Nat /\ IsFiniteSet(T)
    BY <1>2, FS_Subset
  <2>4. PICK x \in T : \A y \in T : y <= x
    BY <2>2, <2>3, GreatestOfFinite
  <2>5. \A y \in T : x >= y
    BY <2>3, <2>4
  <2>6. last(T) \in T
    BY <2>4, <2>5 DEF Max
  <2>. QED
    BY <2>6
<1> HIDE DEF last
<1>4. \A i \in S : \A v \in Seq(B) :
         /\ with(i, v) \in Seq(B)
         /\ Len(with(i, v)) <= Len(v) + 1
  <2>1. TAKE i \in S
  <2>2. TAKE v \in Seq(B)
  <2>3. CASE seq[i] \in elements
    <3>1. seq[i] \in B
      BY <1>2, <2>3
    <3>2. Append(v, seq[i]) \in Seq(B) /\ Len(Append(v, seq[i])) = Len(v) + 1
      BY ONLY <2>2, <3>1, AppendProperties
    <3>3. Len(v) \in Nat
      BY LenProperties
    <3>. QED
      BY <2>3, <3>2, <3>3
  <2>4. CASE seq[i] \notin elements
    <3>1. Len(v) \in Nat
      BY LenProperties
    <3>. QED
      BY <2>4, <3>1
  <2>. QED
    BY <2>3, <2>4
<1> HIDE DEF with
<1>5. \A T \in SUBSET S : \A v \in Seq(B) : T # {} =>
         step[<<T, v>>] \in Seq(B) /\ step[<<T, v>>] = with(last(T), v)
  BY <1>3, <1>4
<1>6. \A T \in SUBSET S : T # {} => rest[T] \in SUBSET T /\ rest[T] # T
  BY <1>3
<1>13. IsFiniteSet(S)
  BY <1>2
<1> HIDE DEF rest, step, B, S
<1>7. PICK g \in [SUBSET S -> Seq(B)] :
         \A T \in SUBSET S : g[T] = IF T = {} THEN <<>> ELSE step[<<T, g[rest[T]]>>]
  <2>1. <<>> \in Seq(B)
    OBVIOUS
  <2>2. \A T \in SUBSET S : \A v \in Seq(B) : T # {} => step[<<T, v>>] \in Seq(B)
    BY ONLY <1>5
  <2>3. Shrinks(S, Seq(B), <<>>, rest, step)
    BY ONLY <1>6, <2>1, <2>2 DEF Shrinks
  <2>4. \E g \in [SUBSET S -> Seq(B)] : Recurs(g, S, <<>>, rest, step)
    BY ONLY <1>2, <2>3, SubsetRecursion
  <2>. QED
    BY ONLY <2>4 DEF Recurs
<1>8. g = fold(g)
  <2>1. ASSUME NEW T \in SUBSET S PROVE g[T] = fold(g)[T]
    <3>1. CASE T = {}
      BY <1>7, <3>1
    <3>2. CASE T # {}
      <4>1. g[rest[T]] \in Seq(B) /\ rest[T] = T \ {last(T)}
        BY <1>3, <1>6, <1>7, <3>2
      <4>2. g[T] = with(last(T), g[rest[T]])
        BY <1>5, <1>7, <3>2, <4>1
      <4>. QED
        BY <3>2, <4>1, <4>2
    <3>. QED
      BY <3>1, <3>2
  <2>2. DOMAIN g = SUBSET S
    BY <1>7
  <2>. QED
    BY <1>7, <2>1, <2>2
<1> HIDE DEF fold
<1>9. folded = fold(folded)
  BY <1>8
<1> HIDE DEF folded
<1>10. \A T \in SUBSET S :
          folded[T] = IF T = {} THEN <<>> ELSE with(last(T), folded[T \ {last(T)}])
  BY <1>9 DEF fold
<1> DEFINE IsGood(T) == folded[T] \in Seq(B) /\ Len(folded[T]) <= Cardinality(T)
           bad == {T \in SUBSET S : ~ IsGood(T)}
<1>11. bad = {}
  <2>1. SUFFICES ASSUME bad # {} PROVE FALSE
    OBVIOUS
  <2>2. PICK T \in bad : \A U \in bad : U \subseteq T => U = T
    <3>1. bad \in SUBSET SUBSET S
      OBVIOUS
    <3> HIDE DEF bad
    <3>. QED
      BY ONLY <1>13, <2>1, <3>1, LeastSubset
  <2>3. T # {}
    <3>1. <<>> \in Seq(B) /\ {} \in SUBSET S /\ Len(<<>>) = 0 /\ Cardinality({}) = 0
      BY FS_EmptySet
    <3>2. folded[{}] = <<>>
      BY ONLY <1>10, <3>1
    <3>3. IsGood({})
      BY ONLY <3>1, <3>2
    <3>. QED
      BY <2>2, <3>3
  <2>4. rest[T] \in SUBSET S /\ IsGood(rest[T])
    BY <1>6, <2>2, <2>3
  <2>5. folded[T] = with(last(T), folded[rest[T]]) /\ last(T) \in S
    BY <1>3, <1>10, <2>3
  <2>6. folded[T] \in Seq(B) /\ Len(folded[T]) <= Len(folded[rest[T]]) + 1
    BY <1>4, <2>4, <2>5
  <2>7. Cardinality(T) = Cardinality(rest[T]) + 1 /\ Cardinality(rest[T]) \in Nat
    <3>1. IsFiniteSet(T) /\ last(T) \in T /\ rest[T] = T \ {last(T)}
      BY <1>2, <1>3, <2>3, FS_Subset
    <3>2. Cardinality(T \ {last(T)}) = Cardinality(T) - 1 /\ IsFiniteSet(T \ {last(T)})
      BY <3>1, FS_RemoveElement
    <3>3. Cardinality(T) \in Nat /\ Cardinality(T \ {last(T)}) \in Nat
      BY <3>1, <3>2, FS_CardinalityType
    <3>. QED
      BY ONLY <3>1, <3>2, <3>3
  <2>8. Len(folded[T]) \in Nat /\ Len(folded[rest[T]]) \in Nat
    BY <2>4, <2>6, LenProperties
  <2>9. IsGood(T)
    BY <2>4, <2>6, <2>7, <2>8
  <2>. QED
    BY <2>2, <2>9
<1>12. IsGood(S)
  BY <1>11
<1>. QED
  BY <1>1, <1>2, <1>12 DEF B

(* Whatever Tempo replies, what is analyzed are spans that ended after     *)
(* they started, and no more of them than a trace may show.                *)
LEMMA TraceIsTimed ==
  ASSUME NEW offer, IsOffer(offer)
  PROVE  LET trace == TraceObservation(GetRunTrace(offer.tempo))
         IN  trace.spans \in Seq(TimedSpan) /\ Len(trace.spans) <= MaxTraceSpans
<1> DEFINE spans == offer.tempo.spans
           ordered == ParentFirstOrder(spans)
           IsShort(trace) == trace.spans \in Seq(TimedSpan) /\ Len(trace.spans) <= MaxTraceSpans
<1>1. spans \subseteq TimedSpan /\ spans \subseteq TempoSpan /\ IsFiniteSet(spans)
  BY DEF IsOffer, TimedSpan
<1>2. ordered \in Seq(TimedSpan)
  BY <1>1, ParentFirstIsOfThem, SeqMonotonic
<1>3. MaxTraceSpans \in Nat
  BY EvidenceAssumption
<1> HIDE DEF ordered
<1>4. IsShort([status |-> "available",
               spans |-> IF Len(ordered) > MaxTraceSpans
                         THEN SubSeq(ordered, 1, MaxTraceSpans) ELSE ordered,
               truncated |-> Len(ordered) > MaxTraceSpans])
  <2>1. Len(ordered) \in Nat /\ \A i \in 1 .. Len(ordered) : ordered[i] \in TimedSpan
    BY <1>2, LenProperties
  <2>2. CASE Len(ordered) > MaxTraceSpans
    <3>1. /\ SubSeq(ordered, 1, MaxTraceSpans) \in Seq(TimedSpan)
          /\ Len(SubSeq(ordered, 1, MaxTraceSpans)) = IF 1 <= MaxTraceSpans THEN MaxTraceSpans - 1 + 1 ELSE 0
      <4>1. 1 \in Int /\ MaxTraceSpans \in Int /\ \A i \in 1 .. MaxTraceSpans : ordered[i] \in TimedSpan
        BY <1>3, <2>1, <2>2
      <4>. QED
        BY <4>1, SubSeqProperties
    <3>. QED
      BY <1>3, <2>2, <3>1
  <2>3. CASE ~ (Len(ordered) > MaxTraceSpans)
    BY <1>2, <1>3, <2>1, <2>3
  <2>. QED
    BY <2>2, <2>3
<1>5. \A status : IsShort(NoTrace(status))
  <2>1. <<>> \in Seq(TimedSpan) /\ Len(<<>>) = 0
    BY EmptySeq
  <2>. QED
    BY <1>3, <2>1 DEF NoTrace
<1> HIDE DEF IsShort
<1>6. IsShort(ParseTempoTrace(spans))
  BY <1>4, <1>5 DEF ParseTempoTrace, ordered
<1>7. IsShort(GetTrace(offer.tempo.fetch, spans))
  BY <1>5, <1>6 DEF GetTrace
<1>8. IsShort(GetRunTrace(offer.tempo))
  BY <1>5, <1>7 DEF GetRunTrace
<1> DEFINE trace == GetRunTrace(offer.tempo)
           known == {s \in ToSet(trace.spans) : s.operation \in RcaOperations}
<1>9. /\ Kept(trace.spans, known) \in Seq(TimedSpan)
      /\ Len(Kept(trace.spans, known)) <= MaxTraceSpans
  <2>1. trace.spans \in Seq(TimedSpan) /\ Len(trace.spans) <= MaxTraceSpans
    BY <1>8 DEF IsShort
  <2> HIDE DEF trace, known
  <2>2. /\ Kept(trace.spans, known) \in Seq(TimedSpan \intersect known)
        /\ Len(Kept(trace.spans, known)) <= Len(trace.spans)
    BY <2>1, KeptAreOfThem
  <2>3. Kept(trace.spans, known) \in Seq(TimedSpan)
    BY <2>2, SeqMonotonic
  <2>4. Len(trace.spans) \in Nat /\ Len(Kept(trace.spans, known)) \in Nat
    BY <2>1, <2>3, LenProperties
  <2>. QED
    BY <1>3, <2>1, <2>2, <2>3, <2>4
<1>10. "spans" \in DOMAIN trace
  BY DEF GetRunTrace, GetTrace, ParseTempoTrace, NoTrace
<1>11. \/ TraceObservation(trace) = NoTrace("malformed")
       \/ TraceObservation(trace).spans = Kept(trace.spans, known)
  <2> HIDE DEF trace
  <2>. QED
    BY <1>10 DEF TraceObservation
<1>12. NoTrace("malformed").spans \in Seq(TimedSpan)
         /\ Len(NoTrace("malformed").spans) <= MaxTraceSpans
  BY <1>5 DEF IsShort
<1> HIDE DEF trace, known
<1>. QED
  BY <1>9, <1>11, <1>12 DEF trace

-----------------------------------------------------------------------------
(* What the run store tells of the approval is in order, now and when a    *)
(* caller read it, and a report is made of timed spans.                    *)
InOrderOfTime(runtime) ==
    /\ runtime.status \in RuntimeStatuses
    /\ runtime.requested \in Nat \union {None}
    /\ runtime.decided \in Nat \union {None}
    /\ None \notin {runtime.requested, runtime.decided} => runtime.requested <= runtime.decided

RunInv ==
    /\ time \in Nat
    /\ run \in [status : RuntimeStatuses, tools : 1 .. MaxTools,
                requested : Nat \union {None}, decided : Nat \union {None}]
    /\ run.requested # None => run.requested <= time
    /\ run.status = "waiting_for_approval" => run.requested # None
    /\ run.decided # None => run.requested # None /\ run.requested <= run.decided

ReportInv(c) ==
    /\ At(c, "listing") => InOrderOfTime(calls[c].runtime)
    /\ At(c, "reported") =>
          IsTimed(calls[c].bundle) /\ calls[c].report = Report(calls[c].bundle)

TimeInv == RunInv /\ \A c \in Callers : ReportInv(c)

LEMMA EvidenceIsTimed ==
  ASSUME NEW c, NEW offer, IsOffer(offer), InOrderOfTime(calls[c].runtime)
  PROVE  IsTimed(Evidence(c, offer))
<1> DEFINE bundle == Evidence(c, offer)
<1>1. /\ bundle.spans = TraceObservation(GetRunTrace(offer.tempo)).spans
      /\ bundle.runtime = calls[c].runtime
  BY DEF Evidence, Collect
<1>2. bundle.spans \in Seq(TimedSpan)
  BY <1>1, TraceIsTimed
<1> HIDE DEF bundle
<1>3. IsTimed(bundle)
  BY <1>1, <1>2 DEF IsTimed, InOrderOfTime
<1>. QED
  BY <1>3 DEF bundle

LEMMA RunStaysInOrder ==
  ASSUME RunInv, RunContinues
  PROVE  RunInv'
<1>0. PICK ticks \in Waits \union {0} : RunGoesOn(ticks) /\ time' = time + ticks + 1
  BY DEF RunContinues
<1>1. time \in Nat /\ ticks \in Nat /\ time' = time + ticks + 1 /\ None \notin Nat
  BY <1>0, EvidenceAssumption, ServerAssumption DEF RunInv
<1>2. CASE run.status = "running" /\ run.tools < MaxTools /\ run' = [run EXCEPT !.tools = @ + 1]
  BY <1>1, <1>2, ServerAssumption DEF RunInv, RuntimeStatuses
<1>3. CASE /\ run.status = "running" /\ run.requested = None
           /\ run' = [run EXCEPT !.status = "waiting_for_approval", !.requested = time]
  <2>1. /\ run'.status = "waiting_for_approval" /\ run'.requested = time
        /\ run'.decided = run.decided /\ run'.tools = run.tools
        /\ run' \in [status : RuntimeStatuses, tools : 1 .. MaxTools,
                     requested : Nat \union {None}, decided : Nat \union {None}]
    BY <1>1, <1>3 DEF RunInv, RuntimeStatuses
  <2>2. run.decided = None
    BY <1>3 DEF RunInv
  <2>. QED
    BY <1>1, <2>1, <2>2 DEF RunInv
<1>4. CASE /\ run.status = "waiting_for_approval"
           /\ run' = [run EXCEPT !.status = "running", !.decided = time + ticks]
  <2> DEFINE then == time + ticks
  <2>0. then \in Nat /\ run' = [run EXCEPT !.status = "running", !.decided = then]
    BY <1>1, <1>4
  <2>3. time <= then /\ then <= time'
    BY <1>1
  <2> HIDE DEF then
  <2>1. /\ run'.status = "running" /\ run'.requested = run.requested
        /\ run'.decided = then /\ run'.tools = run.tools
        /\ run' \in [status : RuntimeStatuses, tools : 1 .. MaxTools,
                     requested : Nat \union {None}, decided : Nat \union {None}]
    BY <2>0 DEF RunInv, RuntimeStatuses
  <2>2. run.requested # None /\ run.requested \in Nat /\ run.requested <= time
    BY <1>4 DEF RunInv
  <2>. QED
    BY <1>1, <2>0, <2>1, <2>2, <2>3 DEF RunInv
<1>5. CASE \E status \in {"success", "failed"} : run' = [run EXCEPT !.status = status]
  BY <1>1, <1>5 DEF RunInv, RuntimeStatuses
<1>. QED
  BY <1>0, <1>2, <1>3, <1>4, <1>5 DEF RunGoesOn

(* Whoever neither reads the run nor analyzes it changes none of that.     *)
LEMMA OthersKeepTime ==
  ASSUME ServerInv, TimeInv, NEW c \in Callers, NEW call, Sets(c, call),
         call.pc \notin {"listing", "reported"}, UNCHANGED <<run, time>>
  PROVE  TimeInv'
<1>1. calls'[c] = call /\ \A d \in Callers : d # c => calls'[d] = calls[d]
  BY DEF ServerInv, JobsTypeOK, Sets
<1>2. RunInv'
  BY DEF TimeInv, RunInv
<1>3. ASSUME NEW d \in Callers PROVE ReportInv(d)'
  <2>1. CASE d = c
    BY <1>1, <2>1 DEF ReportInv, At
  <2>2. CASE d # c
    <3>1. calls'[d] = calls[d] /\ ReportInv(d)
      BY <1>1, <2>2 DEF TimeInv
    <3>. QED
      BY <3>1 DEF ReportInv, At
  <2>. QED
    BY <2>1, <2>2
<1>. QED
  BY <1>2, <1>3 DEF TimeInv

LEMMA AnsweredIsOver ==
  ASSUME ServerInv, TimeInv, NEW c \in Callers, NEW reasoning, NEW assessment,
         Answered(c, reasoning, assessment), UNCHANGED <<run, time>>
  PROVE  TimeInv'
<1> DEFINE answer == [Asked("answered", calls[c].explain) EXCEPT !.told = calls[c].told,
                         !.reasoning = reasoning, !.assessment = assessment]
<1>1. answer.pc = "answered" /\ Sets(c, answer)
  BY DEF Answered, Asked
<1> HIDE DEF answer
<1>. QED
  BY <1>1, OthersKeepTime

LEMMA RaisedIsOver ==
  ASSUME ServerInv, TimeInv, NEW c \in Callers, NEW pc, pc \notin {"listing", "reported"},
         Raises(c, pc), UNCHANGED <<run, time>>
  PROVE  TimeInv'
BY OthersKeepTime, AskedFields DEF Raises

LEMMA AsksInOrder ==
  ASSUME ServerInv, TimeInv, NEW c \in Callers, NEW explain, Asks(c, explain)
  PROVE  TimeInv'
<1> DEFINE seen == [status |-> run.status, requested |-> run.requested, decided |-> run.decided]
           listing == [Asked("listing", explain) EXCEPT !.runtime = seen]
<1>1. UNCHANGED <<run, time>>
  BY DEF Asks
<1>2. CASE Sets(c, Asked("refused", explain))
  <2>1. Asked("refused", explain).pc = "refused"
    BY AskedFields
  <2>. QED
    BY <1>1, <1>2, <2>1, OthersKeepTime
<1>3. CASE Sets(c, listing)
  <2>1. listing.pc = "listing" /\ listing.runtime = seen
    BY DEF Asked
  <2>2. InOrderOfTime(seen)
    BY DEF TimeInv, RunInv, InOrderOfTime
  <2> HIDE DEF listing, seen
  <2>3. calls'[c] = listing /\ \A d \in Callers : d # c => calls'[d] = calls[d]
    BY <1>3 DEF ServerInv, JobsTypeOK, Sets
  <2>4. ASSUME NEW d \in Callers PROVE ReportInv(d)'
    <3>1. CASE d = c
      BY <2>1, <2>2, <2>3, <3>1 DEF ReportInv, At
    <3>2. CASE d # c
      <4>1. calls'[d] = calls[d] /\ ReportInv(d)
        BY <2>3, <3>2 DEF TimeInv
      <4>. QED
        BY <4>1 DEF ReportInv, At
    <3>. QED
      BY <3>1, <3>2
  <2>5. RunInv'
    BY <1>1 DEF TimeInv, RunInv
  <2>. QED
    BY <2>4, <2>5 DEF TimeInv
<1>. QED
  BY <1>2, <1>3 DEF Asks

LEMMA CollectsInOrder ==
  ASSUME ServerInv, TimeInv, NEW c \in Callers, NEW offer \in Offers[c], Collects(c, offer)
  PROVE  TimeInv'
<1> DEFINE bundle == Evidence(c, offer)
           report == Report(bundle)
           reported == [calls[c] EXCEPT !.pc = "reported", !.bundle = bundle,
                                        !.report = report, !.told = bundle.runtime.status]
<1>1. UNCHANGED <<run, time>> /\ At(c, "listing")
  BY DEF Collects
<1>2. IsTimed(bundle)
  BY <1>1, ServerAssumption, EvidenceIsTimed DEF TimeInv, ReportInv
<1> HIDE DEF bundle, report
<1>3. CASE Raises(c, "refused")
  BY <1>1, <1>3, RaisedIsOver
<1>5. CASE CannotReport(c, bundle)
  <2> DEFINE raised == [Asked("raised", calls[c].explain) EXCEPT !.bundle = bundle]
  <2>1. Sets(c, raised) /\ raised.pc = "raised"
    BY <1>5, CannotReportFields DEF CannotReport
  <2> HIDE DEF raised
  <2>. QED
    BY <1>1, <2>1, OthersKeepTime
<1>4. CASE Sets(c, reported)
  <2>1. reported.pc = "reported" /\ reported.bundle = bundle /\ reported.report = report
    BY DEF ServerInv, JobsTypeOK, Fields
  <2> HIDE DEF reported
  <2>2. calls'[c] = reported /\ \A d \in Callers : d # c => calls'[d] = calls[d]
    BY <1>4 DEF ServerInv, JobsTypeOK, Sets
  <2>3. ASSUME NEW d \in Callers PROVE ReportInv(d)'
    <3>1. CASE d = c
      BY <1>2, <2>1, <2>2, <3>1 DEF ReportInv, At, report
    <3>2. CASE d # c
      <4>1. calls'[d] = calls[d] /\ ReportInv(d)
        BY <2>2, <3>2 DEF TimeInv
      <4>. QED
        BY <4>1 DEF ReportInv, At
    <3>. QED
      BY <3>1, <3>2
  <2>4. RunInv'
    BY <1>1 DEF TimeInv, RunInv
  <2>. QED
    BY <2>3, <2>4 DEF TimeInv
<1>. QED
  BY <1>3, <1>4, <1>5 DEF Collects, bundle, report

LEMMA CompletesIsOver ==
  ASSUME ServerInv, TimeInv, NEW c \in Callers, NEW reasoning, NEW assessment,
         Completes(c, reasoning, assessment)
  PROVE  TimeInv'
<1>1. CASE Answered(c, reasoning, assessment)
  BY <1>1, AnsweredIsOver DEF Completes
<1>2. CASE UNCHANGED calls
  BY <1>2 DEF Completes, TimeInv, RunInv, ReportInv, At
<1>. QED
  BY <1>1, <1>2 DEF Completes

LEMMA ExplainsIsOver ==
  ASSUME ServerInv, TimeInv, NEW c \in Callers, Explains(c)
  PROVE  TimeInv'
<1> DEFINE waiting == [Asked("waiting", TRUE) EXCEPT !.told = calls[c].told]
<1>1. waiting.pc = "waiting"
  BY DEF Asked
<1>2. Sets(c, waiting) \/ Answered(c, "unavailable", None)
  BY DEF Explains
<1>3. UNCHANGED <<run, time>>
  BY DEF Explains
<1> HIDE DEF waiting
<1>. QED
  BY <1>1, <1>2, <1>3, OthersKeepTime, AnsweredIsOver

LEMMA TimeInductive == ServerInv /\ TimeInv /\ [RcaNext]_rcaVars => TimeInv'
<1> SUFFICES ASSUME ServerInv, TimeInv, [RcaNext]_rcaVars
             PROVE  TimeInv'
  OBVIOUS
<1>1. CASE UNCHANGED <<run, calls, time>>
  BY <1>1 DEF TimeInv, RunInv, ReportInv, At
<1>2. CASE RunContinues
  <2>1. RunInv' /\ UNCHANGED calls
    BY <1>2, RunStaysInOrder DEF TimeInv, RunContinues
  <2>. QED
    BY <2>1 DEF TimeInv, ReportInv, At
<1>3. ASSUME NEW c \in Callers, NEW explain \in Requests[c], Asks(c, explain)
      PROVE  TimeInv'
  BY <1>3, AsksInOrder
<1>4. ASSUME NEW c \in Callers, StoreFails(c) \/ IsCancelled(c)
      PROVE  TimeInv'
  BY <1>4, RaisedIsOver DEF StoreFails, IsCancelled
<1>5. ASSUME NEW c \in Callers, NEW offer \in Offers[c], Collects(c, offer)
      PROVE  TimeInv'
  BY <1>5, CollectsInOrder
<1>6. ASSUME NEW c \in Callers, ReportsAlone(c) \/ StopsWaiting(c)
      PROVE  TimeInv'
  BY <1>6, AnsweredIsOver DEF ReportsAlone, StopsWaiting
<1>7. ASSUME NEW c \in Callers, DeadlineExpires(c)
      PROVE  TimeInv'
  BY <1>7, CompletesIsOver DEF DeadlineExpires
<1>8. ASSUME NEW c \in Callers, Resolves(c)
      PROVE  TimeInv'
  BY <1>1, <1>8, CompletesIsOver DEF Resolves
<1>9. ASSUME NEW c \in Callers, NEW output \in Outputs, ModelAnswers(c, output)
      PROVE  TimeInv'
  BY <1>9, CompletesIsOver DEF ModelAnswers
<1>10. CASE Closes \/ ClosesProvider \/ UNCHANGED rcaVars
  BY <1>1, <1>10 DEF Closes, ClosesProvider, rcaVars
<1>. QED
  BY <1>2, <1>3, <1>4, <1>5, <1>6, <1>7, <1>8, <1>9, <1>10, ExplainsIsOver DEF RcaNext

LEMMA TimeInitially == RcaInit => TimeInv
<1> SUFFICES ASSUME RcaInit PROVE TimeInv
  OBVIOUS
<1>1. RunInv
  BY ServerAssumption DEF RcaInit, RunInv, RuntimeStatuses
<1>2. \A c \in Callers : ReportInv(c)
  <2>1. \A c \in Callers : calls[c].pc = "idle"
    BY AskedFields DEF RcaInit
  <2>. QED
    BY <2>1 DEF ReportInv, At
<1>. QED
  BY <1>1, <1>2 DEF TimeInv

THEOREM TimeIsInOrder == RcaSpec => []TimeInv
<1>. QED
  BY StrengthenedInvariant, TimeInitially, TimeInductive, PTL DEF RcaSpec

(* What the categories are said to have owned of an execution is, for any  *)
(* trace and however its spans overlap, the ticks at which each was the    *)
(* first to be active, and together no more than the execution took.       *)
THEOREM TimeIsNeverCountedTwice == RcaSpec => []TimeIsOwnedOnce
<1>1. TimeInv => TimeIsOwnedOnce
  <2> SUFFICES ASSUME TimeInv, NEW c \in Callers, At(c, "reported"),
                      calls[c].report.durations # None
               PROVE  LET bundle == calls[c].bundle
                          owned == calls[c].report.durations
                          is_active(k, t) ==
                              \/ \E s \in Spans(bundle) :
                                    CategoryOf(s.operation) = Priority[k]
                                      /\ s.start <= t /\ t < s.end
                              \/ /\ Priority[k] = "approval"
                                 /\ \E i \in ApprovalTiming(bundle.runtime) :
                                       i[1] <= t /\ t < i[2]
                      IN \E root \in Spans(bundle) :
                            /\ root = RunRoot(bundle)
                            /\ \A k \in 1 .. 5 :
                                  owned[Priority[k]] =
                                      Cardinality({t \in root.start .. root.end - 1 :
                                          is_active(k, t)
                                            /\ \A j \in 1 .. k - 1 : ~ is_active(j, t)})
                            /\ SumFunction(owned) <= Duration(root)
    BY DEF TimeIsOwnedOnce
  <2> DEFINE bundle == calls[c].bundle
             owned == calls[c].report.durations
             root == RunRoot(bundle)
             active(k, t) ==
                 \/ \E s \in Spans(bundle) :
                       CategoryOf(s.operation) = Priority[k] /\ s.start <= t /\ t < s.end
                 \/ /\ Priority[k] = "approval"
                    /\ \E i \in ApprovalTiming(bundle.runtime) : i[1] <= t /\ t < i[2]
             ticks(k) == {t \in root.start .. root.end - 1 :
                             active(k, t) /\ \A j \in 1 .. k - 1 : ~ active(j, t)}
  <2>1. IsTimed(bundle) /\ owned = Durations(bundle)
    <3>1. IsTimed(calls[c].bundle) /\ calls[c].report = Report(calls[c].bundle)
      BY DEF TimeInv, ReportInv
    <3>2. Report(calls[c].bundle).durations = Durations(calls[c].bundle)
      BY DEF Report
    <3>. QED
      BY <3>1, <3>2
  <2> HIDE DEF bundle, owned
  <2>2. root # None /\ owned = OwnedDurations(bundle, root)
    BY <2>1 DEF Durations, owned
  <2>3. root \in Spans(bundle)
    BY <2>1, <2>2, RootIsASpan
  <2>4. \A k, t : active(k, t) <=> IsActive(bundle, Priority[k], t)
    <3>1. TAKE k, t
    <3> DEFINE spanned == {<<s.start, s.end>> :
                             s \in {u \in Spans(bundle) : CategoryOf(u.operation) = Priority[k]}}
               approved == IF Priority[k] = "approval" THEN ApprovalTiming(bundle.runtime) ELSE {}
    <3>2. (\E i \in spanned : i[1] <= t /\ t < i[2])
             <=> \E s \in Spans(bundle) :
                    CategoryOf(s.operation) = Priority[k] /\ s.start <= t /\ t < s.end
      <4>1. ASSUME NEW i \in spanned, i[1] <= t, t < i[2]
            PROVE  \E s \in Spans(bundle) :
                      CategoryOf(s.operation) = Priority[k] /\ s.start <= t /\ t < s.end
        <5>1. PICK s \in Spans(bundle) :
                 CategoryOf(s.operation) = Priority[k] /\ i = <<s.start, s.end>>
          OBVIOUS
        <5>. QED
          BY ONLY <4>1, <5>1
      <4>2. ASSUME NEW s \in Spans(bundle), CategoryOf(s.operation) = Priority[k],
                   s.start <= t, t < s.end
            PROVE  \E i \in spanned : i[1] <= t /\ t < i[2]
        <5> DEFINE i == <<s.start, s.end>>
        <5>1. i \in spanned
          BY ONLY <4>2 DEF spanned
        <5>2. i[1] <= t /\ t < i[2]
          BY ONLY <4>2
        <5> HIDE DEF spanned, i
        <5>. QED
          BY ONLY <5>1, <5>2
      <4> HIDE DEF spanned
      <4>. QED
        BY ONLY <4>1, <4>2
    <3>3. Times(bundle, Priority[k]) = spanned \union approved
      BY DEF Times
    <3> HIDE DEF spanned
    <3>. QED
      BY <3>2, <3>3 DEF IsActive
  <2> HIDE DEF active, root
  <2>5. \A k \in 1 .. 5 : ticks(k) = OwnTicks(bundle, root, k)
    BY <2>4 DEF OwnTicks
  <2>6. \A k \in 1 .. 5 : owned[Priority[k]] = Cardinality(ticks(k))
    <3>1. TAKE k \in 1 .. 5
    <3>2. OwnedDurations(bundle, root)[Priority[k]] = Cardinality(OwnTicks(bundle, root, k))
      BY ONLY <2>1, <2>3, k \in 1 .. 5, OwnedIsTicks
    <3>. QED
      BY <2>2, <2>5, <3>2
  <2>7. SumFunction(owned) <= Duration(root)
    BY <2>1, <2>2, <2>3, OwnedIsBounded
  <2>. QED
    BY <2>3, <2>6, <2>7 DEF root, active, bundle, owned
<1>. QED
  BY <1>1, TimeIsInOrder, PTL

-----------------------------------------------------------------------------
(* The validators.  A generation is measured by four values at most.       *)
LEMMA OfOne ==
  ASSUME NEW S, NEW word \in S
  PROVE  <<word>> \in Seq(S) /\ Len(<<word>>) = 1
OBVIOUS

LEMMA OfMany ==
  ASSUME NEW S, NEW word \in S, NEW n \in Nat
  PROVE  [i \in 1 .. n |-> word] \in Seq(S) /\ Len([i \in 1 .. n |-> word]) = n
<1>1. [i \in 1 .. n |-> word] \in [1 .. n -> S] /\ DOMAIN [i \in 1 .. n |-> word] = 1 .. n
  OBVIOUS
<1>2. [i \in 1 .. n |-> word] \in Seq(S)
  BY ONLY n \in Nat, <1>1, SeqDef
<1>. QED
  BY ONLY n \in Nat, <1>1, <1>2, LenProperties

Measured == {"GENERATION", "USAGE", "COST", "CONFIG"}

OfGeneration(g) ==
    [i \in 1 .. g.tokens |-> "USAGE"]
    \o (CASE g.cost = "observed" -> <<"COST">>
          [] g.cost = "configured" -> <<"CONFIG">>
          [] OTHER -> <<>>)

LEMMA GenerationIsMeasured ==
  ASSUME NEW g \in Generation
  PROVE  OfGeneration(g) \in Seq(Measured) /\ Len(OfGeneration(g)) <= 4
<1> DEFINE usage == [i \in 1 .. g.tokens |-> "USAGE"]
           cost == CASE g.cost = "observed" -> <<"COST">>
                     [] g.cost = "configured" -> <<"CONFIG">>
                     [] OTHER -> <<>>
<1>1. g.tokens \in 0 .. 3 /\ g.cost \in {"none", "configured", "observed"}
  BY DEF Generation
<1>2. usage \in Seq(Measured) /\ Len(usage) = g.tokens
  <2> DEFINE n == g.tokens
  <2>1. n \in Nat
    BY ONLY <1>1
  <2>. QED
    BY ONLY <2>1, OfMany DEF usage, Measured
<1>3. cost \in Seq(Measured) /\ Len(cost) <= 1 /\ Len(cost) \in Nat
  <2>1. <<"COST">> \in Seq(Measured) /\ Len(<<"COST">>) = 1
    BY ONLY OfOne DEF Measured
  <2>2. <<"CONFIG">> \in Seq(Measured) /\ Len(<<"CONFIG">>) = 1
    BY ONLY OfOne DEF Measured
  <2>3. <<>> \in Seq(Measured) /\ Len(<<>>) = 0
    BY ONLY EmptySeq
  <2>4. cost = <<"COST">> \/ cost = <<"CONFIG">> \/ cost = <<>>
    BY ONLY <1>1 DEF cost
  <2> HIDE DEF cost
  <2>5. CASE cost = <<"COST">>
    BY ONLY <2>1, <2>5
  <2>6. CASE cost = <<"CONFIG">>
    BY ONLY <2>2, <2>6
  <2>7. CASE cost = <<>>
    BY ONLY <2>3, <2>7
  <2>. QED
    BY ONLY <2>4, <2>5, <2>6, <2>7
<1> HIDE DEF usage, cost
<1>4. usage \o cost \in Seq(Measured) /\ Len(usage \o cost) = Len(usage) + Len(cost)
  BY <1>2, <1>3, ConcatProperties
<1>. QED
  BY <1>1, <1>2, <1>3, <1>4 DEF OfGeneration, usage, cost

LEMMA MeasurementsAreFew ==
  ASSUME NEW seq \in Seq(Generation)
  PROVE  LlmMeasurements(seq) \in Seq(Measured) /\ Len(LlmMeasurements(seq)) <= 1 + 4 * Len(seq)
<1> DEFINE S == DOMAIN seq
           V == Seq(Measured)
           first == <<"GENERATION">>
           last(T) == Max(T)
           with(i, measured) == measured \o OfGeneration(seq[i])
           fold(g) == [T \in SUBSET S |-> IF T = {} THEN first ELSE with(last(T), g[T \ {last(T)}])]
           folded == CHOOSE g : g = fold(g)
           rest == [T \in SUBSET S |-> T \ {last(T)}]
           step == [p \in (SUBSET S) \X V |-> with(last(p[1]), p[2])]
<1>1. LlmMeasurements(seq) = IF seq = <<>> THEN <<>> ELSE folded[S]
  BY DEF LlmMeasurements, FoldLeft, MapThenFoldSet, OfGeneration
<1>2. S = 1 .. Len(seq) /\ Len(seq) \in Nat /\ IsFiniteSet(S) /\ Cardinality(S) = Len(seq)
      /\ \A i \in S : seq[i] \in Generation
  <2> DEFINE n == Len(seq)
  <2>1. n \in Nat /\ DOMAIN seq = 1 .. n /\ \A i \in 1 .. n : seq[i] \in Generation
    BY LenProperties
  <2> HIDE DEF n
  <2>2. IsFiniteSet(1 .. n) /\ Cardinality(1 .. n) = n
    BY ONLY <2>1, FS_Interval
  <2>. QED
    BY <2>1, <2>2 DEF n
<1>3. \A T \in SUBSET S : T # {} => last(T) \in T /\ rest[T] = T \ {last(T)}
  <2>1. TAKE T \in SUBSET S
  <2>2. HAVE T # {}
  <2>3. T \subseteq Nat /\ IsFiniteSet(T)
    BY <1>2, FS_Subset
  <2>4. PICK x \in T : \A y \in T : y <= x
    BY <2>2, <2>3, GreatestOfFinite
  <2>5. \A y \in T : x >= y
    BY <2>3, <2>4
  <2>6. last(T) \in T
    BY <2>4, <2>5 DEF Max
  <2>. QED
    BY <2>6
<1> HIDE DEF last
<1>4. \A i \in S : \A v \in V : with(i, v) \in V /\ Len(with(i, v)) <= Len(v) + 4
  <2>1. TAKE i \in S
  <2>2. TAKE v \in V
  <2> DEFINE w == OfGeneration(seq[i])
  <2>3. w \in Seq(Measured) /\ Len(w) <= 4
    BY <1>2, GenerationIsMeasured
  <2> HIDE DEF w
  <2>4. v \o w \in Seq(Measured) /\ Len(v \o w) = Len(v) + Len(w)
    BY <2>3, ConcatProperties
  <2>5. Len(v) \in Nat /\ Len(w) \in Nat
    BY <2>3, LenProperties
  <2>. QED
    BY <2>3, <2>4, <2>5 DEF w
<1>5. first \in V /\ Len(first) = 1
  BY ONLY OfOne DEF Measured, first, V
<1> HIDE DEF with, first
<1>6. \A T \in SUBSET S : \A v \in V : T # {} =>
         step[<<T, v>>] \in V /\ step[<<T, v>>] = with(last(T), v)
  BY <1>3, <1>4
<1>7. \A T \in SUBSET S : T # {} => rest[T] \in SUBSET T /\ rest[T] # T
  BY <1>3
<1>8. IsFiniteSet(S)
  BY <1>2
<1>9. \A v \in V : Len(v) \in Nat
  BY LenProperties
<1> HIDE DEF rest, step, S, V
<1>10. PICK g \in [SUBSET S -> V] :
          \A T \in SUBSET S : g[T] = IF T = {} THEN first ELSE step[<<T, g[rest[T]]>>]
  <2>1. Shrinks(S, V, first, rest, step)
    BY ONLY <1>5, <1>6, <1>7 DEF Shrinks
  <2>2. \E g \in [SUBSET S -> V] : Recurs(g, S, first, rest, step)
    BY ONLY <1>8, <2>1, SubsetRecursion
  <2>. QED
    BY ONLY <2>2 DEF Recurs
<1>11. g = fold(g)
  <2>1. ASSUME NEW T \in SUBSET S PROVE g[T] = fold(g)[T]
    <3>1. CASE T = {}
      BY <1>10, <3>1
    <3>2. CASE T # {}
      <4>1. g[rest[T]] \in V /\ rest[T] = T \ {last(T)}
        BY <1>3, <1>7, <1>10, <3>2
      <4>2. g[T] = with(last(T), g[rest[T]])
        BY <1>6, <1>10, <3>2, <4>1
      <4>. QED
        BY <3>2, <4>1, <4>2
    <3>. QED
      BY <3>1, <3>2
  <2>2. DOMAIN g = SUBSET S
    BY <1>10
  <2>. QED
    BY <1>10, <2>1, <2>2
<1> HIDE DEF fold
<1>12. folded = fold(folded)
  BY <1>11
<1> HIDE DEF folded
<1>13. \A T \in SUBSET S :
          folded[T] = IF T = {} THEN first ELSE with(last(T), folded[T \ {last(T)}])
  BY <1>12 DEF fold
<1> DEFINE IsGood(T) == folded[T] \in V /\ Len(folded[T]) <= 1 + 4 * Cardinality(T)
           bad == {T \in SUBSET S : ~ IsGood(T)}
<1>14. bad = {}
  <2>1. SUFFICES ASSUME bad # {} PROVE FALSE
    OBVIOUS
  <2>2. PICK T \in bad : \A U \in bad : U \subseteq T => U = T
    <3>1. bad \in SUBSET SUBSET S
      OBVIOUS
    <3> HIDE DEF bad
    <3>. QED
      BY ONLY <1>8, <2>1, <3>1, LeastSubset
  <2>3. T # {}
    <3>1. {} \in SUBSET S /\ Cardinality({}) = 0
      BY FS_EmptySet
    <3>2. folded[{}] = first
      BY ONLY <1>13, <3>1
    <3>3. folded[{}] \in V
      BY ONLY <1>5, <3>2
    <3>4. Len(folded[{}]) = 1 /\ 1 + 4 * Cardinality({}) = 1
      BY ONLY <1>5, <3>1, <3>2
    <3>5. IsGood({})
      BY ONLY <3>3, <3>4
    <3>. QED
      BY <2>2, <3>5
  <2>4. rest[T] \in SUBSET S /\ IsGood(rest[T])
    BY <1>7, <2>2, <2>3
  <2>5. folded[T] = with(last(T), folded[rest[T]]) /\ last(T) \in S
    BY <1>3, <1>13, <2>3
  <2>6. folded[T] \in V /\ Len(folded[T]) <= Len(folded[rest[T]]) + 4
    BY <1>4, <2>4, <2>5
  <2>7. Cardinality(T) = Cardinality(rest[T]) + 1 /\ Cardinality(rest[T]) \in Nat
    <3>1. IsFiniteSet(T) /\ last(T) \in T /\ rest[T] = T \ {last(T)}
      BY <1>3, <1>8, <2>3, FS_Subset
    <3>2. Cardinality(T \ {last(T)}) = Cardinality(T) - 1 /\ IsFiniteSet(T \ {last(T)})
      BY <3>1, FS_RemoveElement
    <3>3. Cardinality(T) \in Nat /\ Cardinality(T \ {last(T)}) \in Nat
      BY <3>1, <3>2, FS_CardinalityType
    <3>. QED
      BY ONLY <3>1, <3>2, <3>3
  <2>8. Len(folded[T]) \in Nat /\ Len(folded[rest[T]]) \in Nat
    BY <1>9, <2>4, <2>6
  <2>9. IsGood(T)
    <3>1. Len(folded[rest[T]]) <= 1 + 4 * Cardinality(rest[T])
      BY ONLY <2>4
    <3>2. Len(folded[T]) <= 1 + 4 * Cardinality(T)
      BY ONLY <2>6, <2>7, <2>8, <3>1
    <3>. QED
      BY ONLY <2>6, <3>2
  <2>. QED
    BY <2>2, <2>9
<1>15. IsGood(S)
  BY <1>14
<1>16. <<>> \in Seq(Measured) /\ Len(<<>>) = 0
  OBVIOUS
<1>. QED
  BY <1>1, <1>2, <1>15, <1>16 DEF V

-----------------------------------------------------------------------------
(* What evidence amounts to: the validators number it with three digits.   *)
IsEvidence(bundle) ==
    /\ IsTimed(bundle)
    /\ InOrderOfTime(bundle.runtime)
    /\ Len(bundle.spans) <= 999
    /\ \E n \in 1 .. 20 : bundle.tools = [i \in 1 .. n |-> "tool"]
    /\ bundle.logs \in 0 .. 999
    /\ bundle.metrics \in 0 .. 999
    /\ bundle.generations \in Seq(Generation)
    /\ Len(bundle.generations) <= 50
    /\ \A i \in DOMAIN bundle.generations : Duration(bundle.generations[i]) \in 0 .. MaxDuration
    /\ DOMAIN bundle.sources = Sources
    /\ \A s \in Sources : bundle.sources[s].limitations \subseteq Limitations
    /\ bundle.llm_truncated =>
          \/ "langfuse" \in Incomplete(bundle)
          \/ "observation_limit_reached" \in bundle.sources["langfuse"].limitations

LEMMA LogsAreFew ==
  ASSUME NEW offer, IsOffer(offer)
  PROVE  GetTraceLogs(offer.loki, offer.tempo.spans).events \in 0 .. 999
<1> DEFINE logs == GetTraceLogs(offer.loki, offer.tempo.spans)
           events == offer.loki.events
<1>1. events \in Nat /\ MaxLogEvents \in 0 .. 999
  BY EvidenceAssumption DEF IsOffer
<1>2. logs.events \in {0, IF events > MaxLogEvents THEN MaxLogEvents ELSE events}
  BY DEF GetTraceLogs
<1> HIDE DEF logs, events
<1>3. logs.events \in 0 .. 999
  BY ONLY <1>1, <1>2
<1>. QED
  BY <1>3 DEF logs

LEMMA MetricsAreFew ==
  ASSUME NEW offer, IsOffer(offer)
  PROVE  GetTraceMetrics(offer.prometheus, offer.tempo.spans).points \in 0 .. 999
<1> DEFINE metrics == GetTraceMetrics(offer.prometheus, offer.tempo.spans)
           points == offer.prometheus.points
<1>1. points \in 0 .. 420
  BY DEF IsOffer, MaxMetricPoints
<1>2. metrics.points \in {0, points}
  BY DEF GetTraceMetrics
<1> HIDE DEF metrics, points
<1>3. metrics.points \in 0 .. 999
  BY ONLY <1>1, <1>2
<1>. QED
  BY <1>3 DEF metrics

(* Of a page of observations there are no more generations than rows, none *)
(* of them took longer than a day, and a page is cut only if it was read.  *)
IsPage(llm) ==
    /\ llm.generations \in Seq(Generation)
    /\ \A i \in DOMAIN llm.generations : Duration(llm.generations[i]) \in 0 .. MaxDuration
    /\ Len(llm.generations) <= 50
    /\ llm.truncated => llm.status = "available"

LEMMA PagesAreShort ==
  ASSUME NEW reply, reply.rows \in Seq(Row), Len(reply.rows) <= MaxObservations
  PROVE  IsPage(GetTraceLlmEvidence(reply))
<1> DEFINE ours == Kept(reply.rows, {row \in ToSet(reply.rows) : row.of_trace})
           generated == {row \in ToSet(ours) :
                           row.generation # None /\ Duration(row.generation) \in 0 .. MaxDuration}
           sound == Kept(ours, generated)
           generations == [i \in DOMAIN sound |-> sound[i].generation]
<1>1. ours \in Seq(Row) /\ Len(ours) <= Len(reply.rows)
  <2> DEFINE of_trace == {row \in ToSet(reply.rows) : row.of_trace}
  <2> HIDE DEF of_trace
  <2>1. /\ Kept(reply.rows, of_trace) \in Seq(Row \intersect of_trace)
        /\ Len(Kept(reply.rows, of_trace)) <= Len(reply.rows)
    BY KeptAreOfThem
  <2>2. Kept(reply.rows, of_trace) \in Seq(Row)
    BY <2>1, SeqMonotonic
  <2>. QED
    BY <2>1, <2>2 DEF of_trace
<1> HIDE DEF ours
<1>2. sound \in Seq(Row \intersect generated) /\ Len(sound) <= Len(ours)
  <2> HIDE DEF generated
  <2>. QED
    BY <1>1, KeptAreOfThem
<1>3. \A row \in Row \intersect generated :
        row.generation \in Generation /\ Duration(row.generation) \in 0 .. MaxDuration
  BY DEF Row
<1> HIDE DEF generated, sound
<1>4. /\ Len(sound) \in Nat /\ DOMAIN sound = 1 .. Len(sound)
      /\ \A i \in 1 .. Len(sound) :
            /\ sound[i].generation \in Generation
            /\ Duration(sound[i].generation) \in 0 .. MaxDuration
  <2>1. /\ Len(sound) \in Nat /\ DOMAIN sound = 1 .. Len(sound)
        /\ \A i \in 1 .. Len(sound) : sound[i] \in Row \intersect generated
    BY <1>2, LenProperties
  <2>. QED
    BY <1>3, <2>1
<1>5. generations \in Seq(Generation) /\ Len(generations) = Len(sound)
  <2>1. generations \in [1 .. Len(sound) -> Generation]
    BY <1>4
  <2>2. generations \in Seq(Generation)
    BY ONLY <1>4, <2>1, SeqDef
  <2>3. DOMAIN generations = 1 .. Len(sound)
    BY <1>4
  <2> HIDE DEF generations
  <2>. QED
    BY ONLY <1>4, <2>2, <2>3, LenProperties
<1>6. Len(generations) <= 50
  <2>1. Len(ours) \in Nat /\ Len(reply.rows) \in Nat /\ Len(sound) \in Nat
    BY <1>1, <1>4, LenProperties
  <2>. QED
    BY <1>1, <1>2, <1>5, <2>1 DEF MaxObservations
<1>10. \A i \in DOMAIN generations : Duration(generations[i]) \in 0 .. MaxDuration
  BY <1>4
<1>7. \A status : IsPage(NoGenerations(status))
  <2>1. <<>> \in Seq(Generation) /\ Len(<<>>) = 0
    BY EmptySeq
  <2>. QED
    BY <2>1 DEF IsPage, NoGenerations
<1> DEFINE page == [status |-> "available", generations |-> generations,
                    consistent |-> \A i \in DOMAIN reply.rows : reply.rows[i].of_trace,
                    truncated |-> reply.more]
<1>8. IsPage(page)
  <2>1. page.status = "available" /\ page.generations = generations
    OBVIOUS
  <2> HIDE DEF page, generations
  <2>. QED
    BY <1>5, <1>6, <1>10, <2>1 DEF IsPage
<1>9. \/ GetTraceLlmEvidence(reply) = page
      \/ \E status : GetTraceLlmEvidence(reply) = NoGenerations(status)
  BY DEF GetTraceLlmEvidence, ours, generated, sound
<1> HIDE DEF page
<1>. QED
  BY <1>7, <1>8, <1>9

LEMMA LimitationsAreKnown ==
  ASSUME NEW status, NEW is_empty \in BOOLEAN, NEW limitations \in SUBSET Limitations
  PROVE  Availability(status, is_empty, limitations).limitations \subseteq Limitations
BY DEF Availability, SourceAvailability, LimitationOf, Limitations

LEMMA EvidenceIsSuch ==
  ASSUME NEW c, NEW offer, IsOffer(offer), InOrderOfTime(calls[c].runtime), RunInv
  PROVE  IsEvidence(Evidence(c, offer))
<1> DEFINE runtime == calls[c].runtime
           tools == [i \in 1 .. run.tools |-> "tool"]
           tempo == TraceObservation(GetRunTrace(offer.tempo))
           logs == GetTraceLogs(offer.loki, offer.tempo.spans)
           metrics == GetTraceMetrics(offer.prometheus, offer.tempo.spans)
           llm == IF offer.langfuse = None THEN None ELSE GetTraceLlmEvidence(offer.langfuse)
           bundle == Collect(runtime, tools, tempo, logs, metrics, llm)
<1>1. Evidence(c, offer) = bundle
  BY DEF Evidence
<1>2. run.tools \in 1 .. 20
  BY ServerAssumption DEF RunInv
<1>3. logs.events \in 0 .. 999 /\ metrics.points \in 0 .. 999
  BY LogsAreFew, MetricsAreFew
<1>4. llm # None => IsPage(llm)
  BY PagesAreShort DEF IsOffer
<1>5. Len(tempo.spans) <= 999
  <2>1. tempo.spans \in Seq(TimedSpan) /\ Len(tempo.spans) <= MaxTraceSpans
    BY TraceIsTimed
  <2>2. Len(tempo.spans) \in Nat
    BY <2>1, LenProperties
  <2> HIDE DEF tempo
  <2>. QED
    BY <2>1, <2>2, EvidenceAssumption
<1>6. IsTimed(bundle)
  BY <1>1, EvidenceIsTimed
<1>7. \E n \in 1 .. 20 : tools = [i \in 1 .. n |-> "tool"]
  BY <1>2
<1> HIDE DEF runtime, tools, tempo, logs, metrics, llm
<1>8. /\ bundle.runtime = runtime /\ bundle.spans = tempo.spans /\ bundle.tools = tools
      /\ bundle.logs \in {0, logs.events} /\ bundle.metrics \in {0, metrics.points}
  BY DEF Collect
<1>9. bundle.generations = <<>> \/ (llm # None /\ bundle.generations = llm.generations)
  BY DEF Collect
<1>10. /\ bundle.generations \in Seq(Generation) /\ Len(bundle.generations) <= 50
       /\ \A i \in DOMAIN bundle.generations : Duration(bundle.generations[i]) \in 0 .. MaxDuration
  <2>1. <<>> \in Seq(Generation) /\ Len(<<>>) = 0
    BY EmptySeq
  <2> HIDE DEF bundle
  <2>2. CASE bundle.generations = <<>>
    BY ONLY <2>1, <2>2
  <2>3. CASE llm # None /\ bundle.generations = llm.generations
    BY ONLY <1>4, <2>3 DEF IsPage
  <2>. QED
    BY ONLY <1>9, <2>2, <2>3
<1>11. DOMAIN bundle.sources = Sources
  BY DEF Collect, Sources
<1>12. \A s \in Sources : bundle.sources[s].limitations \subseteq Limitations
  <2> DEFINE IsSound(source) == source.limitations \subseteq Limitations
  <2>1. IsSound(NotApplicable) /\ IsSound(SourceAvailability("available", {}))
    BY DEF NotApplicable, SourceAvailability, Limitations
  <2>2. IsSound(bundle.sources["runtime"])
    BY <2>1 DEF Collect
  <2>3. IsSound(bundle.sources["tempo"])
    <3> DEFINE limits == IF tempo.truncated THEN {"trace_incomplete"} ELSE {}
    <3>1. limits \in SUBSET Limitations
      BY DEF Limitations
    <3>2. bundle.sources["tempo"] = Availability(tempo.status, tempo.spans = <<>>, limits)
      BY DEF Collect
    <3>3. (tempo.spans = <<>>) \in BOOLEAN
      OBVIOUS
    <3> HIDE DEF limits, bundle
    <3>. QED
      BY <3>1, <3>2, <3>3, LimitationsAreKnown
  <2>4. IsSound(bundle.sources["loki"])
    <3>1. \/ bundle.sources["loki"] = NotApplicable
          \/ bundle.sources["loki"] = Availability(logs.status, logs.events = 0, {})
      BY DEF Collect
    <3>2. (logs.events = 0) \in BOOLEAN /\ {} \in SUBSET Limitations
      OBVIOUS
    <3>3. IsSound(Availability(logs.status, logs.events = 0, {}))
      BY <3>2, LimitationsAreKnown
    <3> HIDE DEF bundle, IsSound
    <3>. QED
      BY ONLY <2>1, <3>1, <3>3
  <2>5. IsSound(bundle.sources["prometheus"])
    <3>1. \/ bundle.sources["prometheus"] = NotApplicable
          \/ bundle.sources["prometheus"] = Availability(metrics.status, metrics.points = 0, {})
      BY DEF Collect
    <3>2. (metrics.points = 0) \in BOOLEAN /\ {} \in SUBSET Limitations
      OBVIOUS
    <3>3. IsSound(Availability(metrics.status, metrics.points = 0, {}))
      BY <3>2, LimitationsAreKnown
    <3> HIDE DEF bundle, IsSound
    <3>. QED
      BY ONLY <2>1, <3>1, <3>3
  <2>6. IsSound(bundle.sources["langfuse"])
    <3> DEFINE limits == IF llm.truncated THEN {"observation_limit_reached"} ELSE {}
    <3>1. limits \in SUBSET Limitations
      BY DEF Limitations
    <3>2. \/ bundle.sources["langfuse"] = NotApplicable
          \/ bundle.sources["langfuse"] = Availability(llm.status, llm.generations = <<>>, limits)
      BY DEF Collect, LangfuseAvailability
    <3>3. (llm.generations = <<>>) \in BOOLEAN
      OBVIOUS
    <3>4. IsSound(Availability(llm.status, llm.generations = <<>>, limits))
      <4> HIDE DEF limits
      <4>. QED
        BY <3>1, <3>3, LimitationsAreKnown
    <3> HIDE DEF limits, bundle, IsSound
    <3>. QED
      BY ONLY <2>1, <3>2, <3>4
  <2> HIDE DEF bundle
  <2>. QED
    BY <2>2, <2>3, <2>4, <2>5, <2>6 DEF Sources
<1>13. bundle.llm_truncated =>
          \/ "langfuse" \in Incomplete(bundle)
          \/ "observation_limit_reached" \in bundle.sources["langfuse"].limitations
  <2> SUFFICES ASSUME bundle.llm_truncated
               PROVE  \/ "langfuse" \in Incomplete(bundle)
                      \/ "observation_limit_reached" \in bundle.sources["langfuse"].limitations
    OBVIOUS
  <2>1. llm # None /\ llm.truncated /\ bundle.sources["langfuse"] = LangfuseAvailability(llm)
    BY DEF Collect
  <2>2. llm.status = "available"
    BY <1>4, <2>1 DEF IsPage
  <2> HIDE DEF bundle
  <2>3. bundle.sources["langfuse"] =
          Availability("available", llm.generations = <<>>, {"observation_limit_reached"})
    BY <2>1, <2>2 DEF LangfuseAvailability
  <2>4. CASE llm.generations = <<>>
    <3>1. bundle.sources["langfuse"].status = "missing"
      BY <2>3, <2>4 DEF Availability, SourceAvailability
    <3>. QED
      BY <3>1 DEF Incomplete, SourcesIn, Sources
  <2>5. CASE llm.generations # <<>>
    BY <2>3, <2>5 DEF Availability, SourceAvailability
  <2>. QED
    BY <2>4, <2>5
<1>14. bundle.logs \in 0 .. 999 /\ bundle.metrics \in 0 .. 999
  BY <1>3, <1>8
<1> HIDE DEF bundle
<1>15. IsEvidence(bundle)
  BY <1>5, <1>6, <1>7, <1>8, <1>10, <1>11, <1>12, <1>13, <1>14 DEF IsEvidence, runtime
<1>. QED
  BY <1>1, <1>15

-----------------------------------------------------------------------------
(* The bundle is accepted: three digits are enough for all that is in it.  *)
Numbered(kind, n) == {<<kind, i>> : i \in 1 .. n}

LEMMA ThreeDigits ==
  ASSUME NEW x \in Nat, x <= 999
  PROVE  x \in 0 .. 999
OBVIOUS

LEMMA AtMost ==
  ASSUME NEW x \in Nat, NEW y \in Nat, x <= y, y <= 999
  PROVE  x \in 0 .. 999
OBVIOUS

LEMMA NumberedAreShort ==
  ASSUME NEW kind, NEW n \in 0 .. 999
  PROVE  \A reference \in Numbered(kind, n) : IsReferenced(reference)
<1>1. ASSUME NEW i \in 1 .. n PROVE <<kind, i>>[2] \in 1 .. 999
  OBVIOUS
<1>. QED
  BY <1>1 DEF Numbered, IsReferenced

LEMMA NumberedHas ==
  ASSUME NEW kind, NEW n \in Nat, NEW i \in 1 .. n
  PROVE  <<kind, i>> \in Numbered(kind, n)
BY DEF Numbered

LEMMA SpansAreFew ==
  ASSUME NEW bundle, IsEvidence(bundle), NEW some \in SUBSET Spans(bundle)
  PROVE  Cardinality(some) \in 0 .. 999
<1> DEFINE spans == bundle.spans
           n == Len(spans)
<1>1. n \in Nat /\ DOMAIN spans = 1 .. n /\ n <= 999
  BY LenProperties DEF IsEvidence, IsTimed
<1>2. Spans(bundle) = {spans[i] : i \in DOMAIN spans}
  BY DEF Spans, ToSet
<1> HIDE DEF spans, n
<1>3. IsFiniteSet(1 .. n) /\ Cardinality(1 .. n) = n
  BY ONLY <1>1, FS_Interval
<1>4. IsFiniteSet(Spans(bundle)) /\ Cardinality(Spans(bundle)) <= Cardinality(1 .. n)
  BY <1>1, <1>2, <1>3, FiniteValues
<1>5. IsFiniteSet(some) /\ Cardinality(some) <= Cardinality(Spans(bundle))
  BY <1>4, FS_Subset
<1>6. Cardinality(some) \in Nat /\ Cardinality(Spans(bundle)) \in Nat
  BY <1>4, <1>5, FS_CardinalityType
<1>7. Cardinality(Spans(bundle)) <= n
  BY ONLY <1>3, <1>4
<1>8. Cardinality(Spans(bundle)) \in 0 .. 999
  BY ONLY <1>1, <1>6, <1>7, AtMost
<1>9. Cardinality(Spans(bundle)) <= 999
  BY ONLY <1>8
<1>. QED
  BY ONLY <1>5, <1>6, <1>9, AtMost

(* The references of the bundle, family by family.                         *)
IsAmount(bundle, kind, n) ==
    \/ kind = "SOURCE" /\ n = 5
    \/ kind = "RUNTIME" /\ n = 1
    \/ kind = "APPROVAL" /\ n = IF ApprovalTiming(bundle.runtime) = {} THEN 1 ELSE 2
    \/ kind = "TRACE" /\ n = Len(bundle.spans)
    \/ kind = "MCP" /\ n = Len(bundle.tools)
    \/ kind = "RETRIEVAL" /\ n = Cardinality(SpansOf(bundle, RetrievalOperations))
    \/ kind = "LOG" /\ n = bundle.logs
    \/ kind = "METRIC" /\ n = bundle.metrics
    \/ kind = "LLM" /\ n = Len(bundle.generations)
    \/ kind = "MEASUREMENT" /\ n = IF SpansOf(bundle, {"agent.run"}) = {} THEN 0 ELSE 1
    \/ kind = "FAILURE" /\ n = Cardinality({s \in Spans(bundle) : s.status = "error"})
    \/ kind = "PERSISTENCE" /\ n = Cardinality(SpansOf(bundle, {"persistence.run_store"}))
    \/ kind = "TIMING" /\ n = Cardinality(SpansOf(bundle, TimingOperations))

Measurements(bundle) ==
    LET measured == LlmMeasurements(bundle.generations)
    IN {<<measured[i], i>> : i \in DOMAIN measured}

LEMMA ReferencesAre ==
  ASSUME NEW bundle, NEW reference
  PROVE  reference \in References(bundle) <=>
           \/ \E kind, n : IsAmount(bundle, kind, n) /\ reference \in Numbered(kind, n)
           \/ reference \in Measurements(bundle)
<1>1. ASSUME NEW kind, NEW n, IsAmount(bundle, kind, n), reference \in Numbered(kind, n)
      PROVE  reference \in References(bundle)
  BY <1>1 DEF References, Numbered, IsAmount
<1>2. reference \in Measurements(bundle) => reference \in References(bundle)
  BY DEF References, Measurements
<1>3. ASSUME reference \in References(bundle), reference \notin Measurements(bundle)
      PROVE  \E kind, n : IsAmount(bundle, kind, n) /\ reference \in Numbered(kind, n)
  BY ONLY <1>3, Zenon DEF References, Measurements, Numbered, IsAmount
<1>. QED
  BY <1>1, <1>2, <1>3

LEMMA AmountsAreSmall ==
  ASSUME NEW bundle, IsEvidence(bundle)
  PROVE  \A kind, n : IsAmount(bundle, kind, n) => n \in 0 .. 999
<1>1. \A operations : Cardinality(SpansOf(bundle, operations)) \in 0 .. 999
  BY SpansAreFew DEF SpansOf
<1>2. Cardinality({s \in Spans(bundle) : s.status = "error"}) \in 0 .. 999
  BY SpansAreFew
<1>3. Len(bundle.spans) \in 0 .. 999
  <2>1. Len(bundle.spans) \in Nat /\ Len(bundle.spans) <= 999
    BY LenProperties DEF IsEvidence, IsTimed
  <2>. QED
    BY ONLY <2>1, ThreeDigits
<1>4. Len(bundle.tools) \in 0 .. 999
  <2>1. PICK n \in 1 .. 20 : bundle.tools = [i \in 1 .. n |-> "tool"]
    BY DEF IsEvidence
  <2>2. Len(bundle.tools) = n
    BY <2>1, OfMany
  <2>3. n \in 0 .. 999
    BY <2>1
  <2>. QED
    BY ONLY <2>2, <2>3
<1>5. Len(bundle.generations) \in 0 .. 999
  <2>1. Len(bundle.generations) \in Nat /\ Len(bundle.generations) <= 50
    BY LenProperties DEF IsEvidence
  <2>2. 50 \in Nat /\ 50 <= 999
    OBVIOUS
  <2>. QED
    BY ONLY <2>1, <2>2, AtMost
<1>6. bundle.logs \in 0 .. 999 /\ bundle.metrics \in 0 .. 999
  BY DEF IsEvidence
<1>7. 5 \in 0 .. 999 /\ 2 \in 0 .. 999 /\ 1 \in 0 .. 999 /\ 0 \in 0 .. 999
  OBVIOUS
<1> DEFINE IsSmall(x) == x \in 0 .. 999
<1>8. ASSUME NEW kind, NEW n, IsAmount(bundle, kind, n) PROVE IsSmall(n)
  <2>1. \A x : x \in 0 .. 999 => IsSmall(x)
    OBVIOUS
  <2> HIDE DEF IsSmall
  <2>2. \A operations : IsSmall(Cardinality(SpansOf(bundle, operations)))
    BY ONLY <1>1, <2>1, Zenon
  <2>3. IsSmall(Cardinality({s \in Spans(bundle) : s.status = "error"}))
    BY ONLY <1>2, <2>1, Zenon
  <2>4. IsSmall(Len(bundle.spans))
    BY ONLY <1>3, <2>1, Zenon
  <2>5. IsSmall(Len(bundle.tools)) /\ IsSmall(Len(bundle.generations))
    BY ONLY <1>4, <1>5, <2>1, Zenon
  <2>6. IsSmall(bundle.logs) /\ IsSmall(bundle.metrics)
    BY ONLY <1>6, <2>1, Zenon
  <2>7. IsSmall(5) /\ IsSmall(2) /\ IsSmall(1) /\ IsSmall(0)
    BY ONLY <1>7, <2>1
  <2>8. IsSmall(IF SpansOf(bundle, {"agent.run"}) = {} THEN 0 ELSE 1)
    BY ONLY <2>7
  <2>9. IsSmall(IF ApprovalTiming(bundle.runtime) = {} THEN 1 ELSE 2)
    BY ONLY <2>7
  <2>. QED
    BY ONLY <1>8, <2>2, <2>3, <2>4, <2>5, <2>6, <2>7, <2>8, <2>9 DEF IsAmount
<1>. QED
  BY ONLY <1>8

LEMMA ReferencesAreShort ==
  ASSUME NEW bundle, IsEvidence(bundle)
  PROVE  \A reference \in References(bundle) : IsReferenced(reference)
<1>1. ASSUME NEW kind, NEW n, IsAmount(bundle, kind, n), NEW reference \in Numbered(kind, n)
      PROVE  IsReferenced(reference)
  BY <1>1, AmountsAreSmall, NumberedAreShort
<1>2. ASSUME NEW reference \in Measurements(bundle) PROVE IsReferenced(reference)
  <2> DEFINE measured == LlmMeasurements(bundle.generations)
  <2>1. bundle.generations \in Seq(Generation) /\ Len(bundle.generations) <= 50
    BY DEF IsEvidence
  <2>2. measured \in Seq(Measured) /\ Len(measured) <= 1 + 4 * Len(bundle.generations)
    BY <2>1, MeasurementsAreFew
  <2>3. PICK i \in DOMAIN measured : reference = <<measured[i], i>>
    BY DEF Measurements
  <2> HIDE DEF measured
  <2>4. /\ Len(measured) \in Nat /\ DOMAIN measured = 1 .. Len(measured)
        /\ Len(bundle.generations) \in Nat
    BY <2>1, <2>2, LenProperties
  <2> DEFINE n == Len(measured)
             m == Len(bundle.generations)
  <2>5. i \in 1 .. 999
    <3>1. n \in Nat /\ m \in Nat /\ m <= 50 /\ n <= 1 + 4 * m /\ i \in 1 .. n
      BY ONLY <2>1, <2>2, <2>3, <2>4
    <3> HIDE DEF n, m
    <3>. QED
      BY ONLY <3>1
  <2>6. reference[2] = i
    BY ONLY <2>3
  <2>. QED
    BY <2>5, <2>6 DEF IsReferenced
<1>. QED
  BY <1>1, <1>2, ReferencesAre

LEMMA EvidenceIsABundle ==
  ASSUME NEW bundle, IsEvidence(bundle), IsOrdinary(bundle)
  PROVE  IsBundle(bundle)
<1>1. /\ DOMAIN bundle.sources = Sources
      /\ None \notin {bundle.runtime.requested, bundle.runtime.decided} =>
            bundle.runtime.requested <= bundle.runtime.decided
  BY DEF IsEvidence, InOrderOfTime
<1>2. \A span \in Spans(bundle) : IsSpanEvidence(span)
  BY DEF IsOrdinary, IsSpanEvidence
<1>3. \A wait \in ApprovalTiming(bundle.runtime) : wait[2] - wait[1] <= MaxDuration
  BY DEF ApprovalTiming, IsOrdinary
<1>4. \A i \in DOMAIN bundle.generations : Duration(bundle.generations[i]) \in 0 .. MaxDuration
  BY DEF IsEvidence
<1>. QED
  BY <1>1, <1>2, <1>3, <1>4, ReferencesAreShort DEF IsBundle

LEMMA PairsAreSortable ==
  ASSUME NEW bundle, IsOrdinary(bundle)
  PROVE  IsSortable(ModelPairs(bundle))
<1> DEFINE pairs == ModelPairs(bundle)
<1>1. \A i \in {1, 2} : (\E p \in pairs : p[i] = None) => \A p \in pairs : p[i] = None
  BY DEF IsOrdinary
<1>2. ASSUME NEW p \in pairs, NEW q \in pairs
      PROVE  (p[1] = None <=> q[1] = None) /\ (p[2] = None <=> q[2] = None)
  BY <1>1
<1>. QED
  BY <1>2 DEF IsSortable

-----------------------------------------------------------------------------
(* The findings are accepted: each cites some evidence, which there is, and *)
(* no more than twenty pieces of it.                                       *)
IsSound(finding, bundle) ==
    /\ IsFinding(finding)
    /\ finding.references \subseteq References(bundle)

LEMMA FindingFields ==
  ASSUME NEW category, NEW kind, NEW references, NEW limitations
  PROVE  LET finding == Finding(category, kind, references, limitations)
         IN /\ finding.kind = kind
            /\ finding.references = references
            /\ finding.limitations = limitations
            /\ finding.named = {}
BY DEF Finding

LEMMA FindingIsSound ==
  ASSUME NEW bundle, NEW category, NEW kind \in FindingKinds,
         NEW references, references \subseteq References(bundle),
         Cardinality(references) \in 1 .. 20,
         NEW limitations, limitations \subseteq Limitations
  PROVE  IsSound(Finding(category, kind, references, limitations), bundle)
<1> DEFINE finding == Finding(category, kind, references, limitations)
<1>1. /\ finding.kind = kind /\ finding.references = references
      /\ finding.limitations = limitations /\ finding.named = {}
  BY FindingFields
<1> HIDE DEF finding
<1>2. IsSound(finding, bundle)
  BY <1>1 DEF IsSound, IsFinding
<1>. QED
  BY <1>2 DEF finding

LEMMA FindingOfOne ==
  ASSUME NEW bundle, NEW category, NEW kind \in FindingKinds,
         NEW reference \in References(bundle),
         NEW limitations, limitations \subseteq Limitations
  PROVE  IsSound(Finding(category, kind, {reference}, limitations), bundle)
<1>1. {reference} \subseteq References(bundle)
  OBVIOUS
<1>2. Cardinality({reference}) = 1 /\ 1 \in 1 .. 20
  BY ONLY FS_Singleton
<1>3. Cardinality({reference}) \in 1 .. 20
  BY ONLY <1>2
<1>. QED
  BY <1>1, <1>3, FindingIsSound

(* What a finding may cite.                                                *)
LEMMA ReferencesHave ==
  ASSUME NEW bundle, IsEvidence(bundle)
  PROVE  /\ <<"RUNTIME", 1>> \in References(bundle)
         /\ \A i \in DOMAIN bundle.spans : <<"TRACE", i>> \in References(bundle)
         /\ \A i \in DOMAIN bundle.tools : <<"MCP", i>> \in References(bundle)
         /\ \A i \in 1 .. Len(bundle.generations) : <<"LLM", i>> \in References(bundle)
         /\ \A source : SourceReference(source) \in References(bundle)
<1>1. ASSUME NEW kind, NEW n, IsAmount(bundle, kind, n), NEW i \in 1 .. n
      PROVE  <<kind, i>> \in References(bundle)
  <2>1. n \in Nat
    BY <1>1, AmountsAreSmall
  <2>2. <<kind, i>> \in Numbered(kind, n)
    BY <2>1, NumberedHas
  <2>. QED
    BY <1>1, <2>2, ReferencesAre
<1>2. IsAmount(bundle, "RUNTIME", 1) /\ IsAmount(bundle, "TRACE", Len(bundle.spans))
  BY DEF IsAmount
<1>3. IsAmount(bundle, "MCP", Len(bundle.tools))
  BY DEF IsAmount
<1>4. IsAmount(bundle, "LLM", Len(bundle.generations)) /\ IsAmount(bundle, "SOURCE", 5)
  BY DEF IsAmount
<1>5. DOMAIN bundle.spans = 1 .. Len(bundle.spans)
  BY LenProperties DEF IsEvidence, IsTimed
<1>6. DOMAIN bundle.tools = 1 .. Len(bundle.tools)
  <2>1. PICK n \in 1 .. 20 : bundle.tools = [i \in 1 .. n |-> "tool"]
    BY DEF IsEvidence
  <2>2. Len(bundle.tools) = n
    BY <2>1, OfMany
  <2>. QED
    BY <2>1, <2>2
<1>7. ASSUME NEW source PROVE \E i \in 1 .. 5 : SourceReference(source) = <<"SOURCE", i>>
  BY DEF SourceReference
<1>8. 1 \in 1 .. 1
  OBVIOUS
<1>9. <<"RUNTIME", 1>> \in References(bundle)
  BY ONLY <1>1, <1>2, <1>8
<1>10. \A i \in DOMAIN bundle.spans : <<"TRACE", i>> \in References(bundle)
  BY ONLY <1>1, <1>2, <1>5
<1>11. \A i \in DOMAIN bundle.tools : <<"MCP", i>> \in References(bundle)
  BY ONLY <1>1, <1>3, <1>6
<1>12. \A i \in 1 .. Len(bundle.generations) : <<"LLM", i>> \in References(bundle)
  BY ONLY <1>1, <1>4
<1>13. ASSUME NEW source PROVE SourceReference(source) \in References(bundle)
  BY ONLY <1>1, <1>4, <1>7
<1>. QED
  BY ONLY <1>9, <1>10, <1>11, <1>12, <1>13

LEMMA Observed == "observed" \in FindingKinds /\ "derived" \in FindingKinds
BY DEF FindingKinds

LEMMA SpanFindingsAreSound ==
  ASSUME NEW bundle, IsEvidence(bundle)
  PROVE  /\ \A f \in RuntimeFindings(bundle) : IsSound(f, bundle)
         /\ \A f \in SpanFindings(bundle) : IsSound(f, bundle)
         /\ \A f \in BoundaryFindings(bundle) : IsSound(f, bundle)
<1>1. {} \subseteq Limitations /\ FailedSpans(bundle) \subseteq DOMAIN bundle.spans
  BY DEF FailedSpans
<1>2. ASSUME NEW category, NEW kind \in FindingKinds, NEW i \in FailedSpans(bundle)
      PROVE  IsSound(Finding(category, kind, {<<"TRACE", i>>}, {}), bundle)
  <2>1. <<"TRACE", i>> \in References(bundle)
    BY <1>1, ReferencesHave
  <2>. QED
    BY <1>1, <2>1, FindingOfOne
<1>3. ASSUME NEW f \in RuntimeFindings(bundle) PROVE IsSound(f, bundle)
  <2>1. f = Finding("run_lifecycle", "observed", {<<"RUNTIME", 1>>}, {})
    BY DEF RuntimeFindings
  <2>. QED
    BY <1>1, <2>1, Observed, ReferencesHave, FindingOfOne
<1>4. ASSUME NEW f \in SpanFindings(bundle) PROVE IsSound(f, bundle)
  BY <1>2, Observed DEF SpanFindings
<1>5. ASSUME NEW f \in BoundaryFindings(bundle) PROVE IsSound(f, bundle)
  <2>1. \E category : \E i \in FailedSpans(bundle) :
            f = Finding(category, "derived", {<<"TRACE", i>>}, {})
    BY DEF BoundaryFindings
  <2>. QED
    BY <1>2, <2>1, Observed
<1>. QED
  BY <1>3, <1>4, <1>5

LEMMA RepeatedToolFindingsAreSound ==
  ASSUME NEW bundle, IsEvidence(bundle)
  PROVE  \A f \in RepeatedToolFindings(bundle) : IsSound(f, bundle)
<1> DEFINE uses(tool) == {i \in DOMAIN bundle.tools : bundle.tools[i] = tool}
           cited(tool) == {<<"MCP", i>> : i \in uses(tool)}
           IsCalled(tool) == tool \in ToSet(bundle.tools)
<1>1. PICK n \in 1 .. 20 : bundle.tools = [i \in 1 .. n |-> "tool"]
  BY DEF IsEvidence
<1>2. DOMAIN bundle.tools = 1 .. n
  BY <1>1
<1>3. IsFiniteSet(1 .. n) /\ Cardinality(1 .. n) = n /\ n \in Nat
  BY <1>1, FS_Interval
<1>4. ASSUME NEW tool, IsCalled(tool)
      PROVE  IsSound(Finding("mcp", "derived", cited(tool), {}), bundle)
  <2>1. uses(tool) # {} /\ uses(tool) \subseteq 1 .. n
    BY <1>2, <1>4 DEF ToSet
  <2>2. cited(tool) \subseteq References(bundle)
    <3>1. ASSUME NEW i \in uses(tool) PROVE <<"MCP", i>> \in References(bundle)
      BY <1>2, <2>1, ReferencesHave
    <3>. QED
      BY <3>1
  <2> HIDE DEF uses
  <2>3. IsFiniteSet(uses(tool)) /\ Cardinality(uses(tool)) <= n
    BY <1>3, <2>1, FS_Subset
  <2>4. IsFiniteSet(cited(tool)) /\ Cardinality(cited(tool)) <= Cardinality(uses(tool))
    <3> DEFINE f == [i \in uses(tool) |-> <<"MCP", i>>]
    <3>1. \A r : r \in cited(tool) <=> \E i \in uses(tool) : r = f[i]
      OBVIOUS
    <3> HIDE DEF f, cited
    <3>. QED
      BY <2>3, <3>1, FiniteValues
  <2>5. cited(tool) # {}
    BY <2>1
  <2> HIDE DEF cited
  <2>6. Cardinality(cited(tool)) # 0
    BY <2>4, <2>5, FS_EmptySet
  <2>7. Cardinality(cited(tool)) \in Nat /\ Cardinality(uses(tool)) \in Nat
    BY <2>3, <2>4, FS_CardinalityType
  <2>8. Cardinality(cited(tool)) \in 1 .. 20
    BY ONLY <1>1, <2>3, <2>4, <2>6, <2>7
  <2>9. {} \subseteq Limitations
    OBVIOUS
  <2>. QED
    BY <2>2, <2>8, <2>9, Observed, FindingIsSound
<1>5. ASSUME NEW f \in RepeatedToolFindings(bundle)
      PROVE  \E tool : IsCalled(tool) /\ f = Finding("mcp", "derived", cited(tool), {})
  BY DEF RepeatedToolFindings
<1> HIDE DEF IsCalled, cited
<1>. QED
  BY <1>4, <1>5

LEMMA SourceFindingsAreSound ==
  ASSUME NEW bundle, IsEvidence(bundle)
  PROVE  /\ \A f \in SourceFindings(bundle) : IsSound(f, bundle)
         /\ \A f \in TruncationFindings(bundle) : IsSound(f, bundle)
         /\ \A f \in ConsistencyFindings(bundle) : IsSound(f, bundle)
<1>1. \A source : SourceReference(source) \in References(bundle)
  BY ReferencesHave
<1>2. {"trace_incomplete"} \subseteq Limitations /\ {"correlation_mismatch"} \subseteq Limitations
  BY DEF Limitations
<1>3. ASSUME NEW f \in SourceFindings(bundle) PROVE IsSound(f, bundle)
  <2>1. PICK source \in Sources :
            f = Finding("telemetry", "observed", {SourceReference(source)},
                        bundle.sources[source].limitations)
    BY DEF SourceFindings
  <2>2. bundle.sources[source].limitations \subseteq Limitations
    BY DEF IsEvidence
  <2>. QED
    BY <1>1, <2>1, <2>2, Observed, FindingOfOne
<1>4. ASSUME NEW f \in TruncationFindings(bundle) PROVE IsSound(f, bundle)
  <2>1. f = Finding("telemetry", "observed", {SourceReference("tempo")}, {"trace_incomplete"})
    BY DEF TruncationFindings
  <2>. QED
    BY <1>1, <1>2, <2>1, Observed, FindingOfOne
<1>5. ASSUME NEW f \in ConsistencyFindings(bundle) PROVE IsSound(f, bundle)
  <2> DEFINE a == SourceReference("tempo")
             b == SourceReference("langfuse")
  <2>1. f = Finding("telemetry", "derived", {a, b}, {"correlation_mismatch"})
    BY DEF ConsistencyFindings
  <2>2. {a, b} \subseteq References(bundle)
    BY <1>1
  <2> HIDE DEF a, b
  <2>3. Cardinality({a, b}) \in 1 .. 20
    <3>1. IsFiniteSet({a}) /\ Cardinality({a}) = 1 /\ {a} \union {b} = {a, b}
      BY FS_Singleton
    <3>2. Cardinality({a} \union {b}) = IF b \in {a} THEN Cardinality({a}) ELSE Cardinality({a}) + 1
      BY ONLY <3>1, FS_AddElement
    <3>3. Cardinality({a, b}) = 1 \/ Cardinality({a, b}) = 2
      BY ONLY <3>1, <3>2
    <3>4. 1 \in 1 .. 20 /\ 2 \in 1 .. 20
      OBVIOUS
    <3>. QED
      BY ONLY <3>3, <3>4
  <2>. QED
    BY <1>2, <2>1, <2>2, <2>3, Observed, FindingIsSound
<1>. QED
  BY <1>3, <1>4, <1>5

LEMMA LlmFindingsAreSound ==
  ASSUME NEW bundle, IsEvidence(bundle), IsOrdinary(bundle)
  PROVE  \A f \in LlmFindings(bundle) : IsSound(f, bundle)
<1> DEFINE m == Len(bundle.generations)
           shown == First20(m)
           cited == {<<"LLM", i>> : i \in shown}
<1>1. m \in Nat /\ (bundle.generations # <<>> => m # 0)
  <2>1. bundle.generations \in Seq(Generation)
    BY DEF IsEvidence
  <2>. QED
    BY <2>1, EmptySeq, LenProperties
<1>2. \A i \in 1 .. m : <<"LLM", i>> \in References(bundle)
  BY ReferencesHave
<1>3. {} \subseteq Limitations
  OBVIOUS
<1>4. SourceReference("langfuse") \in References(bundle)
  BY ReferencesHave
<1>5. ASSUME NEW category
      PROVE  IsSound(Finding(category, "observed", {SourceReference("langfuse")}, {}), bundle)
  BY <1>3, <1>4, Observed, FindingOfOne
<1> HIDE DEF m
<1>6. ASSUME bundle.generations # <<>>
      PROVE  IsSound(Finding("llm", "observed", cited, {}), bundle)
  <2> DEFINE k == IF m > 20 THEN 20 ELSE m
  <2>1. k \in 1 .. 20 /\ k <= m /\ k \in Nat
    BY <1>1, <1>6
  <2>2. shown = 1 .. k /\ shown \subseteq 1 .. m
    BY <1>1, <2>1 DEF First20
  <2> HIDE DEF k, shown
  <2>3. IsFiniteSet(shown) /\ Cardinality(shown) = k
    BY <2>1, <2>2, FS_Interval
  <2>4. IsFiniteSet(cited) /\ Cardinality(cited) <= Cardinality(shown)
    <3> DEFINE f == [i \in shown |-> <<"LLM", i>>]
    <3>1. \A r : r \in cited <=> \E i \in shown : r = f[i]
      OBVIOUS
    <3> HIDE DEF f, cited
    <3>. QED
      BY <2>3, <3>1, FiniteValues
  <2>5. cited # {} /\ cited \subseteq References(bundle)
    <3>1. 1 \in shown /\ \A i \in shown : i \in 1 .. m
      BY ONLY <2>1, <2>2
    <3>2. ASSUME NEW i \in shown PROVE <<"LLM", i>> \in References(bundle)
      BY ONLY <1>2, <3>1, <3>2
    <3>. QED
      BY ONLY <3>1, <3>2, Zenon DEF cited
  <2> HIDE DEF cited
  <2>6. Cardinality(cited) # 0
    BY <2>4, <2>5, FS_EmptySet
  <2>7. Cardinality(cited) \in Nat
    BY <2>4, FS_CardinalityType
  <2>8. Cardinality(cited) \in 1 .. 20
    BY ONLY <2>1, <2>3, <2>4, <2>6, <2>7
  <2>. QED
    BY <1>3, <2>5, <2>8, Observed, FindingIsSound
<1> DEFINE counted == Finding("llm", "observed", cited, {})
           listing(pairs) == [counted EXCEPT !.named = pairs]
<1>7. ASSUME NEW f \in LlmFindings(bundle)
      PROVE  \/ bundle.generations # <<>> /\ f = counted
             \/ /\ bundle.generations # <<>> /\ ModelPairs(bundle) # {}
                /\ f = listing(ModelPairs(bundle))
             \/ \E category : f = Finding(category, "observed", {SourceReference("langfuse")}, {})
  BY DEF LlmFindings, m
<1>8. ASSUME bundle.generations # <<>>, ModelPairs(bundle) # {}
      PROVE  IsSound(listing(ModelPairs(bundle)), bundle)
  <2> DEFINE pairs == ModelPairs(bundle)
             finding == listing(pairs)
  <2>1. IsSound(counted, bundle)
    BY <1>6, <1>8
  <2>2. ListedLength(pairs) <= MaxStatement
    BY <1>8 DEF IsOrdinary
  <2> HIDE DEF cited, pairs
  <2>3. /\ finding.kind = counted.kind /\ finding.references = counted.references
        /\ finding.limitations = counted.limitations /\ finding.named = pairs
    BY DEF Finding
  <2> HIDE DEF counted, finding
  <2>4. IsSound(finding, bundle)
    BY <2>1, <2>2, <2>3 DEF IsSound, IsFinding
  <2>. QED
    BY <2>4 DEF finding, pairs
<1> HIDE DEF cited, listing
<1>. QED
  BY <1>5, <1>6, <1>7, <1>8

LEMMA TimingFindingsAreSound ==
  ASSUME NEW bundle, IsEvidence(bundle)
  PROVE  \A f \in TimingFindings(bundle) : IsSound(f, bundle)
<1> DEFINE run_root == RunRoot(bundle)
           root == CHOOSE i \in DOMAIN bundle.spans : bundle.spans[i] = run_root
<1>1. SUFFICES ASSUME NEW f \in TimingFindings(bundle) PROVE IsSound(f, bundle)
  OBVIOUS
<1>2. f = Finding("latency", "derived", {<<"TRACE", root>>}, {}) /\ Durations(bundle) # None
  BY DEF TimingFindings
<1>3. run_root \in Spans(bundle)
  <2>1. run_root # None
    BY <1>2 DEF Durations
  <2>. QED
    BY <2>1, RootIsASpan DEF IsEvidence
<1> HIDE DEF run_root
<1>4. \E i \in DOMAIN bundle.spans : bundle.spans[i] = run_root
  BY <1>3 DEF Spans, ToSet
<1>5. root \in DOMAIN bundle.spans
  BY <1>4
<1> HIDE DEF root
<1>6. <<"TRACE", root>> \in References(bundle) /\ {} \subseteq Limitations
  BY <1>5, ReferencesHave
<1>. QED
  BY <1>2, <1>6, Observed, FindingOfOne

LEMMA FindingsAreSound ==
  ASSUME NEW bundle, IsEvidence(bundle), IsOrdinary(bundle)
  PROVE  \A f \in Analyze(bundle) : IsSound(f, bundle)
<1>1. \A f \in RuntimeFindings(bundle) \union SpanFindings(bundle) \union BoundaryFindings(bundle) :
         IsSound(f, bundle)
  BY SpanFindingsAreSound
<1>2. \A f \in SourceFindings(bundle) \union TruncationFindings(bundle)
                 \union ConsistencyFindings(bundle) : IsSound(f, bundle)
  BY SourceFindingsAreSound
<1>3. \A f \in RepeatedToolFindings(bundle) \union LlmFindings(bundle) \union TimingFindings(bundle) :
         IsSound(f, bundle)
  BY RepeatedToolFindingsAreSound, LlmFindingsAreSound, TimingFindingsAreSound
<1>. QED
  BY ONLY <1>1, <1>2, <1>3, Zenon DEF Analyze

-----------------------------------------------------------------------------
(* The report is accepted: its status says what is missing.                *)
LEMMA EvidenceIsAccepted ==
  ASSUME NEW bundle, IsEvidence(bundle), IsOrdinary(bundle)
  PROVE  IsAccepted(Report(bundle), bundle)
<1> DEFINE report == Report(bundle)
<1>1. /\ report.status = AnalysisStatus(bundle)
      /\ report.findings = Analyze(bundle)
      /\ report.limitations = OverallLimitations(bundle)
      /\ report.incomplete = Incomplete(bundle)
  BY DEF Report
<1> HIDE DEF report
<1>2. report.status = "complete" => report.incomplete = {}
  BY <1>1 DEF AnalysisStatus
<1> DEFINE has_incomplete ==
             \/ report.incomplete # {}
             \/ {"trace_incomplete", "observation_limit_reached"} \intersect report.limitations # {}
<1>3. report.status \in {"partial", "insufficient_evidence"} => has_incomplete
  <2>1. CASE IsInsufficient(bundle)
    <3>1. "tempo" \in Incomplete(bundle)
      BY <2>1 DEF IsInsufficient, Incomplete, SourcesIn, Sources
    <3>. QED
      BY <1>1, <3>1
  <2>2. CASE Incomplete(bundle) # {}
    BY <1>1, <2>2
  <2>3. CASE bundle.truncated
    <3>1. "trace_incomplete" \in OverallLimitations(bundle)
      BY <2>3 DEF OverallLimitations
    <3>. QED
      BY <1>1, <3>1
  <2>4. CASE bundle.llm_truncated
    <3>1. CASE "langfuse" \in Incomplete(bundle)
      BY <1>1, <3>1
    <3>2. CASE "observation_limit_reached" \in bundle.sources["langfuse"].limitations
      <4>1. "observation_limit_reached" \in OverallLimitations(bundle)
        BY <3>2 DEF OverallLimitations, Sources
      <4>. QED
        BY <1>1, <4>1
    <3>. QED
      BY <2>4, <3>1, <3>2 DEF IsEvidence
  <2>5. CASE /\ ~ IsInsufficient(bundle) /\ Incomplete(bundle) = {}
             /\ ~ bundle.truncated /\ ~ bundle.llm_truncated
    BY <1>1, <2>5 DEF AnalysisStatus
  <2>. QED
    BY <2>1, <2>2, <2>3, <2>4, <2>5
<1>4. \A f \in report.findings : IsFinding(f) /\ f.references \subseteq References(bundle)
  BY <1>1, FindingsAreSound DEF IsSound
<1>5. IsReport(report, bundle)
  BY <1>2, <1>3, <1>4 DEF IsReport
<1>6. IsAccepted(report, bundle)
  BY <1>4, <1>5, EvidenceIsABundle, PairsAreSortable DEF IsAccepted
<1>. QED
  BY <1>6 DEF report

-----------------------------------------------------------------------------
(* What an analysis raises at is not ordinary.                             *)
LEMMA CollectsOrdinary ==
  ASSUME ServerInv, TimeInv, NEW c \in Callers, NEW offer \in Offers[c], Collects(c, offer),
         IsOrdinary(Evidence(c, offer))
  PROVE  LET bundle == Evidence(c, offer)
         IN \/ Raises(c, "refused")
            \/ Sets(c, [calls[c] EXCEPT !.pc = "reported", !.bundle = bundle,
                          !.report = Report(bundle), !.told = bundle.runtime.status])
<1>1. At(c, "listing") /\ InOrderOfTime(calls[c].runtime) /\ IsOffer(offer) /\ RunInv
  BY ServerAssumption DEF Collects, TimeInv, ReportInv
<1>2. IsAccepted(Report(Evidence(c, offer)), Evidence(c, offer))
  BY <1>1, EvidenceIsSuch, EvidenceIsAccepted
<1>. QED
  BY <1>2 DEF Collects

LEMMA NobodyElseRaises ==
  ASSUME ServerInv, OrdinaryEvidenceIsReported, NEW c \in Callers, NEW call, Sets(c, call),
         call.pc = "raised" => ~ IsOrdinary(call.bundle)
  PROVE  OrdinaryEvidenceIsReported'
<1>1. calls'[c] = call /\ \A d \in Callers : d # c => calls'[d] = calls[d]
  BY DEF ServerInv, JobsTypeOK, Sets
<1>. QED
  BY <1>1 DEF OrdinaryEvidenceIsReported, At

LEMMA AnswersRaiseNothing ==
  ASSUME ServerInv, OrdinaryEvidenceIsReported, NEW c \in Callers, NEW reasoning, NEW assessment,
         Answered(c, reasoning, assessment)
  PROVE  OrdinaryEvidenceIsReported'
<1> DEFINE answer == [Asked("answered", calls[c].explain) EXCEPT !.told = calls[c].told,
                         !.reasoning = reasoning, !.assessment = assessment]
<1>1. answer.pc = "answered" /\ Sets(c, answer)
  BY DEF Answered, Asked
<1> HIDE DEF answer
<1>. QED
  BY <1>1, NobodyElseRaises

(* Ordinary evidence is reported, whatever the sources deliver or fail      *)
(* with: any trace, however it is cut, any logs, metrics and generations,   *)
(* and a run that went on meanwhile.  Only a span or a wait of more than a  *)
(* day, words of another form, and names that cannot be sorted or listed    *)
(* make an analysis raise.                                                  *)
THEOREM OrdinaryAnalysesAreReported == RcaSpec => []OrdinaryEvidenceIsReported
<1>1. RcaInit => OrdinaryEvidenceIsReported
  <2>1. Asked("idle", FALSE).pc = "idle"
    BY AskedFields
  <2>. QED
    BY <2>1 DEF RcaInit, OrdinaryEvidenceIsReported, At
<1>2. ServerInv /\ TimeInv /\ OrdinaryEvidenceIsReported /\ [RcaNext]_rcaVars => OrdinaryEvidenceIsReported'
  <2> SUFFICES ASSUME ServerInv, TimeInv, OrdinaryEvidenceIsReported, [RcaNext]_rcaVars
               PROVE  OrdinaryEvidenceIsReported'
    OBVIOUS
  <2>1. CASE UNCHANGED calls
    BY <2>1 DEF OrdinaryEvidenceIsReported, At
  <2>2. ASSUME NEW c \in Callers, NEW reasoning, NEW assessment,
               Completes(c, reasoning, assessment)
        PROVE  OrdinaryEvidenceIsReported'
    BY <2>1, <2>2, AnswersRaiseNothing DEF Completes
  <2>3. ASSUME NEW c \in Callers, NEW explain \in Requests[c], Asks(c, explain)
        PROVE  OrdinaryEvidenceIsReported'
    <3> DEFINE listing == [Asked("listing", explain) EXCEPT !.runtime =
                             [status |-> run.status, requested |-> run.requested,
                              decided |-> run.decided]]
    <3>1. listing.pc = "listing" /\ Asked("refused", explain).pc = "refused"
      BY DEF Asked
    <3>2. Sets(c, listing) \/ Sets(c, Asked("refused", explain))
      BY <2>3 DEF Asks
    <3> HIDE DEF listing
    <3>. QED
      BY <3>1, <3>2, NobodyElseRaises
  <2>4. ASSUME NEW c \in Callers, Raises(c, "refused")
        PROVE  OrdinaryEvidenceIsReported'
    <3>1. Asked("refused", calls[c].explain).pc = "refused"
      BY AskedFields
    <3>. QED
      BY <2>4, <3>1, NobodyElseRaises DEF Raises
  <2>5. ASSUME NEW c \in Callers, NEW offer \in Offers[c], Collects(c, offer)
        PROVE  OrdinaryEvidenceIsReported'
    <3> DEFINE bundle == Evidence(c, offer)
               report == Report(bundle)
               reported == [calls[c] EXCEPT !.pc = "reported", !.bundle = bundle,
                                            !.report = report, !.told = bundle.runtime.status]
               raised == [Asked("raised", calls[c].explain) EXCEPT !.bundle = bundle]
    <3>1. Raises(c, "refused") \/ Sets(c, reported) \/ Sets(c, raised)
      BY <2>5 DEF Collects, CannotReport
    <3>2. IsOrdinary(bundle) => Raises(c, "refused") \/ Sets(c, reported)
      BY <2>5, CollectsOrdinary
    <3> HIDE DEF bundle, report
    <3>3. reported.pc = "reported"
      BY DEF ServerInv, JobsTypeOK, Fields
    <3>4. raised.pc = "raised" /\ raised.bundle = bundle
      BY CannotReportFields
    <3> HIDE DEF reported, raised
    <3>. QED
      BY <2>4, <3>1, <3>2, <3>3, <3>4, NobodyElseRaises
  <2>6. ASSUME NEW c \in Callers, Explains(c)
        PROVE  OrdinaryEvidenceIsReported'
    <3> DEFINE waiting == [Asked("waiting", TRUE) EXCEPT !.told = calls[c].told]
    <3>1. waiting.pc = "waiting"
      BY DEF Asked
    <3>2. Sets(c, waiting) \/ Answered(c, "unavailable", None)
      BY <2>6 DEF Explains
    <3> HIDE DEF waiting
    <3>. QED
      BY <3>1, <3>2, NobodyElseRaises, AnswersRaiseNothing
  <2>7. ASSUME NEW c \in Callers, StoreFails(c) \/ IsCancelled(c)
        PROVE  OrdinaryEvidenceIsReported'
    BY <2>4, <2>7 DEF StoreFails, IsCancelled
  <2>8. ASSUME NEW c \in Callers, ReportsAlone(c) \/ StopsWaiting(c)
        PROVE  OrdinaryEvidenceIsReported'
    BY <2>8, AnswersRaiseNothing DEF ReportsAlone, StopsWaiting
  <2>9. ASSUME NEW c \in Callers, Resolves(c) \/ DeadlineExpires(c)
        PROVE  OrdinaryEvidenceIsReported'
    BY <2>1, <2>2, <2>9 DEF Resolves, DeadlineExpires
  <2>10. ASSUME NEW c \in Callers, NEW output \in Outputs, ModelAnswers(c, output)
         PROVE  OrdinaryEvidenceIsReported'
    BY <2>2, <2>10 DEF ModelAnswers
  <2>11. CASE RunContinues \/ Closes \/ ClosesProvider \/ UNCHANGED rcaVars
    BY <2>1, <2>11 DEF RunContinues, Closes, ClosesProvider, rcaVars
  <2>. QED
    BY <2>3, <2>5, <2>6, <2>7, <2>8, <2>9, <2>10, <2>11 DEF RcaNext
<1>. QED
  BY <1>1, <1>2, StrengthenedInvariant, TimeIsInOrder, PTL DEF RcaSpec

-----------------------------------------------------------------------------
(* What a call consists of.                                                *)
IsCall(call) ==
    /\ call.pc \in {"idle", "listing", "reported", "waiting", "answered", "refused", "raised"}
    /\ call.explain \in BOOLEAN
    /\ call.bundle # None => \A source \in Sources :
          /\ call.bundle.sources[source].status \in Statuses
          /\ call.bundle.sources[source].limitations \subseteq Limitations
    /\ call.told \in RuntimeStatuses \union {None}
    /\ call.reasoning \in ReasoningStatuses \union {None}

CallsTypeOK == \A c \in Callers : IsCall(calls[c])

(* Whatever Tempo replies, it comes to a trace with a status.              *)
LEMMA TraceHasAStatus ==
  ASSUME NEW reply
  PROVE  TraceObservation(GetRunTrace(reply)).status \in Statuses
<1> DEFINE IsTrace(trace) ==
             DOMAIN trace = {"status", "spans", "truncated"} /\ trace.status \in Statuses
           fetched == GetTrace(reply.fetch, reply.spans)
           trace == GetRunTrace(reply)
<1>1. \A status \in Statuses : IsTrace(NoTrace(status))
  BY DEF NoTrace
<1>2. \A http, empty : GetJson(http, empty) \in Statuses
  BY DEF GetJson, Statuses
<1>3. {"malformed", "missing", "available"} \subseteq Statuses
  BY DEF Statuses
<1>4. IsTrace(ParseTempoTrace(reply.spans))
  <2>1. \/ \E status \in {"malformed", "missing"} : ParseTempoTrace(reply.spans) = NoTrace(status)
        \/ \E spans, truncated :
              ParseTempoTrace(reply.spans) = [status |-> "available", spans |-> spans,
                                              truncated |-> truncated]
    BY DEF ParseTempoTrace
  <2>2. ASSUME NEW spans, NEW truncated
        PROVE  IsTrace([status |-> "available", spans |-> spans, truncated |-> truncated])
    BY <1>3
  <2>3. IsTrace(NoTrace("malformed")) /\ IsTrace(NoTrace("missing"))
    BY <1>1, <1>3
  <2> HIDE DEF IsTrace
  <2>. QED
    BY <2>1, <2>2, <2>3
<1>5. IsTrace(fetched)
  BY <1>1, <1>2, <1>4 DEF GetTrace
<1>6. IsTrace(trace)
  <2> HIDE DEF fetched, IsTrace
  <2>1. trace \in {NoTrace(GetJson(reply.search, TRUE)), NoTrace("missing"), NoTrace("malformed"),
                   fetched}
    BY DEF GetRunTrace, fetched
  <2>. QED
    BY <1>1, <1>2, <1>3, <1>5, <2>1
<1> HIDE DEF trace
<1>7. \/ TraceObservation(trace).status = trace.status
      \/ TraceObservation(trace) = NoTrace("malformed")
  BY <1>6 DEF TraceObservation
<1>. QED
  BY <1>1, <1>3, <1>6, <1>7 DEF trace

LEMMA AvailabilityIsKnown ==
  ASSUME NEW status \in Statuses, NEW is_empty \in BOOLEAN, NEW limitations
  PROVE  Availability(status, is_empty, limitations).status \in Statuses
BY DEF Availability, SourceAvailability, Statuses

LEMMA SourcesAreKnown ==
  ASSUME NEW c, NEW offer, NEW source \in Sources
  PROVE  Evidence(c, offer).sources[source].status \in Statuses
<1> DEFINE tempo == TraceObservation(GetRunTrace(offer.tempo))
           logs == GetTraceLogs(offer.loki, offer.tempo.spans)
           metrics == GetTraceMetrics(offer.prometheus, offer.tempo.spans)
           llm == IF offer.langfuse = None THEN None ELSE GetTraceLlmEvidence(offer.langfuse)
           bundle == Evidence(c, offer)
           Known(availability) == availability.status \in Statuses
<1>1. tempo.status \in Statuses
  BY TraceHasAStatus
<1>2. \A http, empty : GetJson(http, empty) \in Statuses
  BY DEF GetJson, Statuses
<1>3. {"malformed", "missing", "available", "not_authorized", "unavailable"} \subseteq Statuses
  BY DEF Statuses
<1>4. \A http, spans : GetTrace(http, spans).status \in Statuses
  BY <1>2, <1>3 DEF GetTrace, ParseTempoTrace, NoTrace
<1>5. logs.status \in Statuses
  BY <1>2, <1>3, <1>4 DEF GetTraceLogs
<1>6. metrics.status \in Statuses
  BY <1>2, <1>3, <1>4 DEF GetTraceMetrics
<1>7. llm # None => llm.status \in Statuses
  BY <1>3 DEF GetTraceLlmEvidence, NoGenerations
<1> HIDE DEF tempo, logs, metrics, llm
<1>8. Known(NotApplicable) /\ Known(SourceAvailability("available", {}))
  BY DEF NotApplicable, SourceAvailability, Statuses
<1>9. \E limits :
        /\ bundle.sources["runtime"] = SourceAvailability("available", {})
        /\ bundle.sources["tempo"] = Availability(tempo.status, tempo.spans = <<>>, limits)
        /\ bundle.sources["loki"]
             \in {NotApplicable, Availability(logs.status, logs.events = 0, {})}
        /\ bundle.sources["prometheus"]
             \in {NotApplicable, Availability(metrics.status, metrics.points = 0, {})}
  BY DEF Evidence, Collect, tempo, logs, metrics
<1>10. \/ bundle.sources["langfuse"] = NotApplicable
       \/ llm # None /\ \E limits : bundle.sources["langfuse"]
                           = Availability(llm.status, llm.generations = <<>>, limits)
  BY DEF Evidence, Collect, LangfuseAvailability, llm
<1> HIDE DEF bundle
<1>11. /\ (tempo.spans = <<>>) \in BOOLEAN /\ (logs.events = 0) \in BOOLEAN
       /\ (metrics.points = 0) \in BOOLEAN /\ (llm.generations = <<>>) \in BOOLEAN
  OBVIOUS
<1>12. Known(bundle.sources["runtime"]) /\ Known(bundle.sources["tempo"])
  BY <1>1, <1>8, <1>9, <1>11, AvailabilityIsKnown
<1>13. Known(bundle.sources["loki"]) /\ Known(bundle.sources["prometheus"])
  BY <1>5, <1>6, <1>8, <1>9, <1>11, AvailabilityIsKnown
<1>14. Known(bundle.sources["langfuse"])
  BY <1>7, <1>8, <1>10, <1>11, AvailabilityIsKnown
<1>. QED
  BY <1>12, <1>13, <1>14 DEF Sources, bundle

LEMMA CallIsReplaced ==
  ASSUME ServerInv, CallsTypeOK, NEW c \in Callers, NEW call, Sets(c, call), IsCall(call)
  PROVE  CallsTypeOK'
<1>1. calls'[c] = call /\ \A d \in Callers : d # c => calls'[d] = calls[d]
  BY DEF ServerInv, JobsTypeOK, Sets
<1>2. ASSUME NEW d \in Callers PROVE IsCall(calls'[d])
  BY <1>1 DEF CallsTypeOK
<1>. QED
  BY <1>2 DEF CallsTypeOK, IsCall

LEMMA AskedIsACall ==
  ASSUME NEW explain \in BOOLEAN,
         NEW pc \in {"idle", "listing", "reported", "waiting", "answered", "refused", "raised"}
  PROVE  IsCall(Asked(pc, explain))
BY DEF IsCall, Asked

LEMMA AnsweredIsACall ==
  ASSUME ServerInv, CallsTypeOK, NEW c \in Callers,
         NEW reasoning \in ReasoningStatuses, NEW assessment, Answered(c, reasoning, assessment)
  PROVE  CallsTypeOK'
<1> DEFINE answer == [Asked("answered", calls[c].explain) EXCEPT !.told = calls[c].told,
                         !.reasoning = reasoning, !.assessment = assessment]
<1>1. Sets(c, answer)
  BY DEF Answered
<1>2. calls[c].explain \in BOOLEAN /\ calls[c].told \in RuntimeStatuses \union {None}
  BY DEF CallsTypeOK, IsCall
<1>3. IsCall(answer)
  BY <1>2 DEF IsCall, Asked
<1> HIDE DEF answer
<1>. QED
  BY <1>1, <1>3, CallIsReplaced

LEMMA CallsStayTyped == ServerInv /\ TimeInv /\ CallsTypeOK /\ [RcaNext]_rcaVars => CallsTypeOK'
<1> SUFFICES ASSUME ServerInv, TimeInv, CallsTypeOK, [RcaNext]_rcaVars
             PROVE  CallsTypeOK'
  OBVIOUS
<1>0. \A c \in Callers :
        calls[c].explain \in BOOLEAN /\ calls[c].told \in RuntimeStatuses \union {None}
  BY DEF CallsTypeOK, IsCall
<1>1. CASE UNCHANGED calls
  BY <1>1 DEF CallsTypeOK, IsCall
<1>2. ASSUME NEW c \in Callers, NEW reasoning \in ReasoningStatuses, NEW assessment,
             Completes(c, reasoning, assessment)
      PROVE  CallsTypeOK'
  BY <1>1, <1>2, AnsweredIsACall DEF Completes
<1>3. ASSUME NEW c \in Callers, NEW explain \in Requests[c], Asks(c, explain)
      PROVE  CallsTypeOK'
  <2> DEFINE listing == [Asked("listing", explain) EXCEPT !.runtime =
                           [status |-> run.status, requested |-> run.requested,
                            decided |-> run.decided]]
  <2>1. explain \in BOOLEAN
    BY ServerAssumption
  <2>2. IsCall(listing) /\ IsCall(Asked("refused", explain))
    BY <2>1 DEF IsCall, Asked
  <2>3. Sets(c, listing) \/ Sets(c, Asked("refused", explain))
    BY <1>3 DEF Asks
  <2> HIDE DEF listing
  <2>. QED
    BY <2>2, <2>3, CallIsReplaced
<1>4. ASSUME NEW c \in Callers, Raises(c, "refused")
      PROVE  CallsTypeOK'
  BY <1>0, <1>4, AskedIsACall, CallIsReplaced DEF Raises
<1>5. ASSUME NEW c \in Callers, NEW offer \in Offers[c], Collects(c, offer)
      PROVE  CallsTypeOK'
  <2> DEFINE bundle == Evidence(c, offer)
             report == Report(bundle)
             reported == [calls[c] EXCEPT !.pc = "reported", !.bundle = bundle,
                                          !.report = report, !.told = bundle.runtime.status]
  <2>1. InOrderOfTime(calls[c].runtime) /\ IsOffer(offer) /\ RunInv
    BY <1>5, ServerAssumption DEF Collects, TimeInv, ReportInv
  <2>2. IsEvidence(bundle)
    BY <2>1, EvidenceIsSuch
  <2>3. /\ bundle.runtime.status \in RuntimeStatuses
        /\ \A s \in Sources : bundle.sources[s].limitations \subseteq Limitations
    BY <2>2 DEF IsEvidence, InOrderOfTime
  <2>4. \A s \in Sources : bundle.sources[s].status \in Statuses
    BY SourcesAreKnown
  <2> DEFINE raised == [Asked("raised", calls[c].explain) EXCEPT !.bundle = bundle]
  <2>5. \/ Raises(c, "refused")
        \/ Sets(c, reported)
        \/ Sets(c, raised)
    BY <1>5 DEF Collects, CannotReport
  <2> HIDE DEF bundle, report
  <2>6. DOMAIN calls[c] = Fields
    BY DEF ServerInv, JobsTypeOK
  <2>7. /\ reported.pc = "reported" /\ reported.explain = calls[c].explain
        /\ reported.bundle = bundle /\ reported.told = bundle.runtime.status
        /\ reported.reasoning = calls[c].reasoning
    BY <2>6 DEF Fields
  <2>9. /\ raised.pc = "raised" /\ raised.explain = calls[c].explain /\ raised.bundle = bundle
        /\ raised.told = None /\ raised.reasoning = None
    BY CannotReportFields
  <2> HIDE DEF reported, raised
  <2>8. IsCall(reported)
    BY <2>3, <2>4, <2>7 DEF CallsTypeOK, IsCall
  <2>10. IsCall(raised)
    BY <1>0, <2>3, <2>4, <2>9 DEF IsCall
  <2>. QED
    BY <1>4, <2>5, <2>8, <2>10, CallIsReplaced
<1>6. ASSUME NEW c \in Callers, Explains(c)
      PROVE  CallsTypeOK'
  <2> DEFINE waiting == [Asked("waiting", TRUE) EXCEPT !.told = calls[c].told]
  <2>1. IsCall(waiting)
    BY <1>0 DEF IsCall, Asked
  <2>2. Sets(c, waiting) \/ Answered(c, "unavailable", None)
    BY <1>6 DEF Explains
  <2>3. "unavailable" \in ReasoningStatuses
    BY DEF ReasoningStatuses
  <2> HIDE DEF waiting
  <2>. QED
    BY <2>1, <2>2, <2>3, CallIsReplaced, AnsweredIsACall
<1>7. ASSUME NEW c \in Callers, ReportsAlone(c) \/ StopsWaiting(c)
      PROVE  CallsTypeOK'
  BY <1>7, AnsweredIsACall DEF ReportsAlone, StopsWaiting, ReasoningStatuses
<1>8. ASSUME NEW c \in Callers, Resolves(c) \/ DeadlineExpires(c)
      PROVE  CallsTypeOK'
  BY <1>1, <1>2, <1>8 DEF Resolves, DeadlineExpires, ReasoningStatuses
<1>9. ASSUME NEW c \in Callers, NEW output \in Outputs, ModelAnswers(c, output)
      PROVE  CallsTypeOK'
  BY <1>2, <1>9 DEF ModelAnswers, ReasoningStatuses
<1>10. CASE RunContinues \/ Closes \/ ClosesProvider \/ UNCHANGED rcaVars
  BY <1>1, <1>10 DEF RunContinues, Closes, ClosesProvider, rcaVars
<1>. QED
  BY <1>3, <1>4, <1>5, <1>6, <1>7, <1>8, <1>9, <1>10 DEF RcaNext, StoreFails, IsCancelled

(* Every call, bundle, job and run is well typed: a source always has one  *)
(* of the statuses and limitations of a report.                            *)
THEOREM TypeCorrect == RcaSpec => []RcaTypeOK
<1>1. RcaInit => CallsTypeOK
  <2>1. FALSE \in BOOLEAN
    OBVIOUS
  <2>. QED
    BY <2>1, AskedIsACall DEF RcaInit, CallsTypeOK
<1>2. ServerInv /\ TimeInv /\ CallsTypeOK => RcaTypeOK
  <2> SUFFICES ASSUME ServerInv, TimeInv, CallsTypeOK PROVE RcaTypeOK
    OBVIOUS
  <2>1. \A c \in Callers : calls[c].assessment \in Assessments \union {None}
    BY DEF ServerInv, ToldInv, AllowedAssessments, Assessments
  <2>. QED
    BY <2>1 DEF ServerInv, JobsTypeOK, TimeInv, RunInv, CallsTypeOK, IsCall, RcaTypeOK
<1>. QED
  BY <1>1, <1>2, CallsStayTyped, StrengthenedInvariant, TimeIsInOrder, PTL DEF RcaSpec

=============================================================================
