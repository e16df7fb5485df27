----------------------------- MODULE RcaServer -----------------------------
(***************************************************************************)
(* The RCA server: authenticated callers ask for the analysis of a run,    *)
(* while the run goes on.  An analysis passes the visibility of the run    *)
(* twice, collects the evidence of each source, reports, and may have the  *)
(* report explained by a model in one of a few workers.  A caller that     *)
(* waited long enough, or was cancelled, leaves its worker behind; the     *)
(* server stops when the last worker is done.                              *)
(*                                                                         *)
(* infrastructure/rca_mcp_server.py, application/rca_reasoning.py, the     *)
(* runtime evidence of infrastructure/rca_evidence.py and                  *)
(* infrastructure/llm/deadline_transport.py                                *)
(***************************************************************************)
EXTENDS RcaReport

CONSTANTS Callers,            \* requests to the server
          Clearance,          \* the clearance each caller has
          RunClassification,  \* of the run they ask for
          MaxTools,           \* tool calls of that run
          Waits,              \* the ticks its approval may wait for a decision
          Requests,           \* what each caller may ask for: an explanation or not
          Offers,             \* what the backends may reply to each caller
          Capacity,           \* reasoning_max_concurrency
          Catalog, Keys,      \* the models
          Assignment          \* what rca_reasoning is assigned for the run

VARIABLES
    run,       \* the run asked for, as the run store has it
    calls,     \* per caller: its request
    jobs,      \* per caller: its explanation in the worker pool, or None
    pending,   \* callers whose jobs the pool counts
    server,    \* "serving", "closing", "closed": then the provider is too
    time       \* ticks of the run

rcaVars == <<run, calls, jobs, pending, server, time>>

Selection == INSTANCE ModelSelection

Focuses == {"overview", "failure", "performance"}

ReasoningStatuses == {"available", "not_requested", "not_allowed", "unavailable", "malformed"}

Assessments ==
    {"completed_without_confirmed_cause", "failed_without_confirmed_cause", "evidence_limited",
     "confirmed_cause_present"}

(* Of its report, a job keeps how the run ended.                           *)
Job == [pc : {"resolving", "calling"}, failed : BOOLEAN]

ASSUME ServerAssumption ==
    /\ Capacity \in Nat
    /\ None \notin Job
    /\ MaxTools \in 1 .. 20
    /\ Waits \subseteq Nat
    /\ \A c \in Callers :
          Requests[c] \subseteq BOOLEAN /\ \A offer \in Offers[c] : IsOffer(offer)

RcaTypeOK ==
    /\ run \in [status : RuntimeStatuses, tools : 1 .. MaxTools,
                requested : Nat \union {None}, decided : Nat \union {None}]
    /\ \A c \in Callers :
          /\ calls[c].pc \in {"idle", "listing", "reported", "waiting",
                              "answered", "refused", "raised"}
          /\ calls[c].explain \in BOOLEAN
          /\ calls[c].bundle # None => \A source \in Sources :
                /\ calls[c].bundle.sources[source].status \in Statuses
                /\ calls[c].bundle.sources[source].limitations \subseteq Limitations
          /\ calls[c].told \in RuntimeStatuses \union {None}
          /\ calls[c].reasoning \in ReasoningStatuses \union {None}
          /\ calls[c].assessment \in Assessments \union {None}
    /\ jobs \in [Callers -> Job \union {None}]
    /\ pending \subseteq Callers
    /\ server \in {"serving", "closing", "closed"}

Asked(pc, explain) ==
    [pc |-> pc, explain |-> explain, runtime |-> None, bundle |-> None,
     report |-> None, told |-> None, reasoning |-> None, assessment |-> None]

RcaInit ==
    /\ run = [status |-> "running", tools |-> 1, requested |-> None, decided |-> None]
    /\ calls = [c \in Callers |-> Asked("idle", FALSE)]
    /\ jobs = [c \in Callers |-> None]
    /\ pending = {}
    /\ server = "serving"
    /\ time = 0
-----------------------------------------------------------------------------
(* The run goes on, whoever looks.  Nothing ends a wait for a decision.    *)
RunGoesOn(ticks) ==
    \/ /\ ticks = 0 /\ run.status = "running" /\ run.tools < MaxTools
       /\ run' = [run EXCEPT !.tools = @ + 1]
    \/ /\ ticks = 0 /\ run.status = "running" /\ run.requested = None
       /\ run' = [run EXCEPT !.status = "waiting_for_approval", !.requested = time]
    \/ /\ ticks \in Waits /\ run.status = "waiting_for_approval"
       /\ run' = [run EXCEPT !.status = "running", !.decided = time + ticks]
    \/ /\ ticks = 0 /\ run.status = "running"
       /\ \E status \in {"success", "failed"} : run' = [run EXCEPT !.status = status]

RunContinues ==
    /\ \E ticks \in Waits \union {0} : RunGoesOn(ticks) /\ time' = time + ticks + 1
    /\ UNCHANGED <<calls, jobs, pending, server>>
-----------------------------------------------------------------------------
(* analyze_run.                                                            *)

At(c, pc) == calls[c].pc = pc

Sets(c, call) == calls' = [calls EXCEPT ![c] = call]

Raises(c, pc) == Sets(c, Asked(pc, calls[c].explain))

(* _inspection: of the run as it is now, by who may see it.                *)
IsAccessible(c) == RunClassification <= Clearance[c]

Asks(c, explain) ==
    /\ server = "serving"
    /\ At(c, "idle")
    /\ Sets(c, IF IsAccessible(c)
               THEN [Asked("listing", explain) EXCEPT
                        !.runtime = [status |-> run.status, requested |-> run.requested,
                                     decided |-> run.decided]]
               ELSE Asked("refused", explain))
    /\ UNCHANGED <<run, jobs, pending, server, time>>

(* The run store fails: nothing shows that the caller may see the run.     *)
StoreFails(c) ==
    /\ At(c, "listing")
    /\ Raises(c, "refused")
    /\ UNCHANGED <<run, jobs, pending, server, time>>

(* The tools are read by an inspection of their own, then each source is   *)
(* collected.                                                              *)
Evidence(c, offer) ==
    Collect(calls[c].runtime, [i \in 1 .. run.tools |-> "tool"],
            TraceObservation(GetRunTrace(offer.tempo)),
            GetTraceLogs(offer.loki, offer.tempo.spans),
            GetTraceMetrics(offer.prometheus, offer.tempo.spans),
            IF offer.langfuse = None THEN None ELSE GetTraceLlmEvidence(offer.langfuse))

(* The analysis raises: its caller is told nothing of the run.             *)
CannotReport(c, bundle) ==
    Sets(c, [Asked("raised", calls[c].explain) EXCEPT !.bundle = bundle])

(* The report is made of what they delivered, if that can be made of it    *)
(* and its validators take it.                                             *)
Collects(c, offer) ==
    /\ At(c, "listing")
    /\ IF ~ IsAccessible(c) THEN Raises(c, "refused")
       ELSE LET bundle == Evidence(c, offer)
                report == Report(bundle)
            IN IF IsAccepted(report, bundle)
               THEN Sets(c, [calls[c] EXCEPT !.pc = "reported",
                        !.bundle = bundle, !.report = report, !.told = bundle.runtime.status])
               ELSE CannotReport(c, bundle)
    /\ UNCHANGED <<run, jobs, pending, server, time>>

(* RcaReasoningResult: the report is projected with it, and is gone.       *)
Answered(c, reasoning, assessment) ==
    Sets(c, [Asked("answered", calls[c].explain) EXCEPT !.told = calls[c].told,
                !.reasoning = reasoning, !.assessment = assessment])

ReportsAlone(c) ==
    /\ At(c, "reported")
    /\ ~ calls[c].explain
    /\ Answered(c, "not_requested", None)
    /\ UNCHANGED <<run, jobs, pending, server, time>>
-----------------------------------------------------------------------------
(* _ReasoningWorkers.                                                      *)

IsAdmitted == server = "serving" /\ Cardinality(pending) < Capacity

(* Admission precedes queueing: who finds no room is told so at once.      *)
Explains(c) ==
    /\ At(c, "reported")
    /\ calls[c].explain
    /\ IF IsAdmitted
       THEN /\ jobs' = [jobs EXCEPT ![c] =
                  [pc |-> "resolving", failed |-> calls[c].told = "failed"]]
            /\ pending' = pending \union {c}
            /\ Sets(c, [Asked("waiting", TRUE) EXCEPT !.told = calls[c].told])
       ELSE /\ Answered(c, "unavailable", None)
            /\ UNCHANGED <<jobs, pending>>
    /\ UNCHANGED <<run, server, time>>

(* A fault: who stops waiting gives back the room of the job.              *)
GivesBackRoom(c) ==
    /\ At(c, "waiting")
    /\ Answered(c, "unavailable", None)
    /\ pending' = pending \ {c}
    /\ UNCHANGED <<run, jobs, server, time>>

(* The caller waited long enough; its job goes on, and keeps its room.     *)
StopsWaiting(c) ==
    /\ At(c, "waiting")
    /\ Answered(c, "unavailable", None)
    /\ UNCHANGED <<run, jobs, pending, server, time>>

(* The request is cancelled.                                               *)
IsCancelled(c) ==
    /\ calls[c].pc \in {"listing", "reported", "waiting"}
    /\ Raises(c, "refused")
    /\ UNCHANGED <<run, jobs, pending, server, time>>

(* The job is done, and counted no more; its caller hears of it if it is   *)
(* still there.                                                            *)
Completes(c, reasoning, assessment) ==
    /\ jobs' = [jobs EXCEPT ![c] = None]
    /\ pending' = pending \ {c}
    /\ IF At(c, "waiting") THEN Answered(c, reasoning, assessment) ELSE UNCHANGED calls
    /\ UNCHANGED <<run, server, time>>

InJob(c, pc) == jobs[c] # None /\ jobs[c].pc = pc

(* reason: the model is resolved for the classification of the run, and    *)
(* the call is checked once more by its client.                            *)
Decision ==
    Selection!ResolveModel(Assignment, RunClassification,
                           Selection!RcaReasoningCallRequirements, Keys)

IsAllowed ==
    /\ Decision.outcome = "EXECUTION_ALLOWED"
    /\ Selection!EgressChecked(RunClassification, Decision.model)
    /\ Selection!CapabilityChecked(Decision.model, FALSE, TRUE)

Resolves(c) ==
    /\ InJob(c, "resolving")
    /\ IF IsAllowed
       THEN /\ jobs' = [jobs EXCEPT ![c].pc = "calling"]
            /\ UNCHANGED <<run, calls, pending, server, time>>
       ELSE Completes(c, "not_allowed", None)

AllowedAssessments(failed) ==
    {"evidence_limited",
     IF failed THEN "failed_without_confirmed_cause" ELSE "completed_without_confirmed_cause"}

(* A fault: the assessment of the model is taken as it is.                 *)
AnyAssessment(job, output) == output.cites_findings /\ output.text = "harmless"

(* _validate_epistemic_output                                              *)
IsEpistemicallySound(job, output) ==
    /\ output.assessment \in AllowedAssessments(job.failed)
    /\ output.cites_findings
    /\ output.text = "harmless"

(* The model answers: it stops as it should or not, and says what it likes.*)
Outputs ==
    [finish : {"stop", "length"}, assessment : Assessments, cites_findings : BOOLEAN,
     text : {"harmless", "claims a cause"}]

ModelAnswers(c, output) ==
    /\ InJob(c, "calling")
    /\ IF output.finish = "stop" /\ IsEpistemicallySound(jobs[c], output)
       THEN Completes(c, "available", output.assessment)
       ELSE Completes(c, "malformed", None)

(* A fault: the deadline is the caller's, and goes with it.                *)
DeadlineWhileAwaited(c) ==
    /\ InJob(c, "calling")
    /\ At(c, "waiting")
    /\ Completes(c, "unavailable", None)

(* DeadlineHTTPTransport: no request outlasts its deadline, whether its    *)
(* caller still waits or not.  A provider that fails looks the same.       *)
DeadlineExpires(c) ==
    /\ InJob(c, "calling")
    /\ Completes(c, "unavailable", None)
-----------------------------------------------------------------------------
(* The lifespan ends: no job is admitted any more, the provider is closed  *)
(* when none is counted.                                                   *)
Closes ==
    /\ server = "serving"
    /\ server' = "closing"
    /\ UNCHANGED <<run, calls, jobs, pending, time>>

ClosesProvider ==
    /\ server = "closing"
    /\ pending = {}
    /\ server' = "closed"
    /\ UNCHANGED <<run, calls, jobs, pending, time>>

RcaNext ==
    \/ RunContinues
    \/ \E c \in Callers :
          \/ \E explain \in Requests[c] : Asks(c, explain)
          \/ StoreFails(c)
          \/ \E offer \in Offers[c] : Collects(c, offer)
          \/ ReportsAlone(c)
          \/ Explains(c)
          \/ StopsWaiting(c)
          \/ IsCancelled(c)
          \/ Resolves(c)
          \/ \E output \in Outputs : ModelAnswers(c, output)
          \/ DeadlineExpires(c)
    \/ Closes
    \/ ClosesProvider

(* A worker that holds a job goes on with it, its deadline comes, and the  *)
(* lifespan ends when it may.  A model need not answer, nobody need ask.   *)
RcaFairness ==
    /\ \A c \in Callers : WF_rcaVars(Resolves(c)) /\ WF_rcaVars(DeadlineExpires(c))
    /\ WF_rcaVars(ClosesProvider)

RcaSpec == RcaInit /\ [][RcaNext]_rcaVars /\ RcaFairness
-----------------------------------------------------------------------------
(* Evidence such as a run has whose spans and whose wait for a decision    *)
(* took a day at most: every span speaks in words of the form asked for,   *)
(* and the generations name both their provider and their model, or none   *)
(* does, in a list short enough for a statement.                           *)
IsOrdinary(bundle) ==
    /\ \A s \in Spans(bundle) : s.form = "safe" /\ Duration(s) <= MaxDuration
    /\ None \notin {bundle.runtime.requested, bundle.runtime.decided} =>
          bundle.runtime.decided - bundle.runtime.requested <= MaxDuration
    /\ LET pairs == ModelPairs(bundle)
       IN /\ pairs # {} => ListedLength(pairs) <= MaxStatement
          /\ \A i \in {1, 2} : (\E p \in pairs : p[i] = None) => \A p \in pairs : p[i] = None

(* ADR-017: "A partial RCA is a successful supported result".  Whatever    *)
(* the sources deliver or fail with, however they were cut, and whatever   *)
(* the run does between the two inspections of it, ordinary evidence is    *)
(* reported: its references are within their three digits, its findings    *)
(* cite some of it and not too much, and the status of the report agrees   *)
(* with what is missing.  Of other evidence this does not hold: an         *)
(* approval may wait for its decision as long as it likes, and an analysis *)
(* made after more than a day of waiting is an error.                      *)
OrdinaryEvidenceIsReported ==
    \A c \in Callers : At(c, "raised") => ~ IsOrdinary(calls[c].bundle)

(* ADR-017: "Each interval is owned at most once": what the components are *)
(* said to have taken of a run is, tick by tick, the time the first of the *)
(* categories was active in its execution, and never sums to more than it. *)
TimeIsOwnedOnce ==
    \A c \in Callers : At(c, "reported") /\ calls[c].report.durations # None =>
        LET bundle == calls[c].bundle
            owned == calls[c].report.durations
            is_active(k, t) ==
                \/ \E s \in Spans(bundle) :
                      CategoryOf(s.operation) = Priority[k] /\ s.start <= t /\ t < s.end
                \/ /\ Priority[k] = "approval"
                   /\ \E i \in ApprovalTiming(bundle.runtime) : i[1] <= t /\ t < i[2]
        IN \E root \in Spans(bundle) :
              /\ root = RunRoot(bundle)
              /\ \A k \in 1 .. 5 :
                    owned[Priority[k]] =
                        Cardinality({t \in root.start .. root.end - 1 :
                            is_active(k, t) /\ \A j \in 1 .. k - 1 : ~ is_active(j, t)})
              /\ SumFunction(owned) <= Duration(root)

(* An explanation has a worker of its own from its admission to its end,   *)
(* also when nobody waits for it, and a provider that is open.             *)
JobsAreAccommodated ==
    LET unfinished == {c \in Callers : jobs[c] # None}
    IN /\ Cardinality(unfinished) <= Capacity
       /\ server = "closed" => unfinished = {}

(* What a caller is told of a run by the model does not contradict what    *)
(* the run store told it in the same answer.                               *)
ExplanationsAgree ==
    \A c \in Callers : calls[c].assessment # None =>
        calls[c].assessment \in AllowedAssessments(calls[c].told = "failed")

(* Shutdown ends, also when a provider never answers and its caller is     *)
(* long gone.                                                              *)
ShutdownEnds == server = "closing" ~> server = "closed"
=============================================================================
