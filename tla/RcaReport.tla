----------------------------- MODULE RcaReport -----------------------------
(***************************************************************************)
(* The deterministic root-cause analysis: the bundle of evidence that is   *)
(* made of what the sources delivered, the findings it supports, the       *)
(* report, and what its construction and the validators of bundle,         *)
(* findings and report insist on: of the form of words, what TraceEvidence *)
(* tells apart, and the length of a statement.  Pure operators, no state.  *)
(*                                                                         *)
(* application/rca.py, application/rca_evidence.py and                     *)
(* application/rca_analysis.py                                             *)
(***************************************************************************)
EXTENDS TraceEvidence

CONSTANT MaxStatement     \* max_length of BoundedText

Sources == {"runtime", "tempo", "loki", "prometheus", "langfuse"}

RuntimeStatuses == {"running", "waiting_for_approval", "success", "limit_reached", "failed"}

Limitations ==
    {"backend_unavailable", "data_not_recorded", "response_malformed", "access_not_authorized",
     "source_not_applicable", "trace_incomplete", "no_performance_baseline",
     "observation_limit_reached", "correlation_mismatch"}

FindingKinds == {"observed", "derived", "hypothesis", "confirmed_run_cause"}

Components == {"retrieval", "llm", "persistence", "approval", "mcp"}

(* RuntimeRcaEvidencePort: what the run store tells of the run.            *)
RuntimeObservation ==
    [status    : RuntimeStatuses,
     requested : Nat \union {None},
     decided   : Nat \union {None}]
-----------------------------------------------------------------------------
(* How a source is accounted for.                                          *)

SourceAvailability(status, limitations) == [status |-> status, limitations |-> limitations]

NotApplicable == SourceAvailability("not_applicable", {"source_not_applicable"})

LimitationOf(status) ==
    CASE status = "unavailable" -> {"backend_unavailable"}
      [] status = "missing" -> {"data_not_recorded"}
      [] status = "not_authorized" -> {"access_not_authorized"}
      [] status = "malformed" -> {"response_malformed"}
      [] OTHER -> {}

(* A source that answered is available only if there is something in it.   *)
Availability(status, is_empty, limitations) ==
    LET known == IF status = "available" /\ is_empty THEN "missing" ELSE status
    IN SourceAvailability(known,
          IF known = "available" THEN limitations ELSE LimitationOf(known))

(* A fault: a page of generations that was cut is taken for all of them.   *)
CutPageIsWhole(llm) ==
    IF llm = None THEN NotApplicable
    ELSE Availability(llm.status, llm.generations = <<>>, {})

LangfuseAvailability(llm) ==
    IF llm = None THEN NotApplicable
    ELSE Availability(llm.status, llm.generations = <<>>,
                      IF llm.truncated THEN {"observation_limit_reached"} ELSE {})

(* RcaEvidenceCollector.collect, once the runtime gate is passed.  Without *)
(* a trace nothing is asked of the others; "llm" is None where Langfuse is *)
(* not configured.                                                         *)
Collect(runtime, tools, tempo, logs, metrics, llm) ==
    LET has_trace == tempo.status = "available"
        asked == has_trace /\ llm # None
    IN [runtime     |-> runtime,
        tools       |-> tools,
        has_trace   |-> has_trace,
        spans       |-> tempo.spans,
        truncated   |-> has_trace /\ tempo.truncated,
        logs        |-> IF has_trace THEN logs.events ELSE 0,
        metrics     |-> IF has_trace THEN metrics.points ELSE 0,
        generations |-> IF asked THEN llm.generations ELSE <<>>,
        consistent  |-> IF asked /\ llm.status = "available" THEN llm.consistent ELSE None,
        llm_truncated |-> asked /\ llm.truncated,
        sources     |->
            [runtime |-> SourceAvailability("available", {}),
             tempo |-> Availability(tempo.status, tempo.spans = <<>>,
                                    IF tempo.truncated THEN {"trace_incomplete"} ELSE {}),
             loki |-> IF has_trace THEN Availability(logs.status, logs.events = 0, {})
                      ELSE NotApplicable,
             prometheus |-> IF has_trace THEN Availability(metrics.status, metrics.points = 0, {})
                            ELSE NotApplicable,
             langfuse |-> IF has_trace THEN LangfuseAvailability(llm) ELSE NotApplicable]]

Spans(bundle) == ToSet(bundle.spans)

SpansOf(bundle, operations) == {s \in Spans(bundle) : s.operation \in operations}

IsAvailable(bundle, source) == bundle.sources[source].status = "available"

(* Measurements of the generations are numbered through the list they are  *)
(* put into, whatever they measure.                                        *)
LlmMeasurements(generations) ==
    LET of(g) == [i \in 1 .. g.tokens |-> "USAGE"]
                 \o (CASE g.cost = "observed" -> <<"COST">>
                       [] g.cost = "configured" -> <<"CONFIG">>
                       [] OTHER -> <<>>)
    IN IF generations = <<>> THEN <<>>
       ELSE FoldLeft(LAMBDA measured, g : measured \o of(g), <<"GENERATION">>, generations)

TimingOperations ==
    RetrievalOperations \union
    {"llm.call", "mcp.discovery", "mcp.tool", "factory.tool", "knowledge.search",
     "persistence.run_store", "approval.wait"}

ApprovalTiming(runtime) ==
    IF None \in {runtime.requested, runtime.decided} THEN {}
    ELSE IF runtime.decided < runtime.requested THEN {}
    ELSE {<<runtime.requested, runtime.decided>>}

(* Every reference of the bundle, by kind and number: each kind is         *)
(* numbered by one count of its own, the measurements by their place, so   *)
(* that no two items share one.  The second of the approval is its timing. *)
References(bundle) ==
    LET measured == LlmMeasurements(bundle.generations)
        numbered(kind, n) == {<<kind, i>> : i \in 1 .. n}
    IN UNION {numbered("SOURCE", 5), numbered("RUNTIME", 1), 
              numbered("APPROVAL", IF ApprovalTiming(bundle.runtime) = {} THEN 1 ELSE 2),
              numbered("TRACE", Len(bundle.spans)), numbered("MCP", Len(bundle.tools)),
              numbered("RETRIEVAL", Cardinality(SpansOf(bundle, RetrievalOperations))),
              numbered("LOG", bundle.logs), numbered("METRIC", bundle.metrics),
              numbered("LLM", Len(bundle.generations)),
              {<<measured[i], i>> : i \in DOMAIN measured},
              numbered("MEASUREMENT",
                       IF SpansOf(bundle, {"agent.run"}) = {} THEN 0 ELSE 1),
              numbered("FAILURE", Cardinality({s \in Spans(bundle) : s.status = "error"})),
              numbered("PERSISTENCE",
                       Cardinality(SpansOf(bundle, {"persistence.run_store"}))),
              numbered("TIMING", Cardinality(SpansOf(bundle, TimingOperations)))}

(* A reference is read with three digits.                                  *)
IsReferenced(reference) == reference[2] \in 1 .. 999

(* RcaTraceSpanEvidence: a span of a day at most, in words of the form     *)
(* asked for.  Its stage, timing and failure take over what it says.       *)
IsSpanEvidence(span) ==
    /\ Duration(span) <= MaxDuration
    /\ span.form = "safe"

(* RcaEvidenceBundle and what is in it, as they are validated: the sources,*)
(* the references, the spans, the generations, the approval and its timing.*)
IsBundle(bundle) ==
    /\ DOMAIN bundle.sources = Sources
    /\ \A reference \in References(bundle) : IsReferenced(reference)
    /\ \A span \in Spans(bundle) : IsSpanEvidence(span)
    /\ \A i \in DOMAIN bundle.generations : Duration(bundle.generations[i]) \in 0 .. MaxDuration
    /\ None \notin {bundle.runtime.requested, bundle.runtime.decided} =>
          bundle.runtime.requested <= bundle.runtime.decided
    /\ \A wait \in ApprovalTiming(bundle.runtime) : wait[2] - wait[1] <= MaxDuration
-----------------------------------------------------------------------------
(* Time: who owned which part of the run.                                  *)

(* The longest execution of the trace; of equally long ones the first.     *)
RunRoot(bundle) ==
    LET roots == {i \in DOMAIN bundle.spans : bundle.spans[i].operation = "agent.run"}
    IN IF roots = {} THEN None
       ELSE bundle.spans[CHOOSE i \in roots :
                \A j \in roots : \/ Duration(bundle.spans[i]) > Duration(bundle.spans[j])
                                 \/ /\ Duration(bundle.spans[i]) = Duration(bundle.spans[j])
                                    /\ i <= j]

CategoryOf(operation) ==
    CASE operation = "llm.call" -> "llm"
      [] operation \in RetrievalOperations -> "retrieval"
      [] operation = "persistence.run_store" -> "persistence"
      [] operation = "approval.wait" -> "approval"
      [] operation \in {"mcp.discovery", "mcp.tool", "factory.tool", "knowledge.search"} -> "mcp"
      [] OTHER -> None

Priority == <<"retrieval", "llm", "persistence", "approval", "mcp">>

Within(interval, root) ==
    <<IF interval[1] < root.start THEN root.start ELSE interval[1],
      IF interval[2] > root.end THEN root.end ELSE interval[2]>>

(* A fault: an interval counts beyond the execution it belongs to.         *)
UnclippedIntervals(bundle, root, component) ==
    {<<s.start, s.end>> : s \in {t \in Spans(bundle) : CategoryOf(t.operation) = component}}
      \union (IF component = "approval" THEN ApprovalTiming(bundle.runtime) ELSE {})

(* The time of a category that falls into the execution.                   *)
Intervals(bundle, root, component) ==
    LET times == {<<s.start, s.end>> : s \in
                      {t \in Spans(bundle) : CategoryOf(t.operation) = component}}
                 \union (IF component = "approval" THEN ApprovalTiming(bundle.runtime) ELSE {})
    IN {i \in {Within(time, root) : time \in times} : i[1] < i[2]}

(* _category_owned_durations: between two boundaries nothing begins or     *)
(* ends, and each such piece is owned by the first category that covers it.*)
OwnedDurations(bundle, root) ==
    LET covers == [c \in Components |-> Intervals(bundle, root, c)]
        boundaries == {root.start, root.end}
            \union UNION {{i[1], i[2]} : i \in UNION {covers[c] : c \in Components}}
        next(t) == CHOOSE u \in boundaries :
                      t < u /\ \A v \in boundaries : t < v => u <= v
        pieces == {<<t, next(t)>> : t \in {u \in boundaries : u < root.end}}
        owns(k, piece) == \E i \in covers[Priority[k]] : i[1] <= piece[1] /\ piece[2] <= i[2]
        owned(k) == {piece \in pieces : owns(k, piece) /\ \A j \in 1 .. k - 1 : ~ owns(j, piece)}
        total(k) == SumFunction([piece \in owned(k) |-> piece[2] - piece[1]])
    IN [c \in Components |-> total(CHOOSE k \in 1 .. 5 : Priority[k] = c)]
-----------------------------------------------------------------------------
(* DefaultDeterministicRcaAnalyzer: nothing but what was observed and what *)
(* follows from it.                                                        *)

(* "named": the models a finding lists in its statement, if it does.       *)
Finding(category, kind, references, limitations) ==
    [category |-> category, kind |-> kind, references |-> references,
     limitations |-> limitations, named |-> {}]

SourceReference(source) ==
    <<"SOURCE", CASE source = "runtime" -> 1 [] source = "tempo" -> 2 [] source = "loki" -> 3
                  [] source = "prometheus" -> 4 [] OTHER -> 5>>

RuntimeFindings(bundle) ==
    IF bundle.runtime.status = "failed"
    THEN {Finding("run_lifecycle", "observed", {<<"RUNTIME", 1>>}, {})} ELSE {}

FailedSpans(bundle) == {i \in DOMAIN bundle.spans : bundle.spans[i].status = "error"}

SpanFindings(bundle) ==
    {Finding("failure", "observed", {<<"TRACE", i>>}, {}) : i \in FailedSpans(bundle)}

(* A failed span at a boundary is a finding about the boundary as well.    *)
BoundaryFindings(bundle) ==
    LET failed(operations) == {i \in FailedSpans(bundle) : bundle.spans[i].operation \in operations}
    IN {Finding("mcp", "derived", {<<"TRACE", i>>}, {}) : i \in failed({"mcp.discovery", "mcp.tool"})}
         \union {Finding("retrieval", "derived", {<<"TRACE", i>>}, {}) : i \in failed(RetrievalOperations)}

RepeatedToolFindings(bundle) ==
    LET calls(tool) == {i \in DOMAIN bundle.tools : bundle.tools[i] = tool}
    IN {Finding("mcp", "derived", {<<"MCP", i>> : i \in calls(tool)}, {}) :
           tool \in {t \in ToSet(bundle.tools) : Cardinality(calls(t)) > 1}}

SourceFindings(bundle) ==
    {Finding("telemetry", "observed", {SourceReference(source)}, bundle.sources[source].limitations) :
        source \in {s \in Sources : bundle.sources[s].status \in
                                      {"missing", "unavailable", "malformed", "not_authorized"}}}

First20(n) == 1 .. IF n > 20 THEN 20 ELSE n

(* The providers and models the generations name, where they name one.     *)
ModelPairs(bundle) ==
    {<<g.provider, g.model>> : g \in ToSet(bundle.generations)} \ {<<None, None>>}

(* They are sorted: a name cannot be compared with None.                   *)
IsSortable(pairs) ==
    \A p, q \in pairs :
        /\ p[1] = None <=> q[1] = None
        /\ p[1] = q[1] => (p[2] = None <=> q[2] = None)

(* What they come to in the statement that lists them.                     *)
ListedLength(pairs) ==
    LET words(name, otherwise) == IF name = None THEN otherwise ELSE name
        label(p) == Len(words(p[1], "unknown provider")) + Len(" / ")
                      + Len(words(p[2], "unknown model"))
    IN Len("Langfuse recorded model/provider metadata: .")
         + MapThenSumSet(label, pairs) + Len(", ") * (Cardinality(pairs) - 1)

LlmFindings(bundle) ==
    LET measured == ToSet(LlmMeasurements(bundle.generations))
        generations == {<<"LLM", i>> : i \in First20(Len(bundle.generations))}
        langfuse == {SourceReference("langfuse")}
    IN IF ~ IsAvailable(bundle, "langfuse") \/ bundle.generations = <<>> THEN {}
       ELSE {Finding("llm", "observed", generations, {})}
              \union {[Finding("llm", "observed", generations, {}) EXCEPT !.named = pairs] :
                         pairs \in {ModelPairs(bundle)} \ {{}}}
              \union {Finding("token_usage", "observed", langfuse, {}) : m \in measured \intersect {"USAGE"}}
              \union {Finding("cost", "observed", langfuse, {}) : m \in measured \intersect {"COST"}}

(* Each generation of Langfuse overlaps some model call of Tempo.          *)
IsTimingPlausible(bundle) ==
    \A i \in DOMAIN bundle.generations :
        \E s \in SpansOf(bundle, {"llm.call"}) :
            bundle.generations[i].start <= s.end /\ s.start <= bundle.generations[i].end

(* Where both name the models, or the providers, they name the same ones.  *)
ModelsDisagree(bundle) ==
    LET calls == SpansOf(bundle, {"llm.call"})
        generations == ToSet(bundle.generations)
        differ(called, generated) ==
            called \ {None} # {} /\ generated \ {None} # {} /\ called \ {None} # generated \ {None}
    IN \/ differ({s.model : s \in calls}, {g.model : g \in generations})
       \/ differ({s.provider : s \in calls}, {g.provider : g \in generations})

ConsistencyFindings(bundle) ==
    LET calls == Cardinality(SpansOf(bundle, {"llm.call"}))
        disagree == \/ bundle.consistent = FALSE
                    \/ calls # Len(bundle.generations)
                    \/ calls # 0 /\ ~ IsTimingPlausible(bundle)
                    \/ ModelsDisagree(bundle)
    IN IF /\ IsAvailable(bundle, "tempo")
          /\ IsAvailable(bundle, "langfuse")
          /\ disagree
       THEN {Finding("telemetry", "derived",
                     {SourceReference("tempo"), SourceReference("langfuse")},
                     {"correlation_mismatch"})}
       ELSE {}

TruncationFindings(bundle) ==
    IF bundle.truncated
    THEN {Finding("telemetry", "observed", {SourceReference("tempo")}, {"trace_incomplete"})}
    ELSE {}

(* Time is analyzed only of a whole trace.                                 *)
Durations(bundle) ==
    LET root == RunRoot(bundle)
    IN IF bundle.truncated \/ ~ IsAvailable(bundle, "tempo") \/ root = None THEN None
       ELSE IF Duration(root) = 0 THEN None
       ELSE OwnedDurations(bundle, root)

(* A finding for each category that owned some of it.                      *)
TimingFindings(bundle) ==
    LET owned == Durations(bundle)
        run == RunRoot(bundle)
        root == CHOOSE i \in DOMAIN bundle.spans : bundle.spans[i] = run
    IN IF owned = None THEN {}
       ELSE {Finding("latency", "derived", {<<"TRACE", root>>}, {}) :
                c \in {d \in Components : owned[d] > 0}}

Analyze(bundle) ==
    UNION {RuntimeFindings(bundle), SpanFindings(bundle), BoundaryFindings(bundle),
           RepeatedToolFindings(bundle), SourceFindings(bundle), LlmFindings(bundle),
           ConsistencyFindings(bundle), TruncationFindings(bundle), TimingFindings(bundle)}

(* RcaFinding: some evidence, and no more of it than can be shown.  Only   *)
(* the statement that lists models has no bound of its own.                *)
IsFinding(finding) ==
    /\ finding.kind \in FindingKinds
    /\ Cardinality(finding.references) \in 1 .. 20
    /\ finding.limitations \subseteq Limitations
    /\ finding.named # {} => ListedLength(finding.named) <= MaxStatement
-----------------------------------------------------------------------------
(* RcaAnalysisService: the report.                                         *)

SourcesIn(bundle, statuses) == {s \in Sources : bundle.sources[s].status \in statuses}

Incomplete(bundle) == Sources \ SourcesIn(bundle, {"available", "not_applicable"})

IsInsufficient(bundle) ==
    /\ bundle.sources["tempo"].status = "missing"
    /\ bundle.spans = <<>>
    /\ bundle.tools = <<>>
    /\ bundle.runtime.status # "failed"

AnalysisStatus(bundle) ==
    IF IsInsufficient(bundle) THEN "insufficient_evidence"
    ELSE IF Incomplete(bundle) # {} \/ bundle.truncated \/ bundle.llm_truncated THEN "partial"
    ELSE "complete"

OverallLimitations(bundle) ==
    (UNION {bundle.sources[s].limitations : s \in Sources})
      \union {"no_performance_baseline"}
      \union (IF bundle.truncated THEN {"trace_incomplete"} ELSE {})

Report(bundle) ==
    [status |-> AnalysisStatus(bundle),
     findings |-> Analyze(bundle),
     durations |-> Durations(bundle),
     limitations |-> OverallLimitations(bundle),
     incomplete |-> Incomplete(bundle)]

(* RcaAnalysisReport.validate_report: findings cite what is in the bundle, *)
(* and the status agrees with what is missing.                             *)
IsReport(report, bundle) ==
    LET has_incomplete == \/ report.incomplete # {}
                          \/ {"trace_incomplete", "observation_limit_reached"}
                                \intersect report.limitations # {}
        known == References(bundle)
    IN /\ \A finding \in report.findings : finding.references \subseteq known
       /\ report.status = "complete" => report.incomplete = {}
       /\ report.status \in {"partial", "insufficient_evidence"} => has_incomplete

(* Nothing in the analysis raises.                                         *)
IsAccepted(report, bundle) ==
    /\ IsBundle(bundle)
    /\ IsSortable(ModelPairs(bundle))
    /\ \A finding \in report.findings : IsFinding(finding)
    /\ IsReport(report, bundle)
=============================================================================
