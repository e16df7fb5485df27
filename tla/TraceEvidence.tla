--------------------------- MODULE TraceEvidence ---------------------------
(***************************************************************************)
(* What the telemetry backends are asked about a run, and what is made of  *)
(* their replies: a trace is found by the run's own execution span, put in *)
(* parent-first order and cut, its logs and metrics are read for a window  *)
(* around it, and each failure becomes a status of that source alone.      *)
(* Pure operators over replies, no state.                                  *)
(*                                                                         *)
(* infrastructure/observability_backends.py and                            *)
(* infrastructure/rca_evidence.py                                          *)
(***************************************************************************)
EXTENDS Integers, SequencesExt

CONSTANTS MaxTraceSpans,   \* MAX_TRACE_SPANS
          MaxLogEvents,    \* MAX_LOG_EVENTS
          MaxDuration,     \* the longest duration in evidence: 24 hours
          None             \* no parent, no trace, no end

(* What is shown of a trace is referred to with three digits.              *)
ASSUME EvidenceAssumption ==
    /\ MaxTraceSpans \in 1 .. 999 /\ MaxLogEvents \in 0 .. 999
    /\ MaxDuration \in Nat
    /\ None \notin Nat

(* Seven series of sixty points; the page Langfuse is asked for.           *)
MaxMetricPoints == 420
MaxObservations == 50

(* Time is counted in steps of five minutes.                               *)
TraceContextPadding   == 1
MaxTraceContextWindow == 6
MaxLookback           == 576

KnownServices ==
    {"industrial-ai-agent", "factory-mcp", "knowledge-mcp", "observability-mcp", "runtime-mcp"}

RetrievalOperations ==
    {"retrieval.search", "retrieval.embedding", "retrieval.lexical", "retrieval.semantic",
     "retrieval.fusion", "retrieval.rerank"}

RcaOperations ==
    RetrievalOperations \union
    {"agent.run", "model.routing", "llm.call", "mcp.discovery", "mcp.tool", "factory.tool",
     "knowledge.search", "approval.wait", "approval.resume", "maintenance_ticket.create",
     "persistence.run_store"}

Statuses ==
    {"available", "missing", "unavailable", "malformed", "not_authorized", "not_applicable"}

(* "model" and "provider": of a model call.  "form": whether what the span *)
(* says in words has the form evidence asks for, and if not, whether it is *)
(* the value of an attribute that has not, or the number of attributes, an *)
(* identifier or an error code.                                            *)
TempoSpan ==
    [id : Nat, parent : Nat \union {None}, operation : STRING, service : STRING,
     of_run : BOOLEAN, model : STRING \union {None}, provider : STRING \union {None},
     start : Nat, end : Nat, status : {"ok", "error", "unset"},
     form : {"safe", "unsafe attribute", "unsafe code"}]

Duration(timed) == timed.end - timed.start
-----------------------------------------------------------------------------
(* A request to a backend (_get_json).                                     *)
HttpReplies == {"unreachable", "server error", "not found", "rejected", "invalid", "ok"}

GetJson(http, not_found_is_empty) ==
    CASE http \in {"unreachable", "server error"} -> "unavailable"
      [] http = "not found" /\ ~ not_found_is_empty -> "missing"
      [] http = "ok" -> "available"
      [] OTHER -> "malformed"
-----------------------------------------------------------------------------
(* Tempo.                                                                  *)

Earlier(a, b) == a.start < b.start \/ (a.start = b.start /\ a.id < b.id)

Earliest(spans) == CHOOSE s \in spans : \A t \in spans : ~ Earlier(t, s)

InOrder(spans) ==
    MapThenFoldSet(LAMBDA s, later : <<s>> \o later, <<>>, LAMBDA s : s, Earliest, spans)

(* _parent_first_order: in rounds, each emitting the spans whose parent is *)
(* out already; a span whose parent never comes is emitted when nothing    *)
(* else is left to.                                                        *)
ParentFirstOrder(spans) ==
    LET order[pending \in SUBSET spans] ==
            LET emitted == {s.id : s \in spans \ pending}
                ready == {s \in pending : s.parent = None \/ s.parent \in emitted}
                round == IF ready # {} THEN InOrder(ready) ELSE <<Earliest(pending)>>
            IN IF pending = {} THEN <<>>
               ELSE round \o order[pending \ ToSet(round)]
    IN order[spans]

NoTrace(status) == [status |-> status, spans |-> <<>>, truncated |-> FALSE]

(* _parse_tempo_trace: one span of an unknown service spoils the trace.    *)
ParseTempoTrace(spans) ==
    LET ordered == ParentFirstOrder(spans)
        truncated == Len(ordered) > MaxTraceSpans
    IN IF \E s \in spans : s.service \notin KnownServices THEN NoTrace("malformed")
       ELSE IF spans = {} THEN NoTrace("missing")
       ELSE [status |-> "available",
             spans |-> IF truncated THEN SubSeq(ordered, 1, MaxTraceSpans) ELSE ordered,
             truncated |-> truncated]

(* get_trace                                                               *)
GetTrace(http, spans) ==
    IF GetJson(http, FALSE) # "available" THEN NoTrace(GetJson(http, FALSE))
    ELSE ParseTempoTrace(spans)

(* The trace that is fetched must show the execution of the run itself.    *)
IsExecution(span) ==
    span.operation = "agent.run" /\ span.service = "industrial-ai-agent" /\ span.of_run

(* get_run_trace.  A reply: what the search came to and how many traces it *)
(* found (two at most are asked for), and what the trace came to.          *)
GetRunTrace(reply) ==
    LET searched == GetJson(reply.search, TRUE)
        trace == GetTrace(reply.fetch, reply.spans)
    IN IF searched # "available" THEN NoTrace(searched)
       ELSE IF reply.found = 0 THEN NoTrace("missing")
       ELSE IF reply.found > 1 THEN NoTrace("malformed")
       ELSE IF trace.status # "available" THEN trace
       ELSE IF ~ \E i \in DOMAIN trace.spans : IsExecution(trace.spans[i])
       THEN NoTrace("missing")
       ELSE trace

(* The entries of a sequence that are in a set, in their order.            *)
Kept(seq, elements) ==
    FoldLeft(LAMBDA kept, e : IF e \in elements THEN Append(kept, e) ELSE kept, <<>>, seq)

(* _trace_observation: spans of other operations are left out, and one     *)
(* with an attribute that cannot be shown spoils the trace.                *)
TraceObservation(trace) ==
    LET shown == {s \in ToSet(trace.spans) : s.operation \in RcaOperations}
    IN IF \E s \in shown : s.form = "unsafe attribute" THEN NoTrace("malformed")
       ELSE [trace EXCEPT !.spans = Kept(@, shown)]
-----------------------------------------------------------------------------
(* Loki and Prometheus, for a window around the spans of the trace.  Both  *)
(* fetch the trace again, and what becomes of that is theirs to report.    *)

WindowOf(spans) ==
    LET starts == {spans[i].start : i \in DOMAIN spans}
        ends == {spans[i].end : i \in DOMAIN spans}
    IN <<(CHOOSE t \in starts : \A u \in starts : t <= u) - TraceContextPadding,
         (CHOOSE t \in ends : \A u \in ends : u <= t) + TraceContextPadding>>

IsBoundedWindow(window) ==
    window[1] < window[2] /\ window[2] - window[1] <= MaxLookback

(* get_trace_logs: only events of a few names are logs; no more are read   *)
(* than the limit, and nothing tells that there were more.                 *)
GetTraceLogs(reply, spans) ==
    LET trace == GetTrace(reply.fetch, spans)
        replied == GetJson(reply.http, FALSE)
    IN IF trace.status # "available" THEN [status |-> trace.status, events |-> 0]
       ELSE IF ~ IsBoundedWindow(WindowOf(trace.spans))
       THEN [status |-> "malformed", events |-> 0]
       ELSE IF replied # "available" THEN [status |-> replied, events |-> 0]
       ELSE [status |-> "available",
             events |-> IF reply.events > MaxLogEvents THEN MaxLogEvents ELSE reply.events]

(* trace_metric_context: a longer trace is seen from its start.            *)
MetricWindow(window) ==
    IF window[2] - window[1] > MaxTraceContextWindow
    THEN <<window[1], window[1] + MaxTraceContextWindow>> ELSE window

(* get_trace_metrics: one point that is no number (a quantile of nothing)  *)
(* spoils them all.                                                        *)
GetTraceMetrics(reply, spans) ==
    LET trace == GetTrace(reply.fetch, spans)
        replied == GetJson(reply.http, FALSE)
    IN IF trace.status # "available" THEN [status |-> trace.status, points |-> 0]
       ELSE IF ~ IsBoundedWindow(MetricWindow(WindowOf(trace.spans)))
       THEN [status |-> "malformed", points |-> 0]
       ELSE IF replied # "available" THEN [status |-> replied, points |-> 0]
       ELSE IF ~ reply.finite THEN [status |-> "malformed", points |-> 0]
       ELSE [status |-> "available", points |-> reply.points]
-----------------------------------------------------------------------------
(* Langfuse: one page of observations of the trace.                        *)
LangfuseReplies == {"denied", "unreachable", "failed", "shapeless", "ok"}

(* "tokens": how many of the three usage values were reported.             *)
Generation ==
    [start : Nat, end : Nat, model : STRING \union {None}, provider : STRING \union {None},
     tokens : 0 .. 3, cost : {"none", "configured", "observed"}]

NoGenerations(status) ==
    [status |-> status, generations |-> <<>>, consistent |-> TRUE, truncated |-> FALSE]

(* _langfuse_trace_observation: rows of another trace are counted against  *)
(* the correlation, a row that is malformed, or no generation of a day at  *)
(* most, is dropped unless all are.                                        *)
GetTraceLlmEvidence(reply) ==
    LET ours == Kept(reply.rows, {row \in ToSet(reply.rows) : row.of_trace})
        sound == Kept(ours, {row \in ToSet(ours) :
                    row.generation # None /\ Duration(row.generation) \in 0 .. MaxDuration})
    IN CASE reply.http = "denied" -> NoGenerations("not_authorized")
         [] reply.http \in {"unreachable", "failed"} -> NoGenerations("unavailable")
         [] reply.http = "shapeless" -> NoGenerations("malformed")
         [] reply.http = "ok" /\ sound = <<>> /\ ours # <<>> -> NoGenerations("malformed")
         [] OTHER -> [status |-> "available",
                      generations |-> [i \in DOMAIN sound |-> sound[i].generation],
                      consistent |-> \A i \in DOMAIN reply.rows : reply.rows[i].of_trace,
                      truncated |-> reply.more]
-----------------------------------------------------------------------------
(* What the backends deliver, whatever they fail with: a span ends after   *)
(* it started, a row is of the trace or not and may be no generation.      *)
Row == [of_trace : BOOLEAN, generation : Generation \union {None}]

IsOffer(offer) ==
    /\ IsFiniteSet(offer.tempo.spans)
    /\ \A s \in offer.tempo.spans : s \in TempoSpan /\ s.start <= s.end
    /\ offer.loki.events \in Nat
    /\ offer.prometheus.points \in 0 .. MaxMetricPoints
    /\ offer.langfuse # None =>
          offer.langfuse.rows \in Seq(Row) /\ Len(offer.langfuse.rows) <= MaxObservations
=============================================================================
