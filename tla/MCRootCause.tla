---------------------------- MODULE MCRootCause ----------------------------
(* One caller who may be offered anything by the backends, or two who are  *)
(* offered the same and share the worker that explains.  The longest       *)
(* duration of evidence is four ticks, a statement has room for two short  *)
(* labels.                                                                 *)
EXTENDS RcaServer

CONSTANTS c1, c2, c3

MCClearance == [c \in Callers |-> 2]

MCRequests == [c \in Callers |-> IF c = c1 THEN BOOLEAN ELSE {TRUE}]

Span(id, parent, operation, service, start, end, status) ==
    [id |-> id, parent |-> parent, operation |-> operation, service |-> service,
     of_run |-> operation = "agent.run",
     model |-> IF operation = "llm.call" THEN "fast" ELSE None,
     provider |-> IF operation = "llm.call" THEN "mistral" ELSE None,
     start |-> start, end |-> end, status |-> status, form |-> "safe"]

Root == Span(1, 9, "agent.run", "industrial-ai-agent", 1, 5, "ok")

Pool ==
    {Span(2, 1, "llm.call", "industrial-ai-agent", 1, 3, "ok"),
     Span(3, 1, "mcp.tool", "industrial-ai-agent", 2, 6, "error"),
     Span(4, 3, "retrieval.search", "knowledge-mcp", 3, 4, "error"),
     Span(5, 1, "persistence.run_store", "industrial-ai-agent", 0, 2, "ok"),
     Span(6, 7, "model.decision", "industrial-ai-agent", 2, 2, "ok"),
     Span(7, 6, "mcp.tool", "hardware-mcp", 4, 5, "ok")}

Tempo(search, found, fetch, spans) ==
    [search |-> search, found |-> found, fetch |-> fetch, spans |-> spans]

Traces == {{Root} \union others : others \in {S \in SUBSET Pool : Cardinality(S) = 2}}

SomeTrace == {Root, Span(2, 1, "llm.call", "industrial-ai-agent", 1, 3, "ok")}

(* Spans that cannot be evidence: too long, or in words of another form.   *)
OddSpans ==
    {Span(8, 1, "mcp.tool", "industrial-ai-agent", 1, 6, "ok")}
      \union {[Span(8, 1, operation, "industrial-ai-agent", 1, 5, "error") EXCEPT !.form = form] :
                 operation \in {"mcp.tool", "model.decision"},
                 form \in {"unsafe attribute", "unsafe code"}}

OddTempoOffers == {Tempo("ok", 1, "ok", {Root, odd}) : odd \in OddSpans}

TempoOffers ==
    {Tempo("ok", 1, "ok", trace) : trace \in Traces \union {Pool}}
      \union {Tempo(search, 1, "ok", SomeTrace) : search \in HttpReplies}
      \union {Tempo("ok", found, "ok", SomeTrace) : found \in {0, 2}}
      \union {Tempo("ok", 1, fetch, SomeTrace) : fetch \in HttpReplies}

Loki(fetch, http, events) == [fetch |-> fetch, http |-> http, events |-> events]

LokiOffers == {Loki("ok", "ok", 5), Loki("ok", "ok", 0), Loki("unreachable", "ok", 1)}

Prometheus(http, finite, points) ==
    [fetch |-> "ok", http |-> http, finite |-> finite, points |-> points]

PrometheusOffers == {Prometheus("ok", FALSE, 2), Prometheus("rejected", TRUE, 0)}

ARow(of_trace, generation) == [of_trace |-> of_trace, generation |-> generation]

Known(start, provider, model, tokens, cost) ==
    [start |-> start, end |-> start + 1, provider |-> provider, model |-> model,
     tokens |-> tokens, cost |-> cost]

Named(provider, model) == ARow(TRUE, Known(2, provider, model, 1, "none"))

Langfuse(http, rows, more) == [http |-> http, rows |-> rows, more |-> more]

LangfuseOffers ==
    {None, Langfuse("denied", <<>>, FALSE), Langfuse("shapeless", <<>>, FALSE),
     Langfuse("ok", <<>>, TRUE),
     Langfuse("ok", <<ARow(TRUE, Known(2, "mistral", "fast", 3, "observed"))>>, TRUE),
     Langfuse("ok", <<ARow(TRUE, Known(8, None, None, 0, "configured")), ARow(FALSE, None)>>, FALSE),
     Langfuse("ok", <<Named("mistral", "fast"), Named("mistral", "large")>>, FALSE),
     Langfuse("ok", <<Named(None, "large"), Named(None, "fast")>>, FALSE),
     Langfuse("ok", <<Named("mistral", "fast"),
                      ARow(TRUE, [Known(2, None, "fast", 1, "none") EXCEPT !.end = 7])>>, FALSE),
     Langfuse("ok", <<ARow(TRUE, None)>>, FALSE)}

(* Some generations name a provider, or a model, and some do not; or they  *)
(* name more than the statement can tell.                                  *)
OddLangfuseOffers ==
    {Langfuse("ok", <<Named("mistral", "fast"), second>>, FALSE) :
        second \in {Named(None, "fast"), Named("mistral", None), Named("mistral", "fast_and_large_and_whatever_it_is_called")}}

Offer(tempo, loki, prometheus, langfuse) ==
    [tempo |-> tempo, loki |-> loki, prometheus |-> prometheus, langfuse |-> langfuse]

SomeTempo == Tempo("ok", 1, "ok", SomeTrace)

OneOffer == Offer(SomeTempo, Loki("ok", "ok", 5), Prometheus("ok", TRUE, 2), None)

(* Every trace with every page of generations, and every failure of the    *)
(* other sources.                                                          *)
OffersOf(tempo, langfuse) ==
    {Offer(t, Loki("ok", "ok", 5), Prometheus("ok", TRUE, 2), f) : t \in tempo, f \in langfuse}
      \union {Offer(SomeTempo, l, Prometheus("ok", TRUE, 2), None) : l \in LokiOffers}
      \union {Offer(SomeTempo, Loki("ok", "ok", 0), p, None) : p \in PrometheusOffers}

MCOffers ==
    [c \in Callers |-> IF c = c1 THEN OffersOf(TempoOffers \union OddTempoOffers,
                                             LangfuseOffers \union OddLangfuseOffers)
                      ELSE {OneOffer}]

(* At once, after as long as evidence may tell of, and after longer.       *)
MCWaits == {0, MaxDuration - 1, MaxDuration}

MCCatalog ==
    [local_quality |-> [zone |-> "LOCAL", max |-> 3, incompatible |-> {}, quality |-> "HIGH",
                        capabilities |-> {"TEXT", "TOOL_CALLING", "STRUCTURED_OUTPUT"},
                        cost |-> "LOW", needs_key |-> FALSE, order |-> 2],
     mistral_fast |-> [zone |-> "PUBLIC_CLOUD", max |-> 2, incompatible |-> {},
                       quality |-> "STANDARD", capabilities |-> {"TEXT", "TOOL_CALLING"},
                       cost |-> "LOW", needs_key |-> TRUE, order |-> 3]]

MCAssignment == [mode |-> "AUTO", model |-> None, policy |-> "COST_FIRST"]

(* The one is gone, refused, when the others come, and they when it comes. *)
MCInit ==
    \E present \in {{c1}, {c2, c3}} :
        /\ run = [status |-> "running", tools |-> IF c1 \in present THEN 1 ELSE MaxTools,
                  requested |-> None, decided |-> None]
        /\ calls = [c \in Callers |-> Asked(IF c \in present THEN "idle" ELSE "refused", FALSE)]
        /\ jobs = [c \in Callers |-> None]
        /\ pending = {} /\ server = "serving" /\ time = 0

MCSpec == MCInit /\ [][RcaNext]_rcaVars /\ RcaFairness
=============================================================================
