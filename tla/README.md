# Verification of the industrial AI agent

TLA+ specifications of this repository's agent, the TLC runs that check them on
small instances, and TLAPS proofs of the theorems that matter most. The code is
`src/industrial_ai_agent/` (paths below are relative to it; `docs/` and `tests/`
are the repository's). Every definition is translated from that code;
`PROJECT.json` ("map") names the lines of each.

- [1. The system](#1-the-system)
- [2. The modules and how they correspond to the code](#2-the-modules-and-how-they-correspond-to-the-code)
- [3. The runs](#3-the-runs)
- [4. What is proved](#4-what-is-proved)
- [5. Where code and documents disagree](#5-where-code-and-documents-disagree)
- [6. What is not modelled, and why](#6-what-is-not-modelled-and-why)
- [7. Where to go on](#7-where-to-go-on)

## 1. The system

A user asks about a station of a factory. A language model, driven by a LangGraph
graph with a small tool budget, reads the factory through MCP servers and answers.
Two of its tools change the factory: `create_maintenance_ticket` and
`execute_reference_calibration`. Either is only *proposed* by the model; the run
is interrupted and checkpointed, a human decides, and the MCP server that performs
the action claims the approval first.

```
 browser ──HTTP──> run API ────────────> run store <──claim── MCP servers ──> tickets
                   (app.py)              (records,           (tickets,        device
                      │                   approval            hardware,
                      v                   generations)        factory reads)
                   run service ──> agent graph ──tool calls──────^
                      │               │
                      │               ├──> model provider
                      v               v
                   model selection  checkpoints
```

The parts, with the state each keeps, what it does, and what makes it correct:

| Part | State | Operations | Hard behaviour | Correct when |
| --- | --- | --- | --- | --- |
| Run store (`infrastructure/api/run_store.py`, `postgres_run_store.py`) | a record per run, and its approval generations (proposal, decision, approver, consumed) | create, bind_execution_context, complete, fail, wait_for_approval, claim_resume, claim / look up a protected action | a lifecycle update reads a record and writes it back later; claims commit in between; a cancelled claim still commits | a generation is never rewritten; a waiting run can be decided; an approval is used once |
| Write tools (`tools/maintenance_ticket.py`, `application/hardware_recovery.py`) | the tickets, by key of run and generation | claim, write or operate, answer; retry reads the ticket | cancellation before, while and after the write; lost answers; any MCP principal may call | every effect is the approved one, at most once; what a caller is told is true |
| Run API (`infrastructure/api/app.py`, `agent/troubleshooting_run_service.py`) | requests in progress | start, resume, their timeouts and failures | no lock per run: every await interleaves with other requests; authorization on an earlier read | one request at a time writes a run; only the authorized decide; a run ends and stays ended |
| Agent graph (`agent/langgraph_troubleshooting_agent.py`) | one run's conversation: budget, evidence, recovery, pending action | model node, tool node, approval, execution, recovery branch | a model may answer or call anything at any time; three limits (tool calls, refused drafts, supersteps) | an answer is grounded; the budget holds; each run gets its verdict |
| What a run publishes (the same module, `agent/agent_run.py`) | executed calls, tool messages, the pending action, the model's drafts | collect identifiers, documents and findings; terminal results; normalize, correct, make safe; inventories | ids the model chose and reuses; calls and messages matched by position; limits on what is listed | what is referred to, found and recovered is of this run, and complete as far as the limits go |
| Evidence ledger (`domain/investigation_evidence.py`, `application/evidence_source_capabilities.py`) | observations of one station | record, satisfied / missing, eligible tools | observations in any order, about the wrong fault or station | complete means grounded; the sources never wait for each other |
| Closed-loop recovery (`application/closed_loop_recovery.py`, `infrastructure/hardware_mcp_server.py`) | the device's reference and deviation | status, prepare, execute (observe, operate, observe, verify) | the factory changes between any two steps; runs share the device | success is witnessed; a run without a calibration left none behind |
| Run policy (`agent/run_classification_policy.py`, `application/action_approval.py`) | none | profile and classification of a request; action predicate | a follow-up inherits its context, as far as its user may see it | never below what the run contains; the same predicate at proposal, decision and claim |
| Model selection (`agent/model_selection.py`, `model_egress.py`, `application/model_configuration.py`) | assignments per classification | seed, configure, resolve, check every call | reassignment between start and resume; classification rises while a run goes on | no data reaches a model that may not see it; a run keeps its model |
| Provider clients (`infrastructure/llm/`) | an adapter per run, its clients and calls | open, call, drain, close; the contract matrix | cancellation while a worker opens it or a thread is in a call | closed once, not under a call; a failure is no verdict |
| MCP sessions (`infrastructure/mcp_langchain_tool_provider.py`) | open sessions, attempts | open to each server in turn, retry, run, close | errors pass task groups, a translation and two handlers | a run is not repeated; its end is told as it was |
| Knowledge server (`infrastructure/knowledge_mcp_server.py`, `*_retriever.py`) | a pipeline per client, a lock | build, cache, search | threads of several clients; damaged files | the answer tells nothing of what the client may not see |
| Root-cause analysis (`application/rca*.py`, `infrastructure/rca_*.py`, `observability_backends.py`) | jobs of a few model workers | collect, report, explain, shut down | four sources that fail one by one, a run that goes on, callers that give up | a partial analysis is an analysis; time is counted once; shutdown ends |
| Demo sessions (`infrastructure/api/demo_sessions.py`) | sessions with deadlines, one cookie | bootstrap, switch, log out, resolve, expire | capacity, expiry | what a token resolves to |
| Web console (`frontend/js/`) | per page: a user, an investigation, requests under way | change user, ask, decide, open documents; save a model setting | late answers, other pages' switches, the back/forward cache | one user's data is never shown under another's name |
| MCP authentication, telemetry, PDF export, factory reads | tokens, exporters | authentication, I/O | start-up | see section 6 |

Interactions that carry the risk, and which the models are therefore about: the API
and the MCP servers share the store; the API and the graph share the checkpoint; a
tool call outlives the request that waits for it; a node's thread outlives the
request that closes its adapter; runs share the device; pages share a cookie.

`PROJECT.json` lists under "hazards" each place in the code where this can go
wrong and a test would hardly notice, with the property that covers it.

## 2. The modules and how they correspond to the code

```
                    implements                                 implements
ProtectedAction <───────────── ApprovalStore <───────────── RunLifecycle
        ^  implements                │ extends
        └── ClosedLoopRecovery       v
                                  Security <── RunPolicy <── ModelExecution <── ModelServices
                                     ^                          │ uses              │ uses
                                     └── ModelSelection <───────┤                   ├─> ModelSettings
                                              ^ uses            v              uses v
                          ModelSettings, RcaServer         ProviderAdapter <── ProviderContract

EvidenceLedger <── AgentGraph <── AgentRequest ──uses──> McpSession, FinalAnswer

KnowledgeSearch    DemoSessions <── Console    TraceEvidence <── RcaReport <── RcaServer
```

Unlabelled arrows are EXTENDS; a module that *uses* another instantiates it.
ProviderContract uses ModelSelection too. AgentRequest and ModelServices put the
modules of one subject side by side and name the properties of those they use, so
that a run and a theorem speak of the same formula.

**Security** — the vocabulary: classifications, profiles, the visibility predicate
and the predicate on actions and profiles that the API and the servers share.

**ProtectedAction** — the abstract specification: what human approval promises, with
nothing of how. A key is bound to one proposal once, decided once, consumed once if
approved, and performed at most once and only as bound.

**ApprovalStore** — the core. `runs` and `generations` are the store's records
(`StoredAgentRun` and its `approval_generations`), `tickets` the ticket table,
`calls` the executions of the write tools. In both stores `complete`, `fail` and
`bind_execution_context` read a record, and write it later: the in-memory one takes
its lock once for each, the PostgreSQL one reads without a row lock and writes at its
commit. So these are two actions, `BeginWrite` and `FinishWrite`, with whatever
else in between, and `writer` is the copy in between. `wait_for_approval`,
`claim_resume` and the claim are one action each: one lock, or one transaction that
selects the row FOR UPDATE. A write
tool call is one action per await: claim, consumed-claim lookup, write or read of
the ticket, calibration; `LoseCall` and the "unknown" answers are cancellations,
errors and crashes at each of them. A call has *any* arguments and identity with a
write permission, since the MCP servers are reachable by other clients. The API
side is every behaviour that writes a run only while it is RUNNING and one write at
a time (`HandlerMayWrite`); that the code keeps this without a lock is what
RunLifecycle shows.

**RunLifecycle** — the HTTP requests. A request's `pc` is the await it stands at;
`Start`, `Resume`, `ClaimResume`, `Reads`, `Writes`, `Persists` are what `_start_run`
and `resume_run` do between awaits, `TimesOut` is `asyncio.wait_for`, `StoreRaises`
the exception handlers, `Stops` the end of the process or a failure that could not
be recorded. The graph is what a request sees of it; `interrupts` is the
checkpoint. The MCP side is ApprovalStore's, action by action, and the module is a
refinement of ApprovalStore: the writer the store sees is the pending write of a
request.

**EvidenceLedger** and **AgentGraph** — one run's graph. One action is one node
with its outgoing route, which is one LangGraph superstep; `steps` counts them up to
the recursion limit, `calls` the tool budget, `attempts` the refused drafts. The
model may answer or call any tool of the session in every turn, also one it was not
shown (the tool node dispatches by name), and a tool returns anything: that is the
point of the guards. SUCCESS is split by what it stands on: ANSWERED, CANCELLED,
RECOVERED, NOT_REQUIRED. Two remarks for a reader of the code. `ExecutesAction` has
the code's LIMIT_REACHED branch although `ApprovedIsAffordable` shows that it is
never taken. And LangGraph may count out a run whose last node is exactly its last
superstep; the model lets it end either way.

**FinalAnswer** — what a run publishes. AgentGraph says which node runs when; here a
run is the calls it has recorded (`executed`), the tool messages of its conversation,
and the pending action. Every way to end makes a result of them: the terminal nodes of
the recovery and of a cancellation, and the finalizers of a structured answer, of a
bounded information run and of an inventory; limits, missing evidence and what the
result's own validators refuse publish nothing. An observation is what the result of a
tool comes to for the reader: the station or product it is about, the facts its finding
distinguishes, the identifiers in its fields, the rows or documents it lists. The
conversions are modelled by what they do: the projection the model is shown drops the
metadata it drops, a call is matched to its message by position for references and by
its id for findings, of several messages under one id the last one counts, entries
appear once and up to a limit, and an inventory stops where a line and the notice that
it is partial no longer fit. A text is reduced to whether it is in the language of the
run, free of forbidden sections, and lists the steps of this run.

**ClosedLoopRecovery** — the recovery branch with the hardware server and the
device. Preconditions are observed anew by each step, because the factory may
change them at any time; the reference becomes valid only by calibrating and is
lost at any time. `execute_reference_calibration` awaits before its closed loop but
not in it, so loops never overlap on a server: `Observes` is taken while no other
loop is in progress. `operator` and `witnessed` are history variables, which state
whose calibration the device shows. The approval is kept to its phase and shown to
be a ProtectedAction; `OperatedFor`, `boundBar` and `performedBar` are the mapping.

**RunPolicy** — operators over a request: what the resolver can tell of a text (the
targets it names, the form that is left without them, the words it mentions)
becomes a profile, a classification, a data view and the tools of an identity, or a
denial; a follow-up is resolved in the context its user may see of the
investigation.

**ModelSelection** — the rules of the catalog: zones and their greatest
classification, capabilities and incompatible combinations, what an assignment
resolves to in each mode, the order of the automatic policies, and the check each
call repeats.

**ProviderAdapter** — the adapter of one run as a record: calls are admitted while it
is open, counted, and drained before its clients are closed. Each operation is whole
under the adapter's lock. Also how an error of the SDK is named.

**ModelExecution** — messages of one investigation that become runs. `assignments` is
the table of the models, `runs` what the store keeps, `executions` what a request has
in memory: its model, adapter, the classification the clients have been told of
(`cleared`) and the most sensitive thing in its messages (`content`). A node calls
the model from a thread; `pc` is the request, `thread` the node, and the request can
be gone while the thread is in its call. The distinction of `cleared` and `content`
is the point: the code checks the former, the property is about the latter.

**ProviderContract** — the matrix of `provider_contract.py`: text, tools, structured
output, the two in turn, the two at once, each failing in any way an SDK can report,
until the adapter is given up or the runner itself raises.

**TraceEvidence**, **RcaReport**, **RcaServer** — the root-cause analysis, in its
layers: what the backends reply and what is made of it (a trace is found by the run's
own span, put in parent-first order and cut); the bundle, the durations, findings and
report, with the validators of `application/rca.py` that what is modelled can fail as
predicates (numbers of references, durations of a day at most, times in order, the form
of a span's words, which names can be sorted, the length of the one statement that has
no bound of its own, citations, status; section 6 has the others); and the server. There,
a caller passes the run's visibility twice with the run going on in between,
collects, reports, and may wait for an explanation. `jobs` are the workers' model
calls, which outlive callers; `pending` is what shutdown waits for.

**DemoSessions**, **Console** — the registry and the pages. A token is drawn once;
`cookie` is one for all pages. A page (`tab[t]`) is what its scripts keep: the user
it shows, the changes of user it has heard of (`pending`, `completed`), its view, and
its requests. An action is one event with everything its handler does up to the next
await. `readers` and `urls` are history: whose sessions the shown data were answered
under, whose documents the object URLs are.

**ModelSettings** — one row of the model configuration: `row` is what is shown, drafted,
confirmed and queued, `saves` the requests under way, `late` those it has given up and
the server may serve yet, `assigned` the table, `writer` who wrote it last. A change is
of the model, of the policy or of the mode; to the manual mode without a draft, it
changes what is shown and saves nothing. The server applies ModelSelection's own rule. **ModelServices** puts it, and the contract
matrix, beside the runs that use the same catalog.

**KnowledgeSearch** — the knowledge server's HTTP composition. `holder` is the lock of
the pipelines, `cache` the pipelines by client; a search is one action per point at
which another thread can come between. A pipeline over no searchable token is not
built (the constructor of the lexical index refuses it). BM25 is computed over what the pipeline was
built of, in integers scaled by a thousand with a table for the logarithm;
reciprocal ranks are billionths, exact for the ranks that occur. Embeddings and the
cross-encoder are constants: any functions of text and passage.

**McpSession** — one request around its graph: sessions opened to each server in
turn, retried from the first one after a pause, the graph inside them, and each
error as the set of its leaves, which the sessions' task groups may wrap and add to.
`ErrorCode` is what the service and the handler make of it on the three paths
(persistent, resumed, read-only). `causes` is history: what really went wrong.

**AgentRequest** — the graph of a run, the sessions around it and what it publishes.
They are one request in the code; they are composed without shared variables, since
each reads of the others only what its own state already says (that the graph was
started, which calls were made).

The **MC** modules instantiate these for TLC; the **_proofs** modules hold the
theorems. Operators introduced by the words "A fault" are plausible mistakes (a
dropped guard, a missing reset). No action uses them; put in place of the right
definition, each makes TLC find a property violated, which is how we know that the
property says something.

## 3. The runs

Six runs pass and six have a finding each (section 5). `CHECK_DEADLOCK FALSE` in
all of them: runs, requests, calls and pages end, and their number is bounded, so
behaviours do stop.

| Run | Instance | Distinct states | Shows |
| --- | --- | --- | --- |
| ApprovalStore | 1 run, 2 generations, 2 tool calls, 3 proposals (two tickets, a calibration), 2 scopes, clearances 1 and 2 | 825,302 | `EffectsAuthorized`, `AtMostOneEffect`, `AnswersAreTrue`, `WaitingIsDecidable`, `GenerationsAreHistory`, `ImplementsApproval` |
| RunLifecycle | 3 requests, 1 run, 2 generations, 1 call, 2 proposals, 2 scopes, clearances 2 and 3 | 561,289 | `DecidedByTheAuthorized`, `AnsweredResumeIsTrue`, `EndIsFinal`, `ImplementsStore`, `RunsSettle` |
| AgentGraph | 2 faults, the code's own limits (4 tool calls, 20 supersteps); 2 threads searching once for 3 clients in 3 catalogs of 4 documents; 3 MCP servers, 3 retries; a published run of 3 calls under 2 ids, 4 kinds of request, 10 reads, 4 outcomes of a calibration, at most 3 identifiers and 2 documents; 2 runs and 2 executions on a device with 2 preconditions, deviations 20 and 31 at tolerance 20 | 1,807,385 | `AnswersAreGrounded`, `ApprovedIsAffordable`, `SourcesNeverDeadlock`; `AnswersIgnoreTheHidden`, `AgreementIsKept`, `LockIsGivenBack`; `EndsAreTold`; `ReferencesAreOfTheRun`, `RequestedIsNamed`, `FindingsAreOfTheirCalls`, `RecoveryIsToldAsItEnded`, `InventoryIsTold`; `SuccessIsWitnessed`, `UnrecoveredIsUntouched`, `CalibratedWasPrepared`, `ImplementsApproval` |
| Models | 2 runs of one investigation with at most 2 model calls in one execution, 3 texts, clearances 2 and 3, 3 models of the shipped catalog, 1 reassignment; the contract matrix of 2 models; a row of the settings with 3 saved changes | 292,971 | `NothingLeaks`, `OneModelPerRun`, `NoUseAfterClose`, `ProvidersAreReleased`; `VerdictsAreProven`; `SavedIsStored` |
| RootCause | a run of at most 2 tool calls that waits 0, 3 or 4 ticks for a decision, with 1 caller who is offered anything, or 2 who share 1 worker; traces cut at 4 spans and logs at 3 events, durations up to 4 ticks, statements up to 100 characters | 174,357 | `OrdinaryEvidenceIsReported`, `TimeIsOwnedOnce`; `JobsAreAccommodated`, `ExplanationsAgree`, `ShutdownEnds` |
| Console | 2 pages, 2 users, 3 tokens, room for 1 session, 2 changes of user, 1 run, 1 page left, 1 request for data at a time | 412,288 | `PagesTellTheTruth`, `PagesReconnect` |
| RunLifecycleAdr011, ClosedLoopRecoveryNotRequired, AgentGraphLimit, AgentGraphRecursion | the module alone, as in the passing run, the first with 2 requests and 1 call | stop at the violation | findings 1 to 4 |
| ConsoleStale | 1 page, 2 runs, 2 requests at a time | stops at the violation | finding 5 |
| AgentGraphReusedId | as the passing run | stops at the violation | finding 6 |

AgentGraph and Models each explore parts that share no state: the graph, the searches
of one of its tools, the sessions around it, what is published after it, and the
recovery with the device; runs, the contract matrix and a row of settings. Each part is explored by
itself, beside one initial state of the others, and its properties quantify over its
own variables only, so that nothing is lost by not interleaving them.

Why these bounds.

- *ApprovalStore.* Nothing relates two runs but the run id of a claim, so one run with
  *two* generations is the interesting case: an earlier, decided generation next to a
  waiting one. Two calls are what it takes to race, or to retry after a lost answer;
  two tickets and a calibration, to confuse a proposal with another; the second scope
  may wait but its approvals may not be used; one clearance is below the run's. The
  proofs remove these bounds.
- *RunLifecycle.* A start and users who resume at once; with one more, the store's
  claim has nothing new to refuse. The proofs remove these bounds too, but for
  `RunsSettle`.
- *AgentGraph.* Two faults are one that is active and one that a document is wrongly
  about. Of the searches: a client that may not see what another may, one whose
  pipeline is built on demand, one damaged file, a candidate limit below the number
  of chunks, so that the cut happens. Of the sessions: more than one server, so that
  a later one fails while an earlier one is open. Of what is published: three calls are
  the fewest in which two share an id and a third is neither, or a write stands between
  two reads; the limits lie below what two reads return, so that something is dropped;
  of the two listings one fits an answer of length 15, and the other is cut where one
  more line would fit, but not the notice with it. Of the
  recovery: two runs are one that interferes with the other; the deviations lie on the
  tolerance and beyond it. The proofs remove these bounds.
- *Models.* The second message is a follow-up whose context is the first run, and
  either run can be reassigned, cancelled or restarted; the catalog has a local
  model, one of the cloud with a key and one without. One reassignment, at any moment,
  is what can come between the start and the resume of a run. Three saved changes of a
  row are one queued while another is being saved, and one more; changes that save
  nothing are not counted.
- *RootCause.* A caller alone is offered every combination of two spans from a pool with
  an orphan, a child before its parent, a span that began before the run and one that
  ends after it, each of them with every page of generations; each failure of each
  source with the other sources sound; and spans that are too long or say what no
  evidence may say. A wait of 4 ticks is just too long when its next step is counted, a
  statement of 100 characters has room for two short names of a model.
  Two callers are one more than there are workers, so that one is refused, or takes the
  room of one that is done; they are given one sound reply of each backend. The proofs
  remove these bounds, but for `ShutdownEnds`.
- *Console.* Both pages are loaded as one user; either may change the user, one of
  them also works. The second change is made only while there is no run. Only the
  session of the cookie expires. The proof of `PagesTellTheTruth` removes these bounds.

Sets of interchangeable values are symmetric, except where liveness is checked, and
but for the two faults of AgentGraph, whose symmetry would cost more than it saves.

**Fairness**, each for what the code's scheduling does by itself:

- RunLifecycle, for each request: a store call that is due is scheduled (`WF` of
  `ApiStep`: the event loop runs a ready task, a blocking store call is in a worker
  thread) and a graph that still works is given up in the end (`WF` of `TimesOut`:
  `execution_timeout_seconds` is always set, 90 seconds by default). With it a
  RUNNING run ends or waits, unless the request that drove it was stopped; that
  exception is real, no code recovers a run whose process died, and `RunsSettle`
  names it.
- ModelExecution, for each run: the event loop and its workers go on (`Works`), a
  provider answers or its client gives it up after 45 seconds (`ProviderStep`), and a
  request is cancelled in the end (`Cancelled`).
- RcaServer: a worker that holds a job goes on with it (`Resolves`), the transport's
  own deadline comes (`DeadlineExpires`), and the lifespan ends when it may
  (`ClosesProvider`).
- Console, for each page: the browser hands over what has arrived (`Delivers`) and
  the server answers what reached it (`Serves`).

Nothing is assumed of models, tools, users, or crashes.

## 4. What is proved

TLAPS checks these for every value of the constants; TLC has checked each of the
statements on its instance first.

**ApprovalStore_proofs**, for any number of runs, generations, calls, proposals and
scopes: `TypeCorrect`, `ApprovedEffectsOnly`, `OneEffectPerApproval`,
`TrueAnswers`, `WaitingCanBeDecided`, `GenerationsAreNeverRewritten`, and
`ApprovalIsImplemented` (the store with its tools implements ProtectedAction).
None of the safety properties is inductive. `StrengthenedInvariant` proves `IInv`,
whose parts say why they hold:

- `RequestIsBound`: the request of a record is its generation's, with the same
  decision, unused. A claim clears the request, so a second claim finds none.
- `WaitingIsQuiet`, `WriterReadRecord`: nobody writes a waiting run, and a record read
  for writing differs from the stored one at most by a claim made since. This is
  what makes the late write harmless: it puts back a record without its request,
  or, when binding, one that never had a request.
- `ConsumedWasApproved`: what is consumed was approved by someone cleared for it.
- `ClaimIsExclusive`, `EffectIsClaimed`, `TicketIsEffect`: a claimed generation has
  one call, an effect has a claim, a ticket is the effect of the call that claimed.
- `AnswersAreTrue`, which is inductive with these.

The proof has one step for each action, and for the calls one lemma on what a step
may do to a call that carries the parts over. For the refinement every action moves
one key by one abstract step, or none.

**RunLifecycle_proofs**, for any number of requests, runs, generations and calls:
`TypeCorrect`, `DecisionsAreAuthorized`, `ResumesAnswerTruly`, `EndsStay` and
`StoreIsImplemented` (the requests implement ApprovalStore). `StrengthenedInvariant`
proves `LifecycleInv`, which joins the store's own `IInv`, seen through the refinement
mapping, to

- `RunHasOneDriver`: between the claim of a run, or its start, and the end of the
  request, no other request is in that position, and the run is RUNNING. No lock
  makes it so: a start needs a run that is not there, and a claim one that waits,
  which no driver's run does. It is why `EndIsFinal` holds although `complete` and
  `fail` look at no status.
- `IsInOrder`: a driver writes where its handler does, binds before anything was put to
  a human, and puts to a human what its graph was interrupted for.
- `CheckpointIsKept`: a waiting run waits for what its checkpoint is stopped at, and
  only that generation is undecided.
- `AuthorizedMayDecide`: who was let past the check on an earlier read may decide the
  generation of its token if that is undecided still. This is the argument that the
  check needs no lock: only the generation a run waits for is undecided, it was shown
  to the check if the run waited for it, and a token of any other is decided for good.
- `ResumeIsKept`: from claim to answer a resume stands by the decision it stored: it
  acts on the decided proposal, awaits a call that carries it, and goes on only with
  the ticket.

Every step is mapped to a step of the store or none (`StepRefines`); that the store's
part of the invariant is kept, and that what is there stays there (`Continues`), are
ApprovalStore_proofs' lemmas, used with a request's pending write in the place of the
store's `writer`. The rest has one lemma for each action, on top of two about what a
request, or a run, keeps when it is not the one that moves (`BystanderStays`,
`RunStays`).

**ClosedLoopRecovery_proofs**, for any number of runs and executions, any
preconditions, deviations and tolerance: `TypeCorrect`, `SuccessIsAlwaysWitnessed`,
`UnrecoveredStaysUntouched`, `CalibratedAlwaysWasPrepared` and
`ApprovalIsImplemented`. `StrengthenedInvariant` adds to the types:

- `LoopIsAlone`: two closed loops never overlap, so that the last to operate the
  device is the one that observes it.
- `ExecutionIsOrdered`: an execution that stands after its operation is the device's
  last operator; one that was denied or blocked has operated nothing; one that
  succeeded has witnessed it.
- `AdmissionIsExclusive`: an approval admits one execution, and is spent by it.
- `GraphIsOrdered`: a run and its approval keep step, and what ended the run is what
  its own execution answered.
- `AskedWasPrepared`: a human is asked only for what was prepared, or proposed on a
  status that called for it.

**AgentGraph_proofs**, for any faults, tool budget and recursion limit:
`TypeCorrect` (with it the budget itself), `GroundedAnswers`, `AffordableApprovals`
and `SourcesNeverLockOut`. `IInv` adds to the types that a node about to spend a
call has one left, that a verdict is only found at the end, and groundedness. Two
lemmas on the ledger carry the weight: complete evidence of a troubleshooting
contract is grounded, and incomplete evidence leaves one of the two evidence tools
eligible.

The same module has the knowledge server, for any clients, catalogs, texts, queries,
rankers and numbers of threads: `HiddenHasNoInfluence`, `LockIsAlwaysGivenBack` and
`AgreementIsNeverLost`. Non-influence rests on one fact about the rows (listing a catalog from which the invisible has
been removed lists the same rows with the same labels, `ListedAsVisible`) and one
about the history (every cached pipeline was built for its own client's clearance
from the catalog, and a search uses its client's: `PipelinesAreFiltered`,
`RequestsAreFiltered`). For it the ranking need not be looked into: it is a function
of the pipeline. For `AgreementIsNeverLost` it has to be, in four steps:

- being above is a strict order on a ranking, and who is above has the smaller rank
  (`AboveHasTheSmallerRank`, by counting who is above each); what is cut off a ranking
  leaves ranks of at most the limit (`TopHasSmallRanks`);
- both retrievers rank (`RetrieversRank`): every score is a number, because no
  denominator of BM25 is zero and no inverse frequency negative. This is where a
  searchable token is needed, and the invariant `PipelinesAreSearchable` says that
  every pipeline that was ever built has one;
- reciprocals in billionths decrease strictly over such ranks (`Reciprocals`: y squared
  is at most a billion), so that a chunk above another, or alone, gets more from each
  ranking (`AboveContributesMore`);
- so its fused score is greater, its rank in the fusion smaller, and what is cut off
  the fusion cannot be it and not the other (`AgreedIsACandidate`).

**AgentGraph_proofs** goes on to the rest of a request. `RequestsAreTold`, for any
servers, number of retries and tool budget: `CodesAreTrue` follows a group of errors
through the translation, the unwrapping and the clauses of the handler, and shows that
a code is told only if every leaf is of its kind; `SessionInv` adds that the graph was
started exactly if the sessions were opened, and that nothing has gone wrong for good
before the end. For what is published, with any tools, ids, requests and limits:
`AnswersReferToTheRun`, `AnswersNameTheRequested`, `AnswersTellFindings`,
`AnswersTellTheRecovery` and `InventoriesAreTold`. `FinalInv` has the arguments:

- `TrailIsTold`: every call has its message, at the same position, and what a device
  says is about the station its call named. Hence the pairing by position is one of
  calls with their own messages, although writes come in between.
- `PendingIsKnown`: a pending calibration is of a station of this run. Terminal nodes
  publish before their own call is recorded; that is why this is needed for their
  references to be complete.
- `StageIsTold`: no calibration has been recorded before the run ends. A finding of a
  successful calibration, looked up by an id the model may have used before, can then
  only be of the calibration that ends the run (`RecoveryIsToldAsItEnded`).

The lemmas on `FirstPlaces` (the first places of distinct entries, up to a limit: they
are entries, they are all of them if these are few enough, and those of the first
list come first) carry the limits; they rest on the library's facts on cardinalities
and on the least element of a set of numbers. An inventory is about sums of lengths:
`ShownFits` (what is shown is within the bound, also with its notice) rests on
SumTheorems, and `InventoryStaysTold` on the content of the run's last list being that
of its last message about one.

**SumTheorems** — what the other proofs need of a sum over a finite set. The community
modules define it by recursion, and induction is out of reach here (an induction
theorem takes the formula as a parameter); but a *least counterexample* is not: the
strict subsets of a finite set are well-founded, so a set of bad subsets that is not
empty has a least one (`LeastSubset`), and that one is bad for no reason. In this way
the lemma `SumIsCount` shows once that a sum of naturals is the cardinality of a set with one
element for each unit, and everything else (a sum with one element more, of disjoint
parts, of equal values) is the library's facts about cardinalities. `SubsetRecursion`
shows the same way that a recursion over subsets defines a function and unfolds, which
is what the folds of the other modules come to; `GreatestOfFinite` that a finite set of
numbers has a greatest.

**ModelExecution_proofs**, for any runs, messages, catalogs, keys, assignments and
reassignments: `NothingEverLeaks`, `OneModelForever`, `ClientsOutliveCalls`. `IInv` says
of an execution that it is `Sound` (nothing is in its messages that its clients have
not been cleared for, and a call under way was allowed for that clearance and holds its
client) and `Fits` its stored run, and of a run that it `IsCovered` (what it has read
fits its stored classification, and a waiting one keeps the model its messages were
sent to). The way to it is through two lemmas on a new message: the classification its policy
resolves covers what its text is about (`RequestIsCovered`), and the turns it is given
are no more sensitive than that (`ConversationIsCovered`), because they are filtered by
that very classification. That
a resolved model may see the classification it was resolved for needs that the order
of the automatic policies picks one of the candidates (`FirstIsOne`, by the least
element again). `VerdictsAreAlwaysProven` and `SavedIsAlwaysStored` are about
the matrix and the settings (ModelServices); `SettingsInv` of the latter says that one
request is under way, older than what is queued, that a row which says Saved has
neither, and that what it then holds as confirmed is stored unless a request it had given
up was served since.

**RcaServer_proofs**, for any callers, runs and workers, and whatever the five sources
deliver or fail with: `TypeCorrect`, `WorkersAreNeverOverrun`, `ModelsNeverContradict`,
`TimeIsNeverCountedTwice` and `OrdinaryAnalysesAreReported`, in three layers.

- *Workers.* `PoolInv`: the pool counts a job from its admission to its end, whoever
  still waits for it, and the provider is open as long as it counts one. `ToldInv`: a
  job judges the status its own caller was told. What the reports say of the sources
  has no part in it.
- *Time.* `TimeInv` says that what the run store tells of an approval is in order, now
  and when a caller read it, and that a report is made of spans that ended after they
  started. That the spans of a bundle are such needs that ordering by parents, cutting
  and filtering return spans of the trace and nothing else (`ParentFirstIsOfThem`,
  `KeptAreOfThem`, by `SubsetRecursion`). The rest is arithmetic on one report: the
  boundaries of all intervals cut the execution into pieces; the pieces a category
  owns are disjoint, and a sum over them is the number of ticks in them
  (`TicksOfPieces`); clipping to the execution keeps the ticks
  (`IntervalsKeepTicks`); so each category owns the ticks at which it was active and
  none before it (`OwnedIsTicks`), and disjoint sets of ticks within the execution are
  together no more than it (`OwnedIsBounded`).
- *Validators.* `IsEvidence` says what every bundle is, whatever was delivered
  (`EvidenceIsSuch`): at most 999 spans, logs and points, at most 50 generations, 20
  tool calls, known limitations, and a page of generations that was cut is reported as
  such. From there, each reference has a number of three digits, each kind of finding
  cites at most twenty references of the bundle, and the report's status agrees with
  what is incomplete. What is left are the bounds that evidence itself may exceed, and
  `IsOrdinary` says that it does not: no span and no wait of more than a day, words of the
  form asked for, and generations that all name a provider, or none does, all a model,
  or none does, in a list that a statement has room for. Such evidence passes the
  validators modelled (`EvidenceIsAccepted`). The theorem is not about other evidence;
  a late decision (section 5) is the case that needs nothing odd from a backend.

**Console_proofs**, for any pages, users, tokens, changes, runs and requests:
`NobodyReadsAnothersPage`. A page's state alone says nothing: the cookie is shared and
answers come late. The invariant says of every open page that it is *true* (it shows
data and documents of the session its cookie names, or of nobody), or has a change of
user of its own under way, or will hear of another's (`TruthOK`, with what is on the
channel), and ties requests and changes to the generations of the page (`PageOK`,
`ChangesOK`, `ChannelOK`). Its proof goes in two layers: what the steps of a page do
to that page, for each kind of event; and what they do to the others through the
cookie and the channel.

Assumptions, each evaluated by TLC on every instance: `ConstantsAssumption` (proposals
have an action and a target, scopes are those the policy can resolve, clearances are
classifications), `RequestsAssumption` in RunLifecycle and in ModelExecution (what a
request consists of), `NoneAssumption` in four modules, `NilAssumption` and `CodesAssumption` (the value
for "nothing" is no other value), `LimitsAssumption` (the budget is positive),
`DeviationsAssumption` (deviations and the tolerance are numbers), `CatalogAssumption`
(definitions, assignments and reassignments are well formed and name models of the
catalog), `SettingsAssumption` (the row has a classification), `DemoSessionsAssumption`
and `ConsoleAssumption` (tokens, users and the special values differ, numbers are
numbers), and

- `AnswersAssumption`: a tool returns its own results, those of a device tell of the
  station they were asked about, requests and arguments are sequences of names, and
  names have lengths (`ToolsAreSound`, which the typed results of the MCP servers come
  to); an answer has room for an inventory's heading and notice (the code allows 8000 characters).
- `EvidenceAssumption`, `ServerAssumption`: a trace is cut at a positive number of at
  most three digits (the code's is 200, of logs 100), durations and waits are numbers
  (the code's longest duration is a day; the longest statement, 500 characters, needs no
  assumption), an analysis is of a run with 1 to
  20 tool calls (the code's limit is 4), the workers have a number, and the backends
  deliver what the adapters let through (`IsOffer`): finitely many typed spans, none of
  which ends before it starts (durations are clamped at zero), as many metric points as
  seven series of sixty are, and a page of at most 50 observations. Everything else
  about a reply is any.
- `KnowledgeAssumption`, `TextAssumption`: catalogs list documents with a text, texts
  have finitely many numbered sections, each with a count for every term somebody may
  ask for, and the table of the logarithm grows. `RankAssumption`: rank constant and
  candidate limit are positive (60 and 10), and the square of their sum is at most a
  billion, which is what makes the billionths of the model tell ranks apart; the
  code's floating-point reciprocals do so far beyond.

The rankers, models' outputs, tools' facts, ids and requests are otherwise any.

Only model-checked: `RunsSettle`, `ProvidersAreReleased`, `ShutdownEnds` and
`PagesReconnect`, which are liveness under fairness and beyond the prover. Every
invariant, action property and refinement that a passing run checks is proved.

No module declares a RECURSIVE operator. The type invariants of the modules with
theorems are proved.

## 5. Where code and documents disagree

Each has a run whose counterexample shows it, and an entry under "findings".

1. **A second proposal after a resume is lost** (`RunLifecycleAdr011`). ADR-011 speaks
   of a later generation in the same run; `resume` passes no interrupt on, so that a
   resumed graph that proposes again fails the run with an internal error.
2. **No recovery required, out of tolerance** (`ClosedLoopRecoveryNotRequired`). Only
   the reference is looked at, not the deviation. A calibration that was executed
   and failed its verification leaves a valid reference, and the next run is told
   that the device needs nothing. ADR-018 and the docstring ask for a healthy
   device; the architecture overview describes what the code does.
3. **A limit reached too early for its own contract** (`AgentGraphLimit`). The
   recovery branch ends LIMIT_REACHED when fewer than two calls are left, with an
   answer; `AgentRunResult` refuses both, and the run fails with an internal error.
4. **Out of supersteps before the verdict** (`AgentGraphRecursion`). A tool result
   that brings no evidence resets the count of refused drafts; four rounds of it
   are 20 supersteps, and the run crashes where ADR-020 promises
   EVIDENCE_REQUIREMENTS_UNSATISFIED.
5. **A stale refresh takes an ended turn away** (`ConsoleStale`). The reload after a
   decision renders its answer without asking whether a later message has been sent
   meanwhile; answered before that message's run ended and delivered after, it shows
   the investigation without the turn. `docs/quality/quality-gates.md` excludes it;
   the refresh of a terminal run, next to it, does ask.
6. **A step told of another call** (`AgentGraphReusedId`). Observations are looked up by
   `tool_call_id`, which the model chooses; of two calls with one id, the step of the
   first is given the finding of the second, or the fallback. The docstring of the lookup,
   and the tests named after it, speak of the exact invocation.
   `FindingsAreOfTheirCalls` is what holds: every step whose id no later call takes.

Not findings, since no document promises otherwise, but worth knowing: a RESTRICTED
run can propose a write that nobody may decide; a run whose process stops after an
approval stays RUNNING; a write can be proposed before the evidence is complete, and
a calibration although its preparation failed a precondition; a healthy observation
satisfies the ledger for good; a *resume* whose MCP servers cannot be reached ends as
`internal_error`, where a start is told `mcp_service_unavailable` (`EndsAreTold`
makes the difference explicit); a refused switch of the demo user has already given
up the old session. In the model settings, choosing the manual mode without a draft
after an automatic one was saved leaves the dialog at "Saved" beside a row that asks
for a model, with the automatic mode stored; and a save that was given up may be
served after a later one, which the row then calls saved although the older one is
stored. The
projection of a search result keeps neither `title` nor `format`, so that a document
of the stdio knowledge server is published with its id for a title.

And an analysis can be an error where ADR-017 has a partial one as a supported result
(`IsOrdinary` names the cases, `OrdinaryEvidenceIsReported` says that there are no
others). The evidence of an approval's wait may be 24 hours at most, the wait itself
has no end; the validation error is raised outside the handlers of the sources, and
again by every analysis of that run. The same happens with something odd from a
backend: a span of more than 24 hours, or with an identifier or error code of another
form; generations of which only some name a provider or a model (`sorted` compares a
name with None); names so many or long that the statement that lists them exceeds 500
characters.

## 6. What is not modelled, and why

- The wording of answers, prompts, reports, findings and references; the emission of
  telemetry, PDF export, severity: text in, text out, no state. Detecting a language is
  any verdict.
- The read-only graph (`ainvoke_via_mcp`, recursion limit 12, no checkpoint) and the
  part of `_start_run` that stores its result outside the `try`: they cannot
  write, and RunLifecycle is the persistent deployment. The hazard is listed; how
  such a run is told of an error is in McpSession.
- A lost commit acknowledgement of PostgreSQL: a store call raises before its
  commit or succeeds. The claim whose caller was cancelled is modelled.
- Sequence numbers of an investigation, row-level security of the run tables,
  migrations, seed data.
- The second authorization in the closed loop: it asks what the tool call has checked.
- Factory reads, and MCP authentication: stateless. What they contribute, the
  identities with write permission, the tools of each profile, and labelled results,
  is in Security, RunPolicy, ApprovalStore and ModelExecution.
- A device that drifts while its reference is valid: nothing behind
  `PhysicalDevicePort` in the repository does that.
- In the model settings: one row, so the line that tells of saving is its own (the
  dialog has one for all rows); another administrator, the dialog opened again during a
  save, and an assignment of a model that the catalog no longer has.
- Of the validators of `application/rca.py`: that references and sources are each there
  once holds by the way they are numbered (`References`), so it is no predicate; the
  patterns of the words of a span are a `form` (safe, or not and where); those of
  finding identifiers, of the run store's error codes and profiles, of log events
  and the ranges of metric values are assumed to hold of what the program itself
  writes there.
- Parsing: RunPolicy is given which words and identifiers a text contains,
  TraceEvidence which fields a backend's reply has, McpSession that a schema refuses a
  result, KnowledgeSearch the sections of a document.
- The catalog of documents does not change while the knowledge server is up: nothing
  in the program rewrites it. Its stdio composition, which serves one process, is left
  out, and so is the egress check of embeddings, which run locally.
- The MCP SDK's task groups and the language models are external: McpSession lets
  groups wrap and add errors, and models answer anything. One code stands for the
  codes of model resolution, two for those of providers.
- In the console: an abort stops a request and with it the cookie of its answer, at
  once; the broadcast channel loses nothing for an open page and keeps no order;
  `POST /runs` is one step on the server; the fetch of the configuration that precedes
  the identity, rendering and localisation are left out. What a page shows while a
  change of user is on its way is not judged (`IsAtRest`).

## 7. Where to go on

- AgentRequest could join the trail of FinalAnswer to the calls of AgentGraph, so that
  its limits become the graph's.
- A second deployment of RunLifecycle without a checkpointer would cover the path of
  read-only runs that stores its result outside the `try`.
- Sequence numbers and row-level security of investigations, in both stores.
