----------------------------- MODULE McpSession ------------------------------
(***************************************************************************)
(* How one request gets its MCP tools and is told how it ended: sessions   *)
(* are opened to each server in turn, again after a pause if that failed;  *)
(* the graph runs inside them; and what goes wrong anywhere travels through*)
(* the sessions' task groups, their translation, the service and the       *)
(* handler, which makes one error code of it.                              *)
(*                                                                         *)
(* infrastructure/mcp_langchain_tool_provider.py, agent/                   *)
(* troubleshooting_run_service.py, infrastructure/api/app.py               *)
(***************************************************************************)
EXTENDS Naturals, SequencesExt

CONSTANTS
    Servers,        \* the authorized servers, in order: sets of tool names
    Retries,        \* 3: the pauses between attempts to open the sessions
    MaxToolCalls,   \* the graph's
    None

VARIABLES
    request,        \* where the request is
    causes,         \* what went wrong with the sessions it got or did not get
    bodies          \* how often the graph was started (history)

sessionVars == <<request, causes, bodies>>

ToolNames == UNION Range(Servers)

(* The paths of a run: persistent, resumed, and read-only.                 *)
Paths == {"start", "resume", "diagnostic"}

(* An error is the kinds of its leaves, and how many of them its group has;*)
(* 0 if it is in none.                                                     *)
Error(kinds, members) == [kinds |-> kinds, members |-> members]

Bare(kind) == Error({kind}, 0)

Idle ==
    [path |-> None, pc |-> "idle", attempt |-> 1, found |-> << >>, opened |-> FALSE,
     calls |-> 0, code |-> None]

InitSession ==
    /\ request = Idle
    /\ causes = {}
    /\ bodies = 0
-----------------------------------------------------------------------------
(* From an error to a code.                                                *)

(* except* (OSError, TimeoutError, HTTPError): those leaves become one     *)
(* McpServiceUnavailableError, alone or with what is left of the group.    *)
Translated(e) ==
    LET rest == e.kinds \ {"transport"}
    IN  IF rest = e.kinds THEN e
        ELSE IF rest = {} THEN Bare("unavailable")
        ELSE Error({"unavailable"} \union rest, 2)

(* A fault: a run that got its sessions is tried again like any attempt.   *)
RetriesAnyAttempt(e) == e = Bare("unavailable") /\ request.attempt <= Retries

(* Only discovery is repeated, and only when nothing else went wrong.      *)
IsRetried(e) ==
    /\ e = Bare("unavailable")
    /\ ~ request.opened
    /\ request.attempt <= Retries

(* run_with_policy looks into a group of one; start and resume do not.     *)
Unwrapped(path, e) ==
    IF path = "diagnostic" /\ e.members = 1 /\ e.kinds \in {{"unavailable"}, {"arguments"}}
    THEN Error(e.kinds, 0) ELSE e

AllLeavesAre(e, kind) == e.kinds = {kind}

(* The clauses of the handler, in their order. resume_run has none for an  *)
(* unavailable server.                                                     *)
ErrorCode(path, e) ==
    CASE e = Bare("timeout")    -> "agent_execution_timeout"
      [] e = Bare("resolution") -> "model_runtime_unavailable"
      [] e = Bare("egress")     -> "model_egress_denied"
      [] e = Bare("unavailable") /\ path # "resume" -> "mcp_service_unavailable"
      [] AllLeavesAre(e, "output")    -> "model_output_invalid"
      [] AllLeavesAre(e, "arguments") -> "tool_execution_failed"
      [] AllLeavesAre(e, "rate_limit") -> "llm_rate_limit"
      [] AllLeavesAre(e, "provider")   -> "llm_provider_unavailable"
      [] OTHER -> "internal_error"

Ends(code) == request' = [request EXCEPT !.pc = "ended", !.code = code]

Fails(e) ==
    LET translated == Translated(e)
        retried    == IsRetried(translated)
    IN  /\ IF retried
           THEN request' = [request EXCEPT !.pc = "pausing"]
           ELSE Ends(ErrorCode(request.path, Unwrapped(request.path, translated)))
        /\ causes' = IF retried THEN {} ELSE causes \union e.kinds
        /\ UNCHANGED bodies
-----------------------------------------------------------------------------
At(pc) == request.pc = pc

Begins(path) ==
    /\ At("idle")
    /\ request' = [request EXCEPT !.path = path, !.pc = "resolving"]
    /\ UNCHANGED <<causes, bodies>>

(* The assigned model is resolved, and its provider acquired.              *)
Resolves ==
    /\ At("resolving")
    /\ request' = [request EXCEPT !.pc = "discovering"]
    /\ UNCHANGED <<causes, bodies>>

(* No session is open yet that would translate or group it.                *)
IsNotResolved ==
    /\ At("resolving")
    /\ \E kind \in {"resolution", "other"} :
          /\ Ends(ErrorCode(request.path, Bare(kind)))
          /\ causes' = {kind}
    /\ UNCHANGED bodies

Found == UNION Range(request.found)

(* The next server is connected, initialized and asked for its tools: a    *)
(* name seen before or an authorized one that is missing ends the attempt. *)
Discovers(listed) ==
    LET next == Len(request.found) + 1
    IN  /\ At("discovering")
        /\ IF listed \intersect Found # {} \/ ~ (Servers[next] \subseteq listed)
           THEN \E members \in {0, 1} : Fails(Error({"other"}, members))
           ELSE /\ request' = [request EXCEPT
                                 !.found = Append(@, listed),
                                 !.pc = IF next = Len(Servers) THEN "open" ELSE @]
                /\ UNCHANGED <<causes, bodies>>

(* What an error gathers on its way through the sessions that are open:    *)
(* their task groups may add one of their own.                             *)
Gathered(kind) ==
    {Error({kind}, members) : members \in {0, 1}}
        \union {Error({kind, added}, 2) : added \in {"transport", "other"}}

DiscoveryFails ==
    /\ At("discovering")
    /\ \E kind \in {"transport", "other"} : \E e \in Gathered(kind) : Fails(e)

Pauses ==
    /\ At("pausing")
    /\ request' = [request EXCEPT !.pc = "discovering", !.attempt = @ + 1, !.found = << >>]
    /\ UNCHANGED <<causes, bodies>>

(* The run receives its session, and the graph is started or resumed.      *)
Opens ==
    /\ At("open")
    /\ request' = [request EXCEPT !.pc = "running", !.opened = TRUE]
    /\ bodies' = bodies + 1
    /\ UNCHANGED causes

(* invoke_mcp_tool: an answer that is no completed result with structured  *)
(* content, and a server that cannot be reached.                           *)
CallsTool ==
    /\ At("running") /\ request.calls < MaxToolCalls
    /\ request' = [request EXCEPT !.calls = @ + 1]
    /\ UNCHANGED <<causes, bodies>>

ToolFails ==
    /\ At("running") /\ request.calls < MaxToolCalls
    /\ \E kind \in {"unavailable", "other"} : \E e \in Gathered(kind) : Fails(e)

(* The graph raises: the model's output or arguments, its provider, the    *)
(* egress check or anything else; or a session breaks down around it.      *)
GraphRaises ==
    /\ At("running")
    /\ \E kind \in {"output", "arguments", "rate_limit", "provider", "egress", "transport", "other"} :
          \E e \in Gathered(kind) : Fails(e)

(* The graph has ended; its sessions close, or cannot be closed.           *)
Closes ==
    /\ At("running")
    /\ Ends(None)
    /\ UNCHANGED <<causes, bodies>>

(* wait_for cancels whatever is under way; nothing translates that.        *)
TimesOut ==
    /\ request.pc \notin {"idle", "ended"}
    /\ Ends(ErrorCode(request.path, Bare("timeout")))
    /\ causes' = causes \union {"timeout"}
    /\ UNCHANGED bodies

NextSession ==
    \/ \E path \in Paths : Begins(path)
    \/ Resolves
    \/ IsNotResolved
    \/ \E listed \in SUBSET ToolNames : Discovers(listed)
    \/ DiscoveryFails
    \/ Pauses
    \/ Opens
    \/ CallsTool
    \/ ToolFails
    \/ GraphRaises
    \/ Closes
    \/ TimesOut
-----------------------------------------------------------------------------
(* What a code says went wrong.                                            *)
KindsOf(code) ==
    CASE code = "agent_execution_timeout"   -> {"timeout"}
      [] code = "model_runtime_unavailable" -> {"resolution"}
      [] code = "model_egress_denied"       -> {"egress"}
      [] code = "mcp_service_unavailable"   -> {"transport", "unavailable"}
      [] code = "model_output_invalid"      -> {"output"}
      [] code = "tool_execution_failed"     -> {"arguments"}
      [] code = "llm_rate_limit"            -> {"rate_limit"}
      [] code = "llm_provider_unavailable"  -> {"provider"}

(* A request is told how the one run of its graph ended: attempts to reach *)
(* the servers are repeated, the graph and its tool calls never are; a run *)
(* is told to be complete only if nothing went wrong, and a code is told   *)
(* only if it is true of everything that did. A start whose servers cannot *)
(* be reached is told so (overview.md: "a persistent outage remains a      *)
(* sanitized mcp_service_unavailable failure").                            *)
EndsAreTold ==
    /\ bodies <= 1
    /\ At("ended") =>
        /\ request.code = None <=> causes = {}
        /\ request.code \notin {None, "internal_error"} => causes \subseteq KindsOf(request.code)
        /\ ~ request.opened /\ causes = {"transport"} /\ request.path # "resume"
              => request.code = "mcp_service_unavailable"
=============================================================================
