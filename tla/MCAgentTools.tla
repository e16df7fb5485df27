---------------------------- MODULE MCAgentTools -----------------------------
(* A run's graph with two faults; the sessions a run opens to three        *)
(* servers; the servers behind two of its tools: that of the device, with  *)
(* two runs on it, and that of four documents, of which a client may not   *)
(* see all; or what a run of three calls publishes: a troubleshooting run  *)
(* with structured output, a bounded information run, an inventory and a   *)
(* recovery.                                                               *)
EXTENDS MCAgentGraph, AgentRequest, KnowledgeSearch, MCClosedLoopRecovery

CONSTANTS agent, internal, codex

MCServers ==
    <<{"get_machine_status"}, {"search_documentation"}, {"prepare_reference_calibration"}>>
-----------------------------------------------------------------------------
(* The documents of the knowledge server.                                  *)

Document(classification, station) ==
    [classification |-> classification, station |-> station]

MCCatalogs ==
    {<<Document(0, Nothing), Document(1, 2), Document(2, Nothing), Document(0, 1)>>,
     <<Document(2, Nothing), Document(0, 2), Document(1, Nothing), Document(0, 0)>>,
     <<Document(1, Nothing), Document(1, Nothing), Document(1, 2), Document(2, Nothing)>>}

Section(fault, belt) == [fault |-> fault, belt |-> belt]

MCText ==
    <<<<Section(1, 0), Section(0, 1)>>, <<Section(2, 0)>>, <<Section(1, 1)>>, <<Section(0, 3)>>>>

MCQueries == {{}, {"fault"}, {"fault", "belt"}}

MCChunks == {<<1, 1>>, <<1, 2>>, <<2, 1>>, <<3, 1>>, <<4, 1>>}

(* Embeddings find what the words do not, and the cross-encoder a third.   *)
MCSimilarity == [q \in MCQueries |-> [c \in MCChunks |-> 2 * <<2, 4, 3, 5>>[c[1]] - c[2]]]

MCRelevance == [q \in MCQueries |-> [c \in MCChunks |-> (5 * c[1] + 2 * c[2]) % 11]]

MCLn == <<0, 693, 1099, 1386, 1609, 1792, 1946, 2079, 2197, 2303, 2398, 2485>>

MCClearance == [c \in Clients |-> IF c = agent THEN 2 ELSE 1]
-----------------------------------------------------------------------------
(* The tools of a run whose answer is looked at.                           *)

CONSTANTS S04, S05, S06, P1, FaultCode

MCNames == {S04, S05, S06, P1, FaultCode}

MCToolset ==
    {"list_stations", "list_products", "get_station_overview", "get_product_overview",
     "get_machine_status", "get_product_history", "get_maintenance_ticket",
     "search_documentation", ReferenceStatus, Preparation, Ticket, Calibration}

Observation(from, about, facts) ==
    [from |-> from, about |-> about, facts |-> facts, names |-> << >>, rows |-> << >>,
     documents |-> << >>]

Read(tool, arguments, observation) ==
    [tool |-> tool, arguments |-> arguments, observation |-> observation]

Cataloged(id) == [id |-> id, metadata |-> {"document_title", "mime_type", "title"}]

Searched(documents) ==
    Read("search_documentation", << >>,
         [Observation("search_documentation", None, {}) EXCEPT !.documents = documents])

StationStatus(station, facts, names) ==
    Read("get_machine_status", <<station>>,
         [Observation("get_machine_status", station, facts) EXCEPT !.names = names])

OfDevice(tool, facts) ==
    Read(tool, <<S04>>, [Observation(tool, S04, facts) EXCEPT !.names = <<S05>>])

Listing(names, rows) ==
    Read("list_stations", << >>,
         [Observation("list_stations", None, {}) EXCEPT !.names = names, !.rows = rows])

MCReads ==
    {StationStatus(S04, {"found", "faulted"}, <<S04, FaultCode>>),
     Read("get_station_overview", <<S05>>,
          [Observation("get_station_overview", S05, {"found"}) EXCEPT !.names = <<S05, P1>>]),
     Listing(<<S04, FaultCode, S05, S04, S06>>, <<S04, S05, S04, S06>>),
     Listing(<<S05>>, <<S05>>),
     Searched(<<Cataloged("d1"), Cataloged("d2"), Cataloged("d1")>>),
     Searched(<<Cataloged("d3")>>),
     OfDevice(ReferenceStatus, {"invalid"}),
     OfDevice(ReferenceStatus, {"valid"}),
     OfDevice(Preparation, {"approval", "matches"}),
     OfDevice(Preparation, {"approval", "matches", "blocked"})}

MCExecutions ==
    {[Observation(Calibration, S04, facts) EXCEPT !.names = <<S05>>] :
        facts \in {{"executed", "passed", "succeeded"}, {"executed", "failed"}, {"executed"},
                   {"blocked"}}}

Run(names, first, recovers, finalizer) ==
    [names |-> names, first |-> first, recovery |-> recovers, finalizer |-> finalizer]

MCAsked ==
    {Run(<<P1, S05, P1>>, None, FALSE, "structured"),
     Run(<<S04>>, "get_machine_status", FALSE, "narrative"),
     Run(<< >>, "list_stations", FALSE, "draft"),
     Run(<<S04>>, None, TRUE, "structured")}

MCWidth == [row \in MCNames |-> IF row = S05 THEN 3 ELSE 4]
-----------------------------------------------------------------------------
sessions == <<session, causes, bodies>>

answers == <<run, executed, messages, pending, stage, output, result>>

(* They share no state: each is explored by itself, beside one initial     *)
(* state of the others. Bound: one file is damaged.                        *)
AnyScope == CHOOSE s \in Scopes : TRUE
AnyCatalog == CHOOSE c \in MCCatalogs : TRUE
AnyRun == CHOOSE r \in MCAsked : TRUE

IsUnused == scope = AnyScope /\ steps = 0 /\ pc = "model"
IsDown ==
    /\ catalog = AnyCatalog /\ ~ serving /\ intact = DOMAIN catalog
    /\ \A r \in DOMAIN request : request[r].searches = 0
IsClosed == session.path = None
IsUnasked == run = AnyRun /\ executed = << >> /\ stage = "model" /\ pending = None

MCInit ==
    /\ Init /\ InitKnowledge /\ Sessions!InitSession /\ Final!InitAnswer /\ InitRecovery
    /\ Cardinality({p \in {<<1, scope = AnyScope>>, <<2, catalog = AnyCatalog>>, <<3, run = AnyRun>>} :
                       ~ p[2]}) <= 1

MCNext ==
    \/ /\ IsDown /\ IsClosed /\ IsUnasked /\ InitRecovery /\ Next
       /\ UNCHANGED <<knowledgeVars, sessions, answers, recoveryVars>>
    \/ /\ IsUnused /\ IsClosed /\ IsUnasked /\ InitRecovery /\ NextKnowledge
       /\ UNCHANGED <<vars, sessions, answers, recoveryVars>>
       /\ \E d \in DOMAIN catalog : DOMAIN catalog \ {d} \subseteq intact'
    \/ /\ IsUnused /\ IsDown /\ IsUnasked /\ InitRecovery /\ Sessions!NextSession
       /\ UNCHANGED <<vars, knowledgeVars, answers, recoveryVars>>
    \/ /\ IsUnused /\ IsDown /\ IsClosed /\ InitRecovery /\ Final!NextAnswer
       /\ UNCHANGED <<vars, knowledgeVars, sessions, recoveryVars>>
    \/ /\ IsUnused /\ IsDown /\ IsClosed /\ IsUnasked /\ NextRecovery
       /\ UNCHANGED <<vars, knowledgeVars, sessions, answers>>

MCSpec == MCInit /\ [][MCNext]_<<vars, knowledgeVars, sessions, answers, recoveryVars>>

MCToolSymmetry == MCRecoverySymmetry \union Permutations(Ids)
=============================================================================
