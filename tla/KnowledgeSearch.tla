--------------------------- MODULE KnowledgeSearch ---------------------------
(***************************************************************************)
(* The knowledge server behind search_documentation: every client searches *)
(* a pipeline of its own (BM25 and embeddings, fused by reciprocal ranks,  *)
(* cut to a candidate set and reranked), built under a lock over the       *)
(* documents the client is cleared for, and cached until the server stops. *)
(* Requests of several threads wait for, build and use the pipelines while *)
(* the mounted document files may be changed.                              *)
(*                                                                         *)
(* infrastructure/knowledge_mcp_server.py, docling_ingestion.py,           *)
(* in_memory_lexical_knowledge_retriever.py, hybrid_knowledge_retriever.py *)
(* in_memory_semantic_knowledge_retriever.py,                              *)
(* reranked_knowledge_retriever.py, persistence/postgres.py                *)
(***************************************************************************)
EXTENDS Integers, FiniteSetsExt, Functions

CONSTANTS
    Clients,        \* the registered MCP identities
    Clearance,      \* what each of them is cleared for
    WarmedUp,       \* those whose pipeline is built before the server serves
    Catalogs,       \* the catalogs a deployment may have: document -> record
    Text,           \* document -> its sections, each a bag of terms
    Queries,        \* sets of terms
    Limits,         \* the top_k a caller may ask for
    Similarity,     \* query -> chunk -> nearness of their embeddings
    Relevance,      \* query -> chunk -> the cross-encoder's score
    Ln,             \* thousandths of the natural logarithm of 1, 2, ...
    RankConstant,   \* 60
    CandidateLimit, \* 10: of each ranking, and of what is reranked
    Requests,       \* the server's threads
    MaxSearches,    \* bound: searches of one thread
    Nothing         \* Python's None

(* The sections of all texts: what a chunk can be.                         *)
Sections == UNION {{d} \X DOMAIN Text[d] : d \in DOMAIN Text}

ASSUME KnowledgeAssumption ==
    /\ Nothing \notin Requests
    /\ \A documents \in Catalogs : DOMAIN documents \subseteq DOMAIN Text

(* Documents and sections are numbered in the order of their identifiers,  *)
(* and a section has a count for each term somebody may ask for.           *)
ASSUME TextAssumption ==
    /\ IsFiniteSet(Sections) /\ Sections \subseteq Nat \X Nat
    /\ \A c \in Sections :
          /\ IsFiniteSet(DOMAIN Text[c[1]][c[2]])
          /\ \A term \in DOMAIN Text[c[1]][c[2]] : Text[c[1]][c[2]][term] \in Nat
          /\ \A query \in Queries :
                query \subseteq DOMAIN Text[c[1]][c[2]] /\ Similarity[query][c] \in Int
    /\ \A n \in 1 .. 2 * Cardinality(Sections) + 2 :
          Ln[n] \in Nat /\ \A m \in 1 .. n : Ln[m] <= Ln[n]

(* Billionths tell the ranks apart.                                        *)
ASSUME RankAssumption ==
    /\ RankConstant \in Nat \ {0} /\ CandidateLimit \in Nat \ {0}
    /\ (RankConstant + CandidateLimit) * (RankConstant + CandidateLimit) <= 1000000000

VARIABLES
    catalog,  \* the document catalog; nothing in the program rewrites it
    intact,   \* the documents whose file still has the cataloged checksum
    serving,  \* the server has come up
    cache,    \* context -> corpus of its pipeline
    holder,   \* the request that holds the factory's lock
    request   \* what each thread does

knowledgeVars == <<catalog, intact, serving, cache, holder, request>>

(* The context the server is constructed with; no caller ever has it.      *)
Fallback == "secure-http-fallback"

Contexts == Clients \union {Fallback}

ClearanceOf(context) == IF context = Fallback THEN 0 ELSE Clearance[context]

-----------------------------------------------------------------------------
(* What a clearance makes of the catalog.                                  *)

(* A station is joined to a document only if its own row is readable.      *)
EmittedStation(document, clearance) ==
    IF document.station # Nothing /\ document.station <= clearance
    THEN document.station ELSE Nothing

LabelOfAnyStation(document, clearance) ==
    IF document.station # Nothing /\ document.station > document.classification
    THEN document.station ELSE document.classification

(* The source's label, joined with that of the station shown with it.      *)
Label(document, clearance) ==
    LET station == EmittedStation(document, clearance)
    IN  IF station # Nothing /\ station > document.classification
        THEN station ELSE document.classification

(* Row-level security filters the rows; the repository labels them.        *)
ListDocuments(documents, clearance) ==
    [d \in {d \in DOMAIN documents : documents[d].classification <= clearance} |->
        [classification |-> Label(documents[d], clearance),
         station |-> EmittedStation(documents[d], clearance)]]

EligibleDocuments(documents, clearance) ==
    {d \in DOMAIN documents : documents[d].classification <= clearance}

(* The chunks <<document, section>> with the provenance they carry.        *)
Chunks(documents, clearance) ==
    LET listed == ListDocuments(documents, clearance)
    IN  [c \in UNION {{d} \X DOMAIN Text[d] : d \in EligibleDocuments(listed, clearance)} |->
            listed[c[1]]]

-----------------------------------------------------------------------------
(* The pipeline over one corpus.                                           *)

Frequency(c, term) == Text[c[1]][c[2]][term]

Length(c) == SumFunction(Text[c[1]][c[2]])

(* Every eligible file is read and compared with its checksum; an empty    *)
(* index is refused, and one without a searchable token.                   *)
IsBuildable(context) ==
    LET corpus == Chunks(catalog, ClearanceOf(context))
    IN  /\ \E c \in DOMAIN corpus : Length(c) > 0
        /\ \A c \in DOMAIN corpus : c[1] \in intact

DocumentFrequency(term, corpus) ==
    Cardinality({c \in DOMAIN corpus : Frequency(c, term) > 0})

(* log(1 + (N - df + 0.5) / (df + 0.5)) in thousandths.                    *)
InverseDocumentFrequency(term, corpus) ==
    Ln[2 * Cardinality(DOMAIN corpus) + 2] - Ln[2 * DocumentFrequency(term, corpus) + 1]

(* Term frequency, dampened (k1 = 3/2) and normalized by length (b = 3/4)  *)
(* against the average of the corpus; in thousandths.                      *)
TermFrequencyWeight(c, term, corpus) ==
    LET tf    == Frequency(c, term)
        total == SumFunction([d \in DOMAIN corpus |-> Length(d)])
    IN  (20000 * tf * total)
            \div ((8 * tf + 3) * total + 9 * Length(c) * Cardinality(DOMAIN corpus))

Bm25(query, c, corpus) ==
    SumFunction([term \in query |-> InverseDocumentFrequency(term, corpus)
                                      * TermFrequencyWeight(c, term, corpus)])

IsIdBefore(c, d) == c[1] < d[1] \/ (c[1] = d[1] /\ c[2] < d[2])

(* A ranking is a set of scored chunks <<score, chunk>>: the best score is *)
(* first, and equal ones are in the order of their chunk_id.               *)
IsAbove(a, b) == a[1] > b[1] \/ (a[1] = b[1] /\ IsIdBefore(a[2], b[2]))

Rank(ranking, a) == 1 + Cardinality({b \in ranking : IsAbove(b, a)})

Top(ranking, limit) == {a \in ranking : Rank(ranking, a) <= limit}

LexicalRanking(query, corpus) ==
    Top({a \in {<<Bm25(query, c, corpus), c>> : c \in DOMAIN corpus} : a[1] > 0},
        CandidateLimit)

SemanticIndex(query, corpus) == {<<Similarity[query][c], c>> : c \in DOMAIN corpus}

SemanticRanking(query, corpus) == Top(SemanticIndex(query, corpus), CandidateLimit)

(* 1 / (60 + rank) in billionths, or nothing. Of ranks up to ten all sums  *)
(* of two are still in order.                                              *)
ReciprocalRank(ranking, c) ==
    SumFunction([a \in {b \in ranking : b[2] = c} |->
                    1000000000 \div (RankConstant + Rank(ranking, a))])

LastRankingOnly(lexical, semantic, c) ==
    IF \E a \in semantic : a[2] = c THEN ReciprocalRank(semantic, c)
                                    ELSE ReciprocalRank(lexical, c)

FusedScore(lexical, semantic, c) == ReciprocalRank(lexical, c) + ReciprocalRank(semantic, c)

ReciprocalRankFusion(lexical, semantic) ==
    {<<FusedScore(lexical, semantic, a[2]), a[2]>> : a \in lexical \union semantic}

Candidates(query, corpus) ==
    {a[2] : a \in Top(ReciprocalRankFusion(LexicalRanking(query, corpus),
                                           SemanticRanking(query, corpus)),
                      CandidateLimit)}

Reranked(query, candidates) == {<<Relevance[query][c], c>> : c \in candidates}

RerankedSearch(query, limit, corpus) == Top(Reranked(query, Candidates(query, corpus)), limit)

(* The best candidates of the cross-encoder, with rank and provenance.     *)
SearchDocumentation(query, limit, corpus) ==
    LET found == RerankedSearch(query, limit, corpus)
    IN  {[chunk |-> a[2], rank |-> Rank(found, a), provenance |-> corpus[a[2]]] : a \in found}

-----------------------------------------------------------------------------
Idle == [pc |-> "idle", client |-> Nothing, query |-> {}, limit |-> 0, corpus |-> Nothing,
         searches |-> 0]

WarmContexts == WarmedUp \union {Fallback}

IsUnderWay(r) == request[r].pc \in {"waiting", "building", "searching"}

InitKnowledge ==
    /\ catalog \in Catalogs
    /\ intact = DOMAIN catalog
    /\ serving = FALSE
    /\ cache = [x \in Contexts |-> Nothing]
    /\ holder = Nothing
    /\ request = [r \in Requests |-> Idle]

(* The server comes up when the fallback and every warm pipeline is built. *)
Starts ==
    /\ ~ serving
    /\ \A x \in WarmContexts : IsBuildable(x)
    /\ serving' = TRUE
    /\ cache' = [x \in Contexts |->
                    IF x \in WarmContexts
                    THEN Chunks(catalog, ClearanceOf(x)) ELSE Nothing]
    /\ UNCHANGED <<catalog, intact, holder, request>>

(* The process ends; its requests are lost with its pipelines.             *)
Stops ==
    /\ serving
    /\ serving' = FALSE
    /\ cache' = [x \in Contexts |-> Nothing]
    /\ holder' = Nothing
    /\ request' = [r \in Requests |->
                    IF IsUnderWay(r) THEN [request[r] EXCEPT !.pc = "failed"] ELSE request[r]]
    /\ UNCHANGED <<catalog, intact>>

(* Somebody changes a mounted document file.                               *)
Damages(d) ==
    /\ d \in intact
    /\ intact' = intact \ {d}
    /\ UNCHANGED <<catalog, serving, cache, holder, request>>

(* The request is authenticated; a caller nobody registered is refused.    *)
Asks(r, client, query, limit) ==
    /\ serving /\ ~ IsUnderWay(r) /\ request[r].searches < MaxSearches
    /\ request' = [request EXCEPT
                     ![r] = [pc |-> IF client \in Clients THEN "waiting" ELSE "denied",
                             client |-> client, query |-> query, limit |-> limit,
                             corpus |-> Nothing, searches |-> @.searches + 1]]
    /\ UNCHANGED <<catalog, intact, serving, cache, holder>>

Moves(r, pc) == request' = [request EXCEPT ![r].pc = pc]

(* for_context: under the lock the pipeline is found, or has to be built.  *)
Finds(r) ==
    /\ request[r].pc = "waiting" /\ holder = Nothing
    /\ cache[request[r].client] # Nothing
    /\ Moves(r, "searching")
    /\ UNCHANGED <<catalog, intact, serving, cache, holder>>

Misses(r) ==
    /\ request[r].pc = "waiting" /\ holder = Nothing
    /\ cache[request[r].client] = Nothing
    /\ holder' = r
    /\ Moves(r, "building")
    /\ UNCHANGED <<catalog, intact, serving, cache>>

Builds(r) ==
    LET client == request[r].client
    IN  /\ request[r].pc = "building" /\ IsBuildable(client)
        /\ cache' = [cache EXCEPT ![client] = Chunks(catalog, ClearanceOf(client))]
        /\ holder' = Nothing
        /\ Moves(r, "searching")
        /\ UNCHANGED <<catalog, intact, serving>>

FailsHoldingTheLock(r) ==
    /\ request[r].pc = "building"
    /\ Moves(r, "failed")
    /\ UNCHANGED <<catalog, intact, serving, cache, holder>>

(* A checksum, the database or the embedding model fails; nothing is kept. *)
FailsToBuild(r) ==
    /\ request[r].pc = "building"
    /\ holder' = Nothing
    /\ Moves(r, "failed")
    /\ UNCHANGED <<catalog, intact, serving, cache>>

(* The pipeline's corpus determines the answer.                            *)
IsAnswered(r) ==
    /\ request[r].pc = "searching" /\ request[r].query # {}
    /\ request' = [request EXCEPT ![r].pc = "answered",
                                  ![r].corpus = cache[request[r].client]]
    /\ UNCHANGED <<catalog, intact, serving, cache, holder>>

(* The query has no searchable token, or a local model does not answer.    *)
FailsToSearch(r) ==
    /\ request[r].pc = "searching"
    /\ Moves(r, "failed")
    /\ UNCHANGED <<catalog, intact, serving, cache, holder>>

Progress(r) ==
    \/ Finds(r)
    \/ Misses(r)
    \/ Builds(r)
    \/ FailsToBuild(r)
    \/ IsAnswered(r)
    \/ FailsToSearch(r)

NextKnowledge ==
    \/ Starts
    \/ Stops
    \/ \E d \in intact : Damages(d)
    \/ \E r \in Requests, query \in Queries, limit \in Limits :
          \E client \in Clients \union {Nothing} : Asks(r, client, query, limit)
    \/ \E r \in Requests : Progress(r)

KnowledgeSpec == InitKnowledge /\ [][NextKnowledge]_knowledgeVars

-----------------------------------------------------------------------------
(* The catalog as a clearance sees it: nothing above it is there, neither  *)
(* a document nor the station of one.                                      *)
Visible(documents, clearance) ==
    [d \in {d \in DOMAIN documents : documents[d].classification <= clearance} |->
        [classification |-> documents[d].classification,
         station |-> EmittedStation(documents[d], clearance)]]

(* What is hidden from a caller has no influence on what it is told: the   *)
(* passages, their order and their labels are those of a catalog without   *)
(* it, whoever built or used a pipeline before.                            *)
AnswersIgnoreTheHidden ==
    \A r \in Requests :
        LET q == request[r]
            clearance == ClearanceOf(q.client)
        IN  q.pc = "answered" =>
                SearchDocumentation(q.query, q.limit, q.corpus)
                  = SearchDocumentation(q.query, q.limit,
                        Chunks(Visible(catalog, clearance), clearance))

IsAgreedAbove(rankings, c, d) ==
    \A ranking \in rankings :
        \E a \in ranking : a[2] = c /\ \A b \in ranking : b[2] = d => IsAbove(a, b)

(* A chunk that both rankings put above a candidate is a candidate: the    *)
(* fusion and its cut never lose what the rankers agree about.             *)
AgreementIsKept ==
    \A r \in Requests : request[r].pc = "answered" =>
        LET query      == request[r].query
            corpus     == request[r].corpus
            rankings   == {LexicalRanking(query, corpus), SemanticRanking(query, corpus)}
            candidates == Candidates(query, corpus)
        IN  \A c \in DOMAIN corpus \ candidates, d \in candidates :
                ~ IsAgreedAbove(rankings, c, d)

(* The lock is held by a request that is building a pipeline and by no     *)
(* other, so none waits for one that has failed, answered or been lost.    *)
LockIsGivenBack ==
    \A r \in Requests : holder = r <=> request[r].pc = "building"
=============================================================================
