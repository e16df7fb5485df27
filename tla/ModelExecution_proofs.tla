------------------------ MODULE ModelExecution_proofs ------------------------
(***************************************************************************)
(* What leaves for a provider may be there, a run speaks to one model, and *)
(* no client is closed under a call: for any runs, requests, models,       *)
(* assignments and reassignments.  And what is said of a model, or of its  *)
(* assignment, is true.                                                    *)
(***************************************************************************)
EXTENDS ModelServices, WellFoundedInduction, TLAPS

-----------------------------------------------------------------------------
(* Classifications.                                                        *)

(* The greatest of some classifications is one of them.                    *)
LEMMA MaxIsGreatest ==
  ASSUME NEW S \in SUBSET Classifications, S # {}
  PROVE  MaxOf(S) \in S /\ \A d \in S : d <= MaxOf(S)
<1>1. \E c \in S : \A d \in S : d <= c
  <2>1. \A d \in S : d \in {0, 1, 2, 3}
    BY DEF Classifications, PUBLIC, RESTRICTED
  <2>2. CASE 3 \in S
    BY <2>1, <2>2
  <2>3. CASE 3 \notin S /\ 2 \in S
    BY <2>1, <2>3
  <2>4. CASE 3 \notin S /\ 2 \notin S /\ 1 \in S
    BY <2>1, <2>4
  <2>5. CASE 3 \notin S /\ 2 \notin S /\ 1 \notin S
    BY <2>1, <2>5
  <2>. QED
    BY <2>2, <2>3, <2>4, <2>5
<1>. QED
  BY <1>1 DEF MaxOf

(* Every profile has a classification.                                     *)
LEMMA ProfilesAreClassified ==
  ASSUME NEW p \in Profiles
  PROVE  ProfileClassification[p] \in Classifications
BY DEF ProfileClassification, Classifications, PUBLIC, INTERNAL, CONFIDENTIAL, RESTRICTED

(* The least sensitive and the most sensitive of some profiles are among   *)
(* them.                                                                   *)
LEMMA MostSensitiveIsOne ==
  ASSUME NEW S \in SUBSET Profiles, S # {}
  PROVE  MostSensitive(S) \in S
<1> DEFINE C == {ProfileClassification[p] : p \in S}
<1>1. C \in SUBSET Classifications /\ C # {}
  BY ProfilesAreClassified
<1>2. PICK p \in S : ProfileClassification[p] = MaxOf(C)
  BY <1>1, MaxIsGreatest
<1>3. \A q \in S : ProfileClassification[q] <= ProfileClassification[p]
  BY <1>1, <1>2, MaxIsGreatest
<1>. QED
  BY <1>3 DEF MostSensitive

(* A request runs under a profile.                                         *)
LEMMA ProfileIsResolved ==
  ASSUME NEW m, NEW clearance, NEW context
  PROVE  ResolveContextualProfile(m, clearance, context) \in Profiles
<1>1. \A c : ProfileForClassification(c) \in Profiles
  BY DEF ProfileForClassification, Profiles
<1>2. IdentifierProfiles(m) \subseteq Profiles
  BY DEF IdentifierProfiles, EntityProfile, Profiles
<1>3. IdentifierProfiles(m) # {} => MostSensitive(IdentifierProfiles(m)) \in Profiles
  BY <1>2, MostSensitiveIsOne
<1>4. ResolveProfile(m, clearance) \in Profiles
  BY <1>1, <1>3 DEF ResolveProfile, Profiles
<1>. QED
  BY <1>1, <1>4 DEF ResolveContextualProfile

(* A policy is that of a valid profile, and never below it or below what   *)
(* the content is classified as.                                           *)
LEMMA PolicyIsResolved ==
  ASSUME NEW p \in Profiles, NEW clearance, NEW c \in Classifications,
         Resolve(p, clearance, c) # None
  PROVE  /\ IsResolvedRunPolicy(Resolve(p, clearance, c))
         /\ c <= Resolve(p, clearance, c).classification
<1> DEFINE minimum == ProfileClassification[p]
           effective == EffectiveClassification({minimum, c})
           policy == [profile |-> p, classification |-> effective, ceiling |-> minimum,
                      tools |-> ProfileTools(p), identity |-> McpIdentityFor(minimum)]
<1>1. minimum \in Classifications
  BY ProfilesAreClassified
<1>2. effective \in Classifications /\ minimum <= effective /\ c <= effective
  BY <1>1, MaxIsGreatest DEF EffectiveClassification
<1>3. Resolve(p, clearance, c) = policy
  BY DEF Resolve
<1>4. ProfileTools(p) # {}
  BY DEF ProfileTools, PublicInformationTools, InternalDiagnosticTools,
         ConfidentialRecoveryTools, RestrictedInformationTools,
         ConfidentialTroubleshootingTools
<1>5. minimum <= minimum
  BY <1>1 DEF Classifications, PUBLIC, RESTRICTED
<1> HIDE DEF minimum, effective
<1>. QED
  BY <1>2, <1>3, <1>4, <1>5 DEF IsResolvedRunPolicy, minimum

(* A request that is not denied runs under a valid policy, whose           *)
(* classification covers what its text is about: its targets, or anything  *)
(* at all when it is prose.                                                *)
LEMMA RequestIsCovered ==
  ASSUME NEW m \in RequestTexts, NEW clearance \in Classifications,
         NEW context \in Classifications \union {None},
         ResolveRequest(m, clearance, context) # None
  PROVE  /\ IsResolvedRunPolicy(ResolveRequest(m, clearance, context))
         /\ Sensitivity(m) \in Classifications
         /\ Sensitivity(m) <= ResolveRequest(m, clearance, context).classification
<1> DEFINE identified == {ProfileClassification[p] : p \in IdentifierProfiles(m)}
           content == ClassifyContent(m, clearance, context)
           all == identified
                    \union {content, IF context # None THEN context ELSE PUBLIC}
           profile == ResolveContextualProfile(m, clearance, context)
<1>1. identified \subseteq Classifications
  BY ProfilesAreClassified DEF IdentifierProfiles, EntityProfile, Profiles
<1>2. content \in Classifications
  BY DEF ClassifyContent, Classifications, PUBLIC, RESTRICTED
<1>3. all \in SUBSET Classifications /\ all # {}
  BY <1>1, <1>2 DEF Classifications, PUBLIC, RESTRICTED
<1>4. MaxOf(all) \in Classifications /\ \A d \in all : d <= MaxOf(all)
  BY <1>3, MaxIsGreatest
<1>5. profile \in Profiles
  BY ProfileIsResolved
<1>6. ResolveRequest(m, clearance, context) = Resolve(profile, clearance, MaxOf(all))
  BY DEF ResolveRequest, EffectiveClassification
<1>7. /\ IsResolvedRunPolicy(ResolveRequest(m, clearance, context))
      /\ MaxOf(all) <= ResolveRequest(m, clearance, context).classification
  <2> HIDE DEF all, profile
  <2>. QED
    BY <1>4, <1>5, <1>6, PolicyIsResolved
<1>8. Sensitivity(m) \in Classifications /\ Sensitivity(m) <= MaxOf(all)
  <2>1. CASE m.form = "prose"
    <3>1. content = RESTRICTED
      BY <2>1 DEF ClassifyContent
    <3>2. Sensitivity(m) = RESTRICTED
      BY <2>1 DEF Sensitivity
    <3>. QED
      BY <1>4, <3>1, <3>2 DEF Classifications, PUBLIC, RESTRICTED
  <2>2. CASE m.form # "prose"
    <3>1. Sensitivity(m) = MaxOf({PUBLIC} \union identified)
      BY <2>2 DEF Sensitivity, EffectiveClassification
    <3>2. {PUBLIC} \union identified \in SUBSET Classifications
      BY <1>1 DEF Classifications, PUBLIC, RESTRICTED
    <3>3. Sensitivity(m) \in {PUBLIC} \union identified
      BY <3>1, <3>2, MaxIsGreatest
    <3>. QED
      BY <1>1, <1>4, <3>3 DEF Classifications, PUBLIC, RESTRICTED
  <2>. QED
    BY <2>1, <2>2
<1>. QED
  BY <1>4, <1>7, <1>8 DEF IsResolvedRunPolicy, Classifications, PUBLIC, RESTRICTED
-----------------------------------------------------------------------------
(* The selection of a model.                                               *)

(* Some natural numbers have a least one.                                  *)
LEMMA LeastNumber ==
  ASSUME NEW S \in SUBSET Nat, S # {}
  PROVE  \E x \in S : \A y \in S : x <= y
<1>1. PICK x \in S : \A y \in S : ~ (<<y, x>> \in OpToRel(<, Nat))
  BY NatLessThanWellFounded, WFMin
<1>2. \A y \in S : ~ (y < x)
  BY <1>1 DEF OpToRel
<1>. QED
  BY <1>2

(* The automatic selection takes one of the models it may take.            *)
LEMMA FirstIsOne ==
  ASSUME NEW S \in SUBSET Models, S # {}, NEW policy
  PROVE  Selection!First(S, policy) \in S
<1> DEFINE key(m) == Selection!SortKey(m, policy)
           A == {m \in S : \A n \in S : key(m)[1] <= key(n)[1]}
           B == {m \in A : \A n \in A : key(m)[2] <= key(n)[2]}
           orders == {Catalog[m].order : m \in B}
<1>1. \A m \in S : /\ key(m)[1] \in {0, 1} /\ key(m)[2] \in {0, 1}
                   /\ key(m)[3] = Catalog[m].order
  BY DEF Selection!SortKey, Selection!QualityRank, Selection!CostRank
<1>2. \A m \in S : Catalog[m].order \in Nat
  BY CatalogAssumption DEF Selection!ModelDefinition
<1> HIDE DEF key
<1>3. A # {} /\ A \subseteq S
  <2>1. CASE \E m \in S : key(m)[1] = 0
    BY <1>1, <2>1
  <2>2. CASE \A m \in S : key(m)[1] # 0
    BY <1>1, <2>2
  <2>. QED
    BY <2>1, <2>2
<1>4. B # {} /\ B \subseteq A
  <2>1. CASE \E m \in A : key(m)[2] = 0
    BY <1>1, <1>3, <2>1
  <2>2. CASE \A m \in A : key(m)[2] # 0
    BY <1>1, <1>3, <2>2
  <2>. QED
    BY <2>1, <2>2
<1>5. orders \in SUBSET Nat /\ orders # {}
  BY <1>2, <1>3, <1>4
<1>6. PICK o \in orders : \A n \in orders : o <= n
  BY <1>5, LeastNumber
<1>7. PICK m \in B : Catalog[m].order = o
  BY <1>6
<1>8. \A n \in S \ {m} : Selection!Precedes(key(m), key(n))
  <2> SUFFICES ASSUME NEW n \in S \ {m} PROVE Selection!Precedes(key(m), key(n))
    OBVIOUS
  <2>0. m \in S
    BY <1>3, <1>4, <1>7
  <2>1. CASE n \notin A
    <3>1. key(m)[1] < key(n)[1]
      BY <1>1, <1>3, <1>4, <1>7, <2>0, <2>1
    <3>. QED
      BY <3>1 DEF Selection!Precedes
  <2>2. CASE n \in A /\ n \notin B
    <3>1. key(m)[1] = key(n)[1]
      BY <1>1, <1>4, <1>7, <2>0, <2>2
    <3>2. key(m)[2] < key(n)[2]
      BY <1>1, <1>3, <1>4, <1>7, <2>0, <2>2
    <3>. QED
      BY <3>1, <3>2 DEF Selection!Precedes
  <2>3. CASE n \in B
    <3>1. key(m)[1] = key(n)[1] /\ key(m)[2] = key(n)[2]
      BY <1>1, <1>4, <1>7, <2>0, <2>3
    <3>2. Catalog[n].order # Catalog[m].order /\ o <= Catalog[n].order
      BY <1>3, <1>6, <1>7, <2>0, <2>3, CatalogAssumption
    <3>3. key(m)[3] < key(n)[3]
      BY <1>1, <1>2, <1>7, <2>0, <3>2
    <3>. QED
      BY <3>1, <3>3 DEF Selection!Precedes
  <2>. QED
    BY <1>4, <2>1, <2>2, <2>3
<1>9. m \in S
  BY <1>3, <1>4, <1>7
<1>. QED
  BY <1>8, <1>9 DEF Selection!First, key

(* A model that may be used for a classification is one of the catalog.    *)
LEMMA ResolvedIsModel ==
  ASSUME NEW c \in Classifications,
         assignments[c] \in Selection!ModelAssignment \union {None},
         Resolved(c).outcome = "EXECUTION_ALLOWED"
  PROVE  Resolved(c).model \in Models
<1> DEFINE a == assignments[c]
<1>1. a # None
  BY DEF Resolved, Selection!ResolveModel, Selection!Decision
<1>2. CASE a.mode = "AUTO"
  <2> DEFINE reason(m) == Selection!ExclusionReason(m, c, Selection!AgentCallRequirements, Keys)
             authorized == {m \in Selection!Models : reason(m) = None}
             auto == Selection!First(authorized, a.policy)
  <2>0. Resolved(c) = Selection!ResolveAuto(a, c, Selection!AgentCallRequirements, Keys)
    BY <1>1, <1>2 DEF Resolved, Selection!ResolveModel
  <2>1. CASE authorized # {}
    <3>0. PICK m \in Selection!Models : reason(m) \notin Selection!ExclusionReasons
      BY <2>1, NoneAssumption
    <3>1. Selection!ResolveAuto(a, c, Selection!AgentCallRequirements, Keys)
            = Selection!Decision("EXECUTION_ALLOWED", auto)
      BY <2>1, <3>0 DEF Selection!ResolveAuto, Selection!ExclusionReasons
    <3>2. auto \in Models
      BY <2>1, FirstIsOne DEF Models, Selection!Models
    <3>. QED
      BY <2>0, <2>1, <3>1, <3>2 DEF Selection!Decision
  <2>2. CASE authorized = {}
    <3>1. Resolved(c).outcome \in {"MODEL_NOT_CONFIGURED", "CAPABILITY_MISMATCH",
                                   "EGRESS_DENIED"}
      BY <2>0, <2>2
         DEF Selection!ResolveAuto, Selection!Decision, Models, Selection!Models
    <3>. QED
      BY <3>1
  <2>. QED
    BY <2>1, <2>2 DEF a
<1>3. CASE a.mode # "AUTO"
  <2>1. a.model \in Models
    BY <1>1, <1>3 DEF Selection!ModelAssignment, Models, Selection!Models
  <2>2. Resolved(c).model = a.model
    BY <1>1, <1>3
       DEF Resolved, Selection!ResolveModel, Selection!ResolveManual, Selection!Decision
  <2>. QED
    BY <2>1, <2>2
<1>. QED
  BY <1>2, <1>3

(* What a model may be told of a classification, it may be told of a lower *)
(* one.                                                                    *)
LEMMA LowerIsAllowed ==
  ASSUME NEW m \in Models, NEW c \in Classifications, NEW d \in Classifications, d <= c,
         Selection!IsModelAllowed(c, m)
  PROVE  Selection!IsModelAllowed(d, m)
<1>1. Catalog[m].max \in Classifications
  BY CatalogAssumption DEF Selection!ModelDefinition, Classifications, Selection!Classifications,
     PUBLIC, RESTRICTED, Selection!PUBLIC, Selection!RESTRICTED
<1>. QED
  BY <1>1
     DEF Selection!IsModelAllowed, Selection!IsAllowed, Selection!AllowedCombinations,
         Classifications, Selection!Classifications, PUBLIC, RESTRICTED, Selection!PUBLIC,
         Selection!INTERNAL, Selection!CONFIDENTIAL, Selection!RESTRICTED
-----------------------------------------------------------------------------
(* The inductive invariant.                                                *)

(* Nothing is in the messages that the clients are not cleared for; a call *)
(* under way was allowed for that, holds its client, and is the only one.  *)
Sound(e) ==
    /\ e.content <= e.cleared
    /\ e.thread = "call" =>
          /\ Selection!IsModelAllowed(e.cleared, e.model)
          /\ e.adapter.active = 1
          /\ e.adapter.state # "closed"
          /\ e.model \in e.adapter.clients
    /\ e.thread # "call" => e.adapter.active = 0
    /\ e.pc = "acquiring" => e.thread = "idle"

(* The execution of a stored run, and what its messages were sent to.      *)
Fits(e, run, models) ==
    /\ e.cleared = run.classification
    /\ models \subseteq {e.model}
    /\ run.status = "WAITING_FOR_APPROVAL" => run.model = e.model

(* A stored run, and what its messages were sent to.                       *)
IsCovered(run, models) ==
    /\ run.content <= run.classification
    /\ run.status = "WAITING_FOR_APPROVAL" => models \subseteq {run.model}

RunInv(r) ==
    /\ executions[r] # None =>
          runs[r] # None /\ Sound(executions[r]) /\ Fits(executions[r], runs[r], served[r])
    /\ IF runs[r] = None THEN served[r] = {} ELSE IsCovered(runs[r], served[r])
    /\ \A m, n \in served[r] : m = n

IInv == TypeOK /\ \A r \in Runs : RunInv(r)

(* A run none of whose state changes.                                      *)
LEMMA BystanderStays ==
  ASSUME NEW r \in Runs, RunInv(r),
         executions'[r] = executions[r] \/ executions'[r] = None,
         runs'[r] = runs[r], served'[r] = served[r]
  PROVE  RunInv(r)'
BY DEF RunInv

(* One run moves: to run, with the execution x, its messages sent to       *)
(* models.                                                                 *)
LEMMA RunMoves ==
  ASSUME IInv, NEW r \in Runs,
         NEW x \in Execution \union {None}, executions' = [executions EXCEPT ![r] = x],
         NEW run \in StoredRun, runs' = [runs EXCEPT ![r] = run],
         NEW models \in SUBSET Models, served' = [served EXCEPT ![r] = models],
         x # None => Sound(x) /\ Fits(x, run, models),
         IsCovered(run, models), \A m, n \in models : m = n,
         UNCHANGED <<assignments, serving, changes>>
  PROVE  IInv'
<1>1. /\ executions'[r] = x
      /\ executions' \in [Runs -> Execution \union {None}]
      /\ \A s \in Runs : s # r => executions'[s] = executions[s]
  BY DEF IInv, TypeOK
<1>2. /\ runs'[r] = run /\ runs' \in [Runs -> StoredRun \union {None}]
      /\ \A s \in Runs : s # r => runs'[s] = runs[s]
  BY DEF IInv, TypeOK
<1>3. /\ served'[r] = models /\ served' \in [Runs -> SUBSET Models]
      /\ \A s \in Runs : s # r => served'[s] = served[s]
  BY DEF IInv, TypeOK
<1>4. TypeOK'
  BY <1>1, <1>2, <1>3 DEF IInv, TypeOK
<1>5. run # None
  BY NoneAssumption
<1>6. RunInv(r)'
  BY <1>1, <1>2, <1>3, <1>5 DEF RunInv
<1>7. \A s \in Runs : s # r => RunInv(s)'
  BY <1>1, <1>2, <1>3, BystanderStays DEF IInv
<1>. QED
  BY <1>4, <1>6, <1>7 DEF IInv

(* What an execution under way is.                                         *)
LEMMA ExecutionIsSound ==
  ASSUME IInv, NEW r \in Runs, executions[r] # None
  PROVE  /\ executions[r] \in Execution
         /\ runs[r] \in StoredRun
         /\ served[r] \in SUBSET Models
         /\ Sound(executions[r])
         /\ Fits(executions[r], runs[r], served[r])
         /\ IsCovered(runs[r], served[r])
BY DEF IInv, TypeOK, RunInv

(* An execution goes on, with its model and for its classification.        *)
LEMMA ExecutionGoesOn ==
  ASSUME IInv, NEW r \in Runs, executions[r] # None,
         NEW e \in Execution, Sets(r, e), Sound(e),
         e.model = executions[r].model, e.cleared = executions[r].cleared,
         UNCHANGED <<assignments, serving, changes, runs, served>>
  PROVE  IInv'
<1>1. /\ runs[r] \in StoredRun
      /\ served[r] \in SUBSET Models
      /\ Fits(executions[r], runs[r], served[r])
      /\ IsCovered(runs[r], served[r])
  BY ExecutionIsSound
<1>2. runs' = [runs EXCEPT ![r] = runs[r]] /\ served' = [served EXCEPT ![r] = served[r]]
  BY DEF IInv, TypeOK
<1>3. Fits(e, runs[r], served[r])
  BY <1>1 DEF Fits
<1>4. PICK x \in {e, None} : executions' = [executions EXCEPT ![r] = x]
  BY DEF Sets
<1>5. \A m, n \in served[r] : m = n
  BY DEF IInv, RunInv
<1>6. x \in Execution \union {None} /\ (x # None => Sound(x) /\ Fits(x, runs[r], served[r]))
  BY <1>3
<1>7. UNCHANGED <<assignments, serving, changes>>
  OBVIOUS
<1>. QED
  BY ONLY IInv, <1>1, <1>2, <1>4, <1>5, <1>6, <1>7, RunMoves

(* A node that comes back without being in a call.                         *)
LEMMA LeftIsSound ==
  ASSUME NEW e \in Execution, e.content <= e.cleared, e.adapter.active = 0,
         NEW next \in {"deciding", "normalizing", "reading", "interrupted", "ended", "failed"}
  PROVE  /\ Left(e, next) \in Execution
         /\ Sound(Left(e, next))
         /\ Left(e, next).model = e.model
         /\ Left(e, next).cleared = e.cleared
<1>1. e.adapter \in Adapters!Adapter
  BY DEF Execution
<1>2. /\ Adapters!Closing(e.adapter) \in Adapters!Adapter
      /\ Adapters!Closing(e.adapter).active = 0
  BY <1>1 DEF Adapters!Closing, Adapters!Adapter
<1>3. CASE e.pc = "working"
  <2> DEFINE left == [e EXCEPT !.pc = "releasing", !.thread = "idle", !.next = next,
                               !.adapter = Adapters!Closing(@)]
  <2>1. Left(e, next) = left
    BY <1>3 DEF Left
  <2>2. /\ left \in Execution
        /\ left.model = e.model /\ left.cleared = e.cleared /\ left.content = e.content
        /\ left.adapter = Adapters!Closing(e.adapter)
        /\ left.thread = "idle"
    BY <1>2 DEF Execution
  <2> HIDE DEF left
  <2>. QED
    BY <1>2, <2>1, <2>2 DEF Sound
<1>4. CASE e.pc # "working"
  <2> DEFINE left == [e EXCEPT !.thread = "idle"]
  <2>1. Left(e, next) = left
    BY <1>4 DEF Left
  <2>2. /\ left \in Execution
        /\ left.model = e.model /\ left.cleared = e.cleared /\ left.content = e.content
        /\ left.adapter = e.adapter
        /\ left.thread = "idle"
    BY DEF Execution
  <2> HIDE DEF left
  <2>. QED
    BY <2>1, <2>2 DEF Sound
<1>. QED
  BY <1>3, <1>4

(* A call is over: its adapter is that of an execution without one.        *)
LEMMA FinishedIsIdle ==
  ASSUME NEW e \in Execution, Sound(e), e.thread = "call"
  PROVE  LET finished == [e EXCEPT !.adapter = Adapters!Finished(@)]
         IN  /\ finished \in Execution
             /\ finished.adapter.active = 0
             /\ finished.model = e.model /\ finished.cleared = e.cleared
             /\ finished.content = e.content /\ finished.pc = e.pc
             /\ finished.content <= finished.cleared
             /\ finished.pc # "acquiring"
<1>1. e.adapter \in Adapters!Adapter /\ e.adapter.active = 1
  BY DEF Execution, Sound
<1>2. /\ Adapters!Finished(e.adapter) \in Adapters!Adapter
      /\ Adapters!Finished(e.adapter).active = 0
  BY <1>1 DEF Adapters!Finished, Adapters!Adapter
<1>. QED
  BY <1>2 DEF Execution, Sound
-----------------------------------------------------------------------------
(* The steps of an execution.                                              *)

(* The worker has opened the adapter.                                      *)
LEMMA AcquiredKeeps ==
  ASSUME IInv, NEW r \in Runs, Acquired(r)
  PROVE  IInv'
<1> DEFINE e == executions[r]
           thread == IF e.next = "deciding" THEN "node" ELSE "idle"
           acquired == [e EXCEPT !.pc = "working", !.thread = thread]
<1>1. /\ e # None /\ e.pc = "acquiring"
      /\ Sets(r, acquired)
      /\ UNCHANGED <<assignments, serving, changes, runs, served>>
  BY DEF Acquired, At
<1>2. e \in Execution /\ Sound(e)
  BY <1>1, ExecutionIsSound
<1>3. /\ acquired \in Execution
      /\ acquired.model = e.model /\ acquired.cleared = e.cleared
      /\ acquired.content = e.content /\ acquired.adapter = e.adapter
      /\ acquired.pc = "working" /\ acquired.thread # "call"
  BY <1>2 DEF Execution
<1> HIDE DEF acquired
<1>4. Sound(acquired)
  BY <1>1, <1>2, <1>3 DEF Sound
<1>. QED
  BY <1>1, <1>3, <1>4, ExecutionGoesOn

(* The node calls its model, if it may.                                    *)
LEMMA CallsKeep ==
  ASSUME IInv, NEW r \in Runs, NEW has_tools \in BOOLEAN, Calls(r, has_tools)
  PROVE  IInv'
<1> DEFINE e == executions[r]
           has_format == e.next = "normalizing"
           called == [e EXCEPT !.thread = "call", !.turns = @ + 1,
                               !.adapter = Adapters!Admitted(@, e.model)]
<1>1. /\ e # None /\ e.thread = "node"
      /\ UNCHANGED <<assignments, serving, changes, runs>>
  BY DEF Calls, InNode
<1>2. /\ e \in Execution /\ Sound(e)
      /\ runs[r] \in StoredRun
      /\ served[r] \in SUBSET Models
      /\ Fits(e, runs[r], served[r])
      /\ IsCovered(runs[r], served[r])
  BY <1>1, ExecutionIsSound
<1>3. CASE HasTurns(e) /\ CallOutcome(e, has_tools /\ ~ has_format, has_format) = "EXECUTED"
  <2>1. Sets(r, called) /\ served' = [served EXCEPT ![r] = @ \union {e.model}]
    BY <1>3 DEF Calls
  <2>2. /\ Selection!EgressChecked(e.cleared, e.model)
        /\ e.adapter.state = "open"
    BY <1>3 DEF CallOutcome, Adapters!Admits
  <2>3. Selection!IsModelAllowed(e.cleared, e.model)
    BY <2>2
       DEF Selection!EgressChecked, Selection!AuthorizeRequest, Selection!IsAuthorizedFor
  <2>4. e.adapter \in Adapters!Adapter /\ e.adapter.active = 0
    BY <1>1, <1>2 DEF Execution, Sound
  <2>5. /\ Adapters!Admitted(e.adapter, e.model) \in Adapters!Adapter
        /\ Adapters!Admitted(e.adapter, e.model).active = 1
        /\ Adapters!Admitted(e.adapter, e.model).state = "open"
        /\ e.model \in Adapters!Admitted(e.adapter, e.model).clients
    <3>1. e.model \in DOMAIN Catalog
      BY <1>2 DEF Execution, Models
    <3>2. e.adapter.clients \union {e.model} \in SUBSET DOMAIN Catalog
      BY <2>4, <3>1 DEF Adapters!Adapter
    <3>3. e.adapter.active + 1 = 1 /\ 1 \in 0 .. 1
      BY <2>4
    <3>. HIDE DEF e
    <3>. QED
      BY <2>2, <2>4, <3>2, <3>3 DEF Adapters!Admitted, Adapters!Adapter
  <2>6. e.turns + 1 \in 0 .. MaxTurns
    BY <1>2, <1>3, RequestsAssumption DEF HasTurns, Execution
  <2>7. /\ called \in Execution
        /\ called.model = e.model /\ called.cleared = e.cleared
        /\ called.content = e.content /\ called.pc = e.pc
        /\ called.adapter = Adapters!Admitted(e.adapter, e.model)
        /\ called.thread = "call"
    BY <1>2, <2>5, <2>6 DEF Execution
  <2> DEFINE models == served[r] \union {e.model}
  <2>8. e.pc # "acquiring"
    BY <1>1, <1>2 DEF Sound
  <2>9. served' = [served EXCEPT ![r] = models] /\ models \in SUBSET Models
    BY <1>2, <2>1 DEF Execution
  <2>10. /\ Fits(called, runs[r], models)
         /\ IsCovered(runs[r], models)
         /\ \A m, n \in models : m = n
    BY <1>2, <2>7 DEF Fits, IsCovered
  <2>11. PICK x \in {called, None} : executions' = [executions EXCEPT ![r] = x]
    BY <2>1 DEF Sets
  <2>12. runs' = [runs EXCEPT ![r] = runs[r]]
    BY <1>1 DEF IInv, TypeOK
  <2> HIDE DEF called, models
  <2>13. Sound(called)
    BY <1>2, <2>3, <2>5, <2>7, <2>8 DEF Sound
  <2>. QED
    BY <1>1, <1>2, <2>7, <2>9, <2>10, <2>11, <2>12, <2>13, RunMoves
<1>4. CASE ~ (HasTurns(e) /\ CallOutcome(e, has_tools /\ ~ has_format, has_format) = "EXECUTED")
  <2>1. Sets(r, Left(e, "failed")) /\ UNCHANGED served
    BY <1>4 DEF Calls
  <2>2. e.content <= e.cleared /\ e.adapter.active = 0
    BY <1>1, <1>2 DEF Sound
  <2>. QED
    BY <1>1, <1>2, <2>1, <2>2, LeftIsSound, ExecutionGoesOn
<1>. QED
  BY <1>3, <1>4

(* The provider answers.                                                   *)
LEMMA AnswersKeeps ==
  ASSUME IInv, NEW r \in Runs, NEW next \in {"reading", "normalizing", "ended"},
         Answers(r, next)
  PROVE  IInv'
<1> DEFINE before == executions[r]
           e == [before EXCEPT !.adapter = Adapters!Finished(@)]
           thread == IF next = "normalizing" THEN "node" ELSE "idle"
           behind == [e EXCEPT !.thread = thread]
           on == [e EXCEPT !.thread = thread, !.next = next]
<1>1. /\ before # None /\ before.thread = "call"
      /\ UNCHANGED <<assignments, serving, changes, runs, served>>
  BY DEF Answers, InCall
<1>2. before \in Execution /\ Sound(before)
  BY <1>1, ExecutionIsSound
<1>3. /\ e \in Execution
      /\ e.adapter.active = 0
      /\ e.model = before.model /\ e.cleared = before.cleared
      /\ e.content <= e.cleared
      /\ e.pc = before.pc /\ e.pc # "acquiring"
  BY <1>1, <1>2, FinishedIsIdle
<1>4. Sets(r, Left(e, next)) \/ Sets(r, behind) \/ Sets(r, on)
  <2>1. CASE next = "ended"
    BY <2>1 DEF Answers
  <2>2. CASE next # "ended" /\ e.pc # "working"
    BY <1>3, <2>2 DEF Answers
  <2>3. CASE next = "normalizing" /\ e.pc = "working"
    BY <1>3, <2>3 DEF Answers
  <2>4. CASE next = "reading" /\ e.pc = "working"
    BY <1>3, <2>4 DEF Answers
  <2>. QED
    BY <2>1, <2>2, <2>3, <2>4
<1>5. CASE Sets(r, Left(e, next))
  <2> HIDE DEF e
  <2>. QED
    BY <1>1, <1>3, <1>5, LeftIsSound, ExecutionGoesOn
<1>6. ASSUME NEW x \in {behind, on}, Sets(r, x) PROVE IInv'
  <2> HIDE DEF e
  <2>1. /\ x \in Execution
        /\ x.model = e.model /\ x.cleared = e.cleared /\ x.content = e.content
        /\ x.adapter = e.adapter /\ x.pc = e.pc /\ x.thread # "call"
    BY <1>3, <1>6 DEF Execution
  <2>2. Sound(x)
    BY <1>3, <2>1 DEF Sound
  <2>. QED
    BY <1>1, <1>3, <1>6, <2>1, <2>2, ExecutionGoesOn
<1>. QED
  BY <1>4, <1>5, <1>6

(* The provider fails.                                                     *)
LEMMA ProviderFailsKeeps ==
  ASSUME IInv, NEW r \in Runs, ProviderFails(r)
  PROVE  IInv'
<1> DEFINE before == executions[r]
           e == [before EXCEPT !.adapter = Adapters!Finished(@)]
<1>1. /\ before # None /\ before.thread = "call"
      /\ Sets(r, Left(e, "failed"))
      /\ UNCHANGED <<assignments, serving, changes, runs, served>>
  BY DEF ProviderFails, InCall
<1>2. before \in Execution /\ Sound(before)
  BY <1>1, ExecutionIsSound
<1>3. /\ e \in Execution
      /\ e.adapter.active = 0
      /\ e.model = before.model /\ e.cleared = before.cleared
      /\ e.content <= e.cleared
  BY <1>1, <1>2, FinishedIsIdle
<1> HIDE DEF e
<1>. QED
  BY <1>1, <1>3, LeftIsSound, ExecutionGoesOn

(* A read tool returns.                                                    *)
LEMMA ObservesKeeps ==
  ASSUME IInv, NEW r \in Runs, NEW label \in Labels, Observes(r, label)
  PROVE  IInv'
<1> DEFINE e == executions[r]
           accepted == label # None /\ label <= runs[r].classification
           observed == [e EXCEPT !.cleared = Selection!Raised(@, label),
                                 !.content = EffectiveClassification({@, label}),
                                 !.thread = "node", !.next = "deciding"]
<1>1. /\ e # None /\ e.pc = "working" /\ e.thread = "idle"
      /\ Sets(r, IF accepted THEN observed ELSE Left(e, "failed"))
      /\ UNCHANGED <<assignments, serving, changes, runs, served>>
  BY DEF Observes, Reading, At
<1>2. e \in Execution /\ Sound(e) /\ Fits(e, runs[r], served[r])
  BY <1>1, ExecutionIsSound
<1>3. CASE accepted
  <2>1. label \in Classifications
    BY <1>3, RequestsAssumption
  <2>2. e.content \in Classifications /\ e.cleared \in Classifications
    BY <1>2 DEF Execution
  <2>3. label <= e.cleared
    BY <1>2, <1>3 DEF Fits
  <2>4. Selection!Raised(e.cleared, label) = e.cleared
    BY <2>1, <2>2, <2>3 DEF Selection!Raised, Classifications, PUBLIC, RESTRICTED
  <2>5. EffectiveClassification({e.content, label}) \in {e.content, label}
    BY <2>1, <2>2, MaxIsGreatest DEF EffectiveClassification
  <2>6. /\ EffectiveClassification({e.content, label}) \in Classifications
        /\ EffectiveClassification({e.content, label}) <= e.cleared
    BY <1>2, <2>1, <2>2, <2>3, <2>5 DEF Sound
  <2>7. /\ observed \in Execution
        /\ observed.model = e.model /\ observed.cleared = e.cleared
        /\ observed.content = EffectiveClassification({e.content, label})
        /\ observed.thread = "node" /\ observed.pc = "working"
        /\ observed.adapter = e.adapter
    BY <1>1, <1>2, <2>4, <2>6 DEF Execution
  <2>8. Sets(r, observed)
    BY <1>1, <1>3
  <2> HIDE DEF observed
  <2>9. Sound(observed)
    BY <1>1, <1>2, <2>6, <2>7 DEF Sound
  <2>. QED
    BY <1>1, <2>7, <2>8, <2>9, ExecutionGoesOn
<1>4. CASE ~ accepted
  <2>1. Sets(r, Left(e, "failed"))
    BY <1>1, <1>4
  <2>2. e.content <= e.cleared /\ e.adapter.active = 0
    BY <1>1, <1>2 DEF Sound
  <2>. QED
    BY <1>1, <1>2, <2>1, <2>2, LeftIsSound, ExecutionGoesOn
<1>. QED
  BY <1>3, <1>4

(* The graph is interrupted.                                               *)
LEMMA InterruptsKeeps ==
  ASSUME IInv, NEW r \in Runs, Interrupts(r)
  PROVE  IInv'
<1> DEFINE e == executions[r]
<1>1. /\ e # None /\ e.thread = "idle"
      /\ Sets(r, Left(e, "interrupted"))
      /\ UNCHANGED <<assignments, serving, changes, runs, served>>
  BY DEF Interrupts, Reading, At
<1>2. e \in Execution /\ Sound(e)
  BY <1>1, ExecutionIsSound
<1>3. e.content <= e.cleared /\ e.adapter.active = 0
  BY <1>1, <1>2 DEF Sound
<1>. QED
  BY <1>1, <1>2, <1>3, LeftIsSound, ExecutionGoesOn

(* The request is cancelled, wherever the thread of its node is.           *)
LEMMA CancelledKeeps ==
  ASSUME IInv, NEW r \in Runs, Cancelled(r)
  PROVE  IInv'
<1> DEFINE e == executions[r]
           cancelled == [e EXCEPT !.pc = "releasing", !.next = "failed",
                                  !.adapter = Adapters!Closing(@)]
<1>1. /\ e # None
      /\ Sets(r, cancelled)
      /\ UNCHANGED <<assignments, serving, changes, runs, served>>
  BY DEF Cancelled, At
<1>2. e \in Execution /\ Sound(e)
  BY <1>1, ExecutionIsSound
<1>3. /\ Adapters!Closing(e.adapter) \in Adapters!Adapter
      /\ Adapters!Closing(e.adapter).active = e.adapter.active
      /\ Adapters!Closing(e.adapter).clients = e.adapter.clients
      /\ Adapters!Closing(e.adapter).state = "closed" => e.adapter.state = "closed"
  <2>1. e.adapter \in Adapters!Adapter
    BY <1>2 DEF Execution
  <2> HIDE DEF e
  <2>. QED
    BY <2>1 DEF Adapters!Closing, Adapters!Adapter
<1>4. /\ cancelled \in Execution
      /\ cancelled.model = e.model /\ cancelled.cleared = e.cleared
      /\ cancelled.content = e.content /\ cancelled.thread = e.thread
      /\ cancelled.adapter = Adapters!Closing(e.adapter)
      /\ cancelled.pc = "releasing"
  BY <1>2, <1>3 DEF Execution
<1> HIDE DEF cancelled
<1>5. Sound(cancelled)
  BY <1>2, <1>3, <1>4 DEF Sound
<1>. QED
  BY <1>1, <1>4, <1>5, ExecutionGoesOn

(* The adapter is closed, and the run stored.                              *)
LEMMA ReleasedKeeps ==
  ASSUME IInv, NEW r \in Runs, Released(r)
  PROVE  IInv'
<1> DEFINE e == executions[r]
           released == [e EXCEPT !.pc = "released", !.adapter = Adapters!Closed(@)]
           failed == [runs[r] EXCEPT !.status = "FAILED"]
           status == IF e.next = "interrupted" THEN "WAITING_FOR_APPROVAL" ELSE "SUCCESS"
           stored == [runs[r] EXCEPT !.status = status, !.model = e.model,
                                     !.content = e.content]
<1>1. /\ e # None /\ e.pc = "releasing"
      /\ e.adapter.active = 0
      /\ Sets(r, released)
      /\ UNCHANGED <<assignments, serving, changes, served>>
  BY DEF Released, At, Adapters!IsDrained
<1>2. PICK run \in {failed, stored} : runs' = [runs EXCEPT ![r] = run]
  BY DEF Released
<1>3. /\ e \in Execution /\ Sound(e)
      /\ runs[r] \in StoredRun
      /\ served[r] \in SUBSET Models
      /\ Fits(e, runs[r], served[r])
      /\ IsCovered(runs[r], served[r])
      /\ \A m, n \in served[r] : m = n
  BY <1>1, ExecutionIsSound DEF IInv, RunInv
<1>4. /\ run \in StoredRun
      /\ run.classification = runs[r].classification
      /\ run.content \in {runs[r].content, e.content}
      /\ run.status = "WAITING_FOR_APPROVAL" => run.model = e.model
  <2> HIDE DEF e
  <2>1. /\ failed \in StoredRun
        /\ failed.classification = runs[r].classification
        /\ failed.content = runs[r].content
        /\ failed.status = "FAILED"
    BY <1>3 DEF StoredRun
  <2>2. e.model \in Models /\ e.content \in Classifications
    BY <1>3 DEF Execution
  <2>3. /\ stored \in StoredRun
        /\ stored.classification = runs[r].classification
        /\ stored.content = e.content
        /\ stored.model = e.model
    BY <1>3, <2>2 DEF StoredRun
  <2> HIDE DEF failed, stored
  <2>. QED
    BY <1>2, <2>1, <2>3
<1>5. e.thread # "call"
  BY <1>1, <1>3 DEF Sound
<1>6. /\ Adapters!Closed(e.adapter) \in Adapters!Adapter
      /\ Adapters!Closed(e.adapter).active = 0
  <2>1. e.adapter \in Adapters!Adapter
    BY <1>3 DEF Execution
  <2> HIDE DEF e
  <2>. QED
    BY <1>1, <2>1 DEF Adapters!Closed, Adapters!Adapter
<1>7. /\ released \in Execution
      /\ released.model = e.model /\ released.cleared = e.cleared
      /\ released.content = e.content /\ released.thread = e.thread
      /\ released.adapter = Adapters!Closed(e.adapter)
      /\ released.pc = "released"
  BY <1>3, <1>6 DEF Execution
<1>8. PICK x \in {released, None} : executions' = [executions EXCEPT ![r] = x]
  BY <1>1 DEF Sets
<1>9. served' = [served EXCEPT ![r] = served[r]]
  BY <1>1 DEF IInv, TypeOK
<1> HIDE DEF released, e, failed, stored
<1>10. Sound(released)
  BY <1>3, <1>5, <1>6, <1>7 DEF Sound
<1>11. Fits(released, run, served[r])
  BY <1>3, <1>4, <1>7 DEF Fits
<1>12. IsCovered(run, served[r])
  BY <1>3, <1>4 DEF IsCovered, Fits, Sound
<1>. QED
  BY <1>1, <1>2, <1>3, <1>4, <1>7, <1>8, <1>9, <1>10, <1>11, <1>12, RunMoves
-----------------------------------------------------------------------------
(* A message becomes a run, and a run is resumed.                          *)

(* What is stored of a run of some of them is a classification of a run.   *)
LEMMA ContextIsClassified ==
  ASSUME IInv, NEW clearance
  PROVE  TrustedContext(PreviousRuns(clearance)) \in Classifications \union {None}
<1> DEFINE previous == PreviousRuns(clearance)
           terminal == {r \in previous : IsTerminal(r)}
           C == {runs[r].classification : r \in terminal}
<1>1. \A r \in terminal : runs[r] \in StoredRun
  BY DEF PreviousRuns, IInv, TypeOK
<1>2. C \in SUBSET Classifications
  BY <1>1 DEF StoredRun
<1>3. terminal # {} => MaxOf(C) \in Classifications
  BY <1>2, MaxIsGreatest
<1>. QED
  BY <1>3 DEF TrustedContext

(* The turns a new run is given are no more sensitive than it is.          *)
LEMMA ConversationIsCovered ==
  ASSUME IInv, NEW clearance, NEW c \in Classifications, NEW s \in Classifications, s <= c
  PROVE  LET contents == {runs[p].content :
                             p \in ConversationContext(PreviousRuns(clearance), c)}
             content == EffectiveClassification({s} \union contents)
         IN  content \in Classifications /\ content <= c
<1> DEFINE context == ConversationContext(PreviousRuns(clearance), c)
           contents == {runs[p].content : p \in context}
           content == EffectiveClassification({s} \union contents)
<1>1. \A p \in context : /\ runs[p] \in StoredRun
                         /\ runs[p].content <= runs[p].classification
                         /\ runs[p].classification <= c
  BY DEF ConversationContext, PreviousRuns, IInv, TypeOK, RunInv, IsCovered
<1>2. \A d \in contents : d \in Classifications /\ d <= c
  BY <1>1 DEF StoredRun, Classifications, PUBLIC, RESTRICTED
<1>3. {s} \union contents \in SUBSET Classifications
  BY <1>2
<1>4. content \in {s} \union contents
  BY <1>3, MaxIsGreatest DEF EffectiveClassification
<1>. QED
  BY <1>2, <1>4

(* An execution begins with an adapter of its own, and nothing sent.       *)
LEMMA BeginningIsSound ==
  ASSUME NEW model \in Models, NEW c \in Classifications, NEW content \in Classifications,
         content <= c, NEW next \in {"deciding", "reading"}
  PROVE  LET e == [pc |-> "acquiring", thread |-> "idle", next |-> next, model |-> model,
                   cleared |-> c, content |-> content, turns |-> 0,
                   adapter |-> Adapters!NewAdapter]
         IN  e \in Execution /\ Sound(e) /\ e.model = model /\ e.cleared = c
<1>1. /\ Adapters!NewAdapter \in Adapters!Adapter
      /\ Adapters!NewAdapter.active = 0
  BY DEF Adapters!NewAdapter, Adapters!Adapter
<1>2. 0 \in 0 .. MaxTurns
  BY RequestsAssumption
<1>. QED
  BY <1>1, <1>2 DEF Execution, Sound

(* A message becomes a run, or is refused a model.                         *)
LEMMA StartKeeps ==
  ASSUME IInv, NEW r \in Runs, NEW m \in Texts, NEW clearance \in UserClearances,
         Start(r, m, clearance)
  PROVE  IInv'
<1> DEFINE previous == PreviousRuns(clearance)
           policy == ResolveRequest(m, clearance, TrustedContext(previous))
           c == policy.classification
           content == EffectiveClassification(
                         {Sensitivity(m)}
                           \union {runs[p].content : p \in ConversationContext(previous, c)})
           decision == Resolved(c)
           refused == decision.outcome # "EXECUTION_ALLOWED"
           run == [classification |-> c, status |-> IF refused THEN "FAILED" ELSE "RUNNING",
                   model |-> None, content |-> Sensitivity(m)]
           e == [pc |-> "acquiring", thread |-> "idle", next |-> "deciding",
                 model |-> decision.model, cleared |-> c, content |-> content, turns |-> 0,
                 adapter |-> Adapters!NewAdapter]
           x == IF refused THEN None ELSE e
<1>1. /\ runs[r] = None
      /\ policy # None
      /\ runs' = [runs EXCEPT ![r] = run]
      /\ IF refused THEN UNCHANGED executions ELSE executions' = [executions EXCEPT ![r] = e]
      /\ UNCHANGED <<assignments, serving, changes, served>>
  BY DEF Start, Begins
<1>2. m \in RequestTexts /\ clearance \in Classifications
  BY RequestsAssumption
<1>3. TrustedContext(previous) \in Classifications \union {None}
  BY ContextIsClassified
<1>4. /\ IsResolvedRunPolicy(policy)
      /\ Sensitivity(m) \in Classifications
      /\ Sensitivity(m) <= c
  BY <1>1, <1>2, <1>3, RequestIsCovered
<1>5. c \in Classifications
  BY <1>4 DEF IsResolvedRunPolicy
<1>6. content \in Classifications /\ content <= c
  BY <1>4, <1>5, ConversationIsCovered
<1>7. assignments[c] \in Selection!ModelAssignment \union {None}
  BY <1>5 DEF IInv, TypeOK
<1>8. ~ refused => decision.model \in Models
  BY <1>5, <1>7, ResolvedIsModel
<1>9. executions[r] = None /\ served[r] = {}
  BY <1>1 DEF IInv, RunInv
<1> HIDE DEF c, content, decision
<1>10. run \in StoredRun /\ run.content = Sensitivity(m) /\ run.classification = c
       /\ run.status # "WAITING_FOR_APPROVAL"
  BY <1>4, <1>5 DEF StoredRun
<1>11. ~ refused => e \in Execution /\ Sound(e) /\ e.cleared = c
  BY <1>5, <1>6, <1>8, BeginningIsSound
<1> HIDE DEF run, e
<1>12. executions' = [executions EXCEPT ![r] = x]
  BY <1>1, <1>9 DEF IInv, TypeOK
<1>13. x \in Execution \union {None}
       /\ (x # None => Sound(x) /\ Fits(x, run, {}))
  BY <1>10, <1>11 DEF Fits
<1>14. served' = [served EXCEPT ![r] = {}] /\ {} \in SUBSET Models
  BY <1>1, <1>9 DEF IInv, TypeOK
<1>15. IsCovered(run, {})
  BY <1>4, <1>10 DEF IsCovered
<1> HIDE DEF x
<1>. QED
  BY <1>1, <1>10, <1>12, <1>13, <1>14, <1>15, RunMoves

(* A run that waits goes on with its own model, or fails.                  *)
LEMMA ResumeKeeps ==
  ASSUME IInv, NEW r \in Runs, Resume(r)
  PROVE  IInv'
<1> DEFINE c == runs[r].classification
           decision == PersistedModel(r)
           refused == decision.outcome # "EXECUTION_ALLOWED"
           status == IF refused THEN "FAILED" ELSE "RUNNING"
           run == [runs[r] EXCEPT !.status = status]
           e == [pc |-> "acquiring", thread |-> "idle", next |-> "reading",
                 model |-> decision.model, cleared |-> c, content |-> runs[r].content,
                 turns |-> 0, adapter |-> Adapters!NewAdapter]
           x == IF refused THEN None ELSE e
<1>1. /\ runs[r] # None
      /\ runs[r].status = "WAITING_FOR_APPROVAL"
      /\ executions[r] = None
      /\ runs' = [runs EXCEPT ![r] = run]
      /\ IF refused THEN UNCHANGED executions ELSE executions' = [executions EXCEPT ![r] = e]
      /\ UNCHANGED <<assignments, serving, changes, served>>
  BY DEF Resume, Begins
<1>2. /\ runs[r] \in StoredRun
      /\ served[r] \in SUBSET Models
      /\ runs[r].content <= c
      /\ served[r] \subseteq {runs[r].model}
  BY <1>1 DEF IInv, TypeOK, RunInv, IsCovered
<1>3. c \in Classifications /\ runs[r].content \in Classifications
  BY <1>2 DEF StoredRun
<1>4. assignments[c] \in Selection!ModelAssignment \union {None}
  BY <1>3 DEF IInv, TypeOK
<1>5. ~ refused => decision = Resolved(c) /\ decision.model = runs[r].model
  <2>1. CASE Resolved(c).model = runs[r].model
    BY <2>1 DEF PersistedModel
  <2>2. CASE Resolved(c).model # runs[r].model
    <3>1. decision = [Resolved(c) EXCEPT !.outcome = "NO_LONGER_ASSIGNED"]
      BY <2>2 DEF PersistedModel
    <3>2. \E outcome, model : Resolved(c) = [outcome |-> outcome, model |-> model]
      BY DEF Resolved, Selection!ResolveModel, Selection!ResolveAuto,
             Selection!ResolveManual, Selection!Decision
    <3>3. decision.outcome = "NO_LONGER_ASSIGNED"
      BY <3>1, <3>2
    <3>. QED
      BY <3>3
  <2>. QED
    BY <2>1, <2>2
<1>6. ~ refused => decision.model \in Models
  BY <1>3, <1>4, <1>5, ResolvedIsModel
<1>7. run \in StoredRun /\ run.content = runs[r].content /\ run.classification = c
      /\ run.status # "WAITING_FOR_APPROVAL"
  BY <1>2 DEF StoredRun
<1> HIDE DEF c, decision
<1>8. ~ refused => e \in Execution /\ Sound(e) /\ e.cleared = c /\ e.model = decision.model
  BY <1>2, <1>3, <1>6, BeginningIsSound DEF c
<1> HIDE DEF run, e
<1>9. executions' = [executions EXCEPT ![r] = x]
  BY <1>1 DEF IInv, TypeOK
<1>10. x \in Execution \union {None}
       /\ (x # None => Sound(x) /\ Fits(x, run, served[r]))
  BY <1>2, <1>5, <1>7, <1>8 DEF Fits
<1>11. served' = [served EXCEPT ![r] = served[r]]
  BY <1>1 DEF IInv, TypeOK
<1>12. IsCovered(run, served[r])
  BY <1>2, <1>7 DEF IsCovered, c
<1>13. \A m, n \in served[r] : m = n
  BY <1>2
<1> HIDE DEF x
<1>. QED
  BY <1>1, <1>2, <1>7, <1>9, <1>10, <1>11, <1>12, <1>13, RunMoves
-----------------------------------------------------------------------------
(* The process and its configuration.                                      *)

(* Booting, stopping and reassigning leave runs as they are, but for the   *)
(* executions a stop ends.                                                 *)
LEMMA ProcessKeeps ==
  ASSUME IInv,
         Boots \/ Stops \/ \E change \in Reassignments : Configure(change[1], change[2])
  PROVE  IInv'
<1>1. UNCHANGED <<runs, served>>
  BY DEF Boots, Stops, Configure
<1>2. \A r \in Runs : executions'[r] = executions[r] \/ executions'[r] = None
  BY DEF Boots, Stops, Configure
<1>3. \A r \in Runs : RunInv(r)'
  BY <1>1, <1>2, BystanderStays DEF IInv
<1>4. Selection!Classifications = Classifications
  BY DEF Selection!Classifications, Selection!PUBLIC, Selection!RESTRICTED, Classifications,
         PUBLIC, RESTRICTED
<1>5. ASSUME Boots PROVE TypeOK'
  <2>1. [mode |-> "MANUAL", model |-> DefaultModel, policy |-> None]
          \in Selection!ModelAssignment
    BY CatalogAssumption DEF Selection!ModelAssignment, Models, Selection!Models
  <2>2. assignments' \in [Classifications -> Selection!ModelAssignment \union {None}]
    BY <1>4, <1>5, <2>1 DEF Boots, Selection!WithDefaults, IInv, TypeOK
  <2>. QED
    BY <1>1, <1>5, <2>2 DEF Boots, IInv, TypeOK
<1>6. ASSUME Stops PROVE TypeOK'
  BY <1>1, <1>6 DEF Stops, IInv, TypeOK
<1>7. ASSUME NEW change \in Reassignments, Configure(change[1], change[2]) PROVE TypeOK'
  <2>1. change[1] \in Classifications /\ change[2] \in Selection!ModelAssignment
    BY CatalogAssumption
  <2>2. changes' \in 0 .. MaxChanges
    BY <1>7, RequestsAssumption DEF Configure, IInv, TypeOK
  <2>. QED
    BY <1>1, <1>7, <2>1, <2>2 DEF Configure, IInv, TypeOK
<1>. QED
  BY <1>3, <1>5, <1>6, <1>7 DEF IInv

(* It holds of no runs.                                                    *)
LEMMA InvInitially == Init => IInv
<1> SUFFICES ASSUME Init PROVE IInv
  OBVIOUS
<1>1. TypeOK
  <2>1. 0 \in 0 .. MaxChanges
    BY RequestsAssumption
  <2>2. /\ assignments \in [Classifications -> Selection!ModelAssignment \union {None}]
        /\ runs \in [Runs -> StoredRun \union {None}]
        /\ executions \in [Runs -> Execution \union {None}]
        /\ served \in [Runs -> SUBSET Models]
    BY DEF Init
  <2>. QED
    BY <2>1, <2>2 DEF Init, TypeOK
<1>2. \A r \in Runs : RunInv(r)
  BY DEF Init, RunInv
<1>. QED
  BY <1>1, <1>2 DEF IInv

(* Every step keeps it.                                                    *)
LEMMA InvInductive == IInv /\ [Next]_vars => IInv'
<1> SUFFICES ASSUME IInv, [Next]_vars PROVE IInv'
  OBVIOUS
<1>1. CASE UNCHANGED vars
  BY <1>1 DEF vars, IInv, TypeOK, RunInv
<1>2. ASSUME NEW r \in Runs, Works(r) PROVE IInv'
  BY <1>2, AcquiredKeeps, CallsKeep, ReleasedKeeps DEF Works
<1>3. ASSUME NEW r \in Runs, ProviderStep(r) PROVE IInv'
  BY <1>3, AnswersKeeps, ProviderFailsKeeps DEF ProviderStep
<1>4. ASSUME NEW r \in Runs, NEW m \in Texts, NEW clearance \in UserClearances,
             Start(r, m, clearance)
      PROVE  IInv'
  BY <1>4, StartKeeps
<1>5. ASSUME NEW r \in Runs,
             Resume(r) \/ (\E label \in Labels : Observes(r, label))
               \/ Interrupts(r) \/ Cancelled(r)
      PROVE  IInv'
  BY <1>5, ResumeKeeps, ObservesKeeps, InterruptsKeeps, CancelledKeeps
<1>. QED
  BY <1>1, <1>2, <1>3, <1>4, <1>5, ProcessKeeps DEF Next

(* The strengthened invariant: every execution is cleared for what is in   *)
(* its messages, every call under way was allowed for that and holds its   *)
(* client, and what waits keeps the one model it spoke to.                 *)
THEOREM StrengthenedInvariant == Spec => []IInv
  BY InvInitially, InvInductive, PTL DEF Spec

(* No data is under way to a model its classification keeps it from,       *)
(* whatever was said, read, reassigned, cancelled and restarted before.    *)
THEOREM NothingEverLeaks == Spec => []NothingLeaks
<1>1. IInv => NothingLeaks
  <2> SUFFICES ASSUME IInv, NEW r \in Runs, InCall(r)
               PROVE  Selection!IsModelAllowed(executions[r].content, executions[r].model)
    BY DEF NothingLeaks
  <2>1. executions[r] \in Execution /\ Sound(executions[r])
    BY ExecutionIsSound DEF InCall
  <2>. QED
    BY <2>1, LowerIsAllowed DEF InCall, Execution, Sound
<1>. QED
  BY <1>1, StrengthenedInvariant, PTL

(* The messages of a run go to one model only, also after a wait in which  *)
(* its classification was assigned another.                                *)
THEOREM OneModelForever == Spec => []OneModelPerRun
<1>1. IInv => OneModelPerRun
  BY DEF IInv, RunInv, OneModelPerRun
<1>. QED
  BY <1>1, StrengthenedInvariant, PTL

(* A call's client stays open until the call has come back.                *)
THEOREM ClientsOutliveCalls == Spec => []NoUseAfterClose
<1>1. IInv => NoUseAfterClose
  BY ExecutionIsSound DEF Sound, NoUseAfterClose, InCall
<1>. QED
  BY <1>1, StrengthenedInvariant, PTL
-----------------------------------------------------------------------------
(* The provider contract matrix.                                           *)

ContractInv == Contract!ContractTypeOK /\ Contract!VerdictsAreProven

(* A verdict is given on the call that was judged, and the constraint on   *)
(* one request is read from the catalog; the other verdicts stay.          *)
LEMMA JudgedIsProven ==
  ASSUME ContractInv, NEW m \in ContractModels, Contract!Tests(m),
         NEW verdict \in {"VERIFIED", "NOT_VERIFIED"}, NEW live \in Contract!LiveStatuses,
         NEW error \in {"model_output_invalid", "QUOTA_EXCEEDED", "RATE_LIMIT",
                        "PROVIDER_UNAVAILABLE", "REQUEST_INVALID", None},
         NEW next \in Contract!Steps,
         Contract!Judged(m, verdict, live, error, next),
         answered' \in [ContractModels -> SUBSET Contract!Calls],
         \A n \in ContractModels : answered[n] \subseteq answered'[n],
         verdict = "VERIFIED" => Contract!Judges(step[m]) \in answered'[m],
         UNCHANGED aborted
  PROVE  ContractInv'
<1> DEFINE result == contracts[m]
           judged == Contract!Judges(step[m])
           same == IF next = "done" /\ live \in {"AVAILABLE", "REQUEST_REJECTED"}
                   THEN Contract!SameRequestVerdict(m) ELSE result.verdicts["same_request"]
           verdicts == [result.verdicts EXCEPT ![judged] = verdict, !["same_request"] = same]
           code == IF error = None THEN result.error ELSE error
           new == [verdicts |-> verdicts, live |-> live, error |-> code]
<1>1. result # None /\ result \in Contract!ProviderContractResult /\ step[m] \in Contract!Steps
  BY DEF ContractInv, Contract!ContractTypeOK, Contract!Tests
<1>2. judged \in Contract!Calls \ {"same_request"}
  BY <1>1 DEF Contract!Tests, Contract!Judges, Contract!Steps, Contract!Calls
<1>3. result.verdicts \in [Contract!Calls -> Contract!Verdicts]
  BY <1>1 DEF Contract!ProviderContractResult
<1>4. /\ same \in {Contract!SameRequestVerdict(m), result.verdicts["same_request"]}
      /\ same \in Contract!Verdicts
  BY <1>3 DEF Contract!SameRequestVerdict, Contract!Verdicts, Contract!Calls
<1> HIDE DEF same, result, judged
<1>5. /\ verdicts \in [Contract!Calls -> Contract!Verdicts]
      /\ verdicts[judged] = verdict
      /\ verdicts["same_request"] = same
      /\ \A c \in Contract!Calls \ {judged, "same_request"} :
            verdicts[c] = result.verdicts[c]
  BY <1>2, <1>3, <1>4 DEF Contract!Verdicts, Contract!Calls
<1>6. code \in {"model_not_configured", "model_output_invalid", "QUOTA_EXCEEDED", "RATE_LIMIT",
                "PROVIDER_UNAVAILABLE", "REQUEST_INVALID", None}
  BY <1>1 DEF Contract!ProviderContractResult
<1>7. contracts' = [contracts EXCEPT ![m] = new] /\ step' = [step EXCEPT ![m] = next]
  BY DEF Contract!Judged, result, judged, same
<1> HIDE DEF verdicts, code
<1>8. new \in Contract!ProviderContractResult
  BY <1>5, <1>6 DEF Contract!ProviderContractResult
<1>9. Contract!ContractTypeOK'
  BY <1>7, <1>8 DEF ContractInv, Contract!ContractTypeOK
<1>10. same = "VERIFIED" => "same_request" \in answered[m]
  BY <1>1, <1>4
     DEF result, ContractInv, Contract!VerdictsAreProven, Contract!SameRequestVerdict,
         Contract!Calls
<1>11. same = "UNSUPPORTED" =>
         \E combination \in Catalog[m].incompatible : combination \subseteq Catalog[m].capabilities
  BY <1>1, <1>4
     DEF result, ContractInv, Contract!VerdictsAreProven, Contract!SameRequestVerdict,
         Contract!Calls
<1>12. \A c \in Contract!Calls :
          /\ verdicts[c] = "VERIFIED" => c \in answered'[m]
          /\ verdicts[c] = "UNSUPPORTED" =>
                /\ c = "same_request"
                /\ \E combination \in Catalog[m].incompatible :
                      combination \subseteq Catalog[m].capabilities
  <2> SUFFICES ASSUME NEW c \in Contract!Calls
               PROVE  /\ verdicts[c] = "VERIFIED" => c \in answered'[m]
                      /\ verdicts[c] = "UNSUPPORTED" =>
                            /\ c = "same_request"
                            /\ \E combination \in Catalog[m].incompatible :
                                  combination \subseteq Catalog[m].capabilities
    OBVIOUS
  <2>1. CASE c = judged
    BY <1>2, <1>5, <2>1 DEF judged
  <2>2. CASE c = "same_request"
    BY <1>5, <1>10, <1>11, <2>2
  <2>3. CASE c \notin {judged, "same_request"}
    BY <1>1, <1>5, <2>3 DEF result, ContractInv, Contract!VerdictsAreProven
  <2>. QED
    BY <2>1, <2>2, <2>3
<1>13. Contract!VerdictsAreProven'
  <2> SUFFICES ASSUME NEW n \in ContractModels, contracts'[n] # None, NEW c \in Contract!Calls
               PROVE  /\ contracts'[n].verdicts[c] = "VERIFIED" => c \in answered'[n]
                      /\ contracts'[n].verdicts[c] = "UNSUPPORTED" =>
                            /\ c = "same_request"
                            /\ \E combination \in Catalog[n].incompatible :
                                  combination \subseteq Catalog[n].capabilities
    BY DEF Contract!VerdictsAreProven
  <2>1. CASE n = m
    <3>1. contracts'[m].verdicts = verdicts
      BY <1>7 DEF ContractInv, Contract!ContractTypeOK
    <3>. QED
      BY <1>12, <2>1, <3>1
  <2>2. CASE n # m
    <3>1. contracts'[n] = contracts[n]
      BY <1>7, <2>2 DEF ContractInv, Contract!ContractTypeOK
    <3>. QED
      BY <3>1 DEF ContractInv, Contract!VerdictsAreProven
  <2>. QED
    BY <2>1, <2>2
<1>. QED
  BY <1>9, <1>13 DEF ContractInv

(* Where a call leads.                                                     *)
LEMMA StepsLeadOn ==
  ASSUME NEW s \in Contract!Steps
  PROVE  /\ Contract!After(s) \in Contract!Steps
         /\ Contract!NextUnverified(s) \in Contract!Steps
BY DEF Contract!Steps, Contract!After, Contract!NextUnverified

(* Nothing is proven of a model before it is asked.                        *)
LEMMA BeginKeeps ==
  ASSUME ContractInv, NEW m \in ContractModels, Contract!Begin(m)
  PROVE  ContractInv'
<1> DEFINE configured == Selection!IsStaticallyAvailable(m, Keys)
           live == IF configured THEN "AVAILABLE" ELSE "NOT_CONFIGURED"
           error == IF configured THEN None ELSE "model_not_configured"
           new == [verdicts |-> [c \in Contract!Calls |-> "NOT_VERIFIED"],
                   live |-> live, error |-> error]
           next == IF configured THEN "text" ELSE "done"
<1>1. /\ contracts' = [contracts EXCEPT ![m] = new]
      /\ step' = [step EXCEPT ![m] = next]
      /\ UNCHANGED <<answered, aborted>>
  BY DEF Contract!Begin, Contract!Selection!IsStaticallyAvailable,
         Selection!IsStaticallyAvailable
<1>2. new \in Contract!ProviderContractResult
  BY DEF Contract!ProviderContractResult, Contract!LiveStatuses, Contract!Verdicts
<1>3. next \in Contract!Steps
  BY DEF Contract!Steps
<1>4. \A c \in Contract!Calls : new.verdicts[c] = "NOT_VERIFIED"
  OBVIOUS
<1> HIDE DEF new, next
<1>5. Contract!ContractTypeOK'
  BY <1>1, <1>2, <1>3 DEF ContractInv, Contract!ContractTypeOK
<1>6. Contract!VerdictsAreProven'
  BY <1>1, <1>4
     DEF ContractInv, Contract!ContractTypeOK, Contract!VerdictsAreProven
<1>. QED
  BY <1>5, <1>6 DEF ContractInv

(* A provider that answers proves what it was asked.                       *)
LEMMA IsAnsweredKeeps ==
  ASSUME ContractInv, NEW m \in ContractModels, Contract!IsAnswered(m)
  PROVE  ContractInv'
<1> DEFINE s == step[m]
           more == {Contract!Asks(s)} \union (IF s = "structured again" THEN {"multi_step"} ELSE {})
<1>1. /\ Contract!Tests(m)
      /\ answered' = [answered EXCEPT ![m] = @ \union more]
      /\ UNCHANGED aborted
  BY DEF Contract!IsAnswered, Contract!ReachesProvider
<1>2. s \in Contract!Steps /\ s # "done"
  BY <1>1 DEF ContractInv, Contract!ContractTypeOK, Contract!Tests
<1>3. more \subseteq Contract!Calls
  BY <1>2 DEF Contract!Asks, Contract!Calls, Contract!Steps
<1>4. s # "tool again" => Contract!Judges(s) \in more
  BY <1>2 DEF Contract!Asks, Contract!Judges, Contract!Steps
<1> HIDE DEF more
<1>5. /\ answered' \in [ContractModels -> SUBSET Contract!Calls]
      /\ \A n \in ContractModels : answered[n] \subseteq answered'[n]
      /\ more \subseteq answered'[m]
  BY <1>1, <1>3 DEF ContractInv, Contract!ContractTypeOK
<1>6. Contract!After(s) \in Contract!Steps
  BY <1>2, StepsLeadOn
<1>7. CASE s = "tool again"
  <2>1. step' = [step EXCEPT ![m] = Contract!After(s)] /\ UNCHANGED contracts
    BY <1>7 DEF Contract!IsAnswered
  <2>2. Contract!ContractTypeOK'
    BY <1>1, <1>5, <1>6, <2>1 DEF ContractInv, Contract!ContractTypeOK
  <2>3. Contract!VerdictsAreProven'
    BY <1>5, <2>1 DEF ContractInv, Contract!VerdictsAreProven
  <2>. QED
    BY <2>2, <2>3 DEF ContractInv
<1>8. CASE s # "tool again"
  <2>1. Contract!Judged(m, "VERIFIED", "AVAILABLE", None, Contract!After(s))
    BY <1>8 DEF Contract!IsAnswered
  <2>2. Contract!Judges(s) \in answered'[m]
    BY <1>4, <1>5, <1>8
  <2>3. "AVAILABLE" \in Contract!LiveStatuses
    BY DEF Contract!LiveStatuses
  <2>. QED
    BY <1>1, <1>5, <1>6, <2>1, <2>2, <2>3, JudgedIsProven
<1>. QED
  BY <1>7, <1>8

(* A failure in whatever form proves nothing.                              *)
LEMMA FailureKeeps ==
  ASSUME ContractInv, NEW m \in ContractModels, Contract!Tests(m),
         NEW live \in Contract!LiveStatuses,
         NEW error \in {"model_output_invalid", "QUOTA_EXCEEDED", "RATE_LIMIT",
                        "PROVIDER_UNAVAILABLE", "REQUEST_INVALID"},
         NEW next \in {"done", Contract!NextUnverified(step[m])},
         Contract!Judged(m, "NOT_VERIFIED", live, error, next),
         UNCHANGED <<answered, aborted>>
  PROVE  ContractInv'
<1>1. step[m] \in Contract!Steps
  BY DEF ContractInv, Contract!ContractTypeOK
<1>2. next \in Contract!Steps
  BY <1>1, StepsLeadOn DEF Contract!Steps
<1>3. /\ answered' \in [ContractModels -> SUBSET Contract!Calls]
      /\ \A n \in ContractModels : answered[n] \subseteq answered'[n]
  BY DEF ContractInv, Contract!ContractTypeOK
<1>. QED
  BY <1>2, <1>3, JudgedIsProven

(* The runner raises: nothing is told of any model.                        *)
LEMMA AbortKeeps ==
  ASSUME ContractInv, aborted' = TRUE, UNCHANGED <<contracts, step, answered>>
  PROVE  ContractInv'
BY DEF ContractInv, Contract!ContractTypeOK, Contract!VerdictsAreProven

(* The provider fails.                                                     *)
LEMMA FailsKeeps ==
  ASSUME ContractInv, NEW m \in ContractModels, NEW signal, NEW code,
         Contract!Fails(m, signal, code)
  PROVE  ContractInv'
<1> DEFINE error == Contract!Errors!ClassifyProviderError(signal, code)
           live == Contract!LiveStatusForError(error)
           next == IF Contract!StopAfter(live) THEN "done"
                   ELSE Contract!NextUnverified(step[m])
<1>1. Contract!Tests(m) /\ UNCHANGED answered
  BY DEF Contract!Fails, Contract!ReachesProvider
<1>2. error \in {"QUOTA_EXCEEDED", "RATE_LIMIT", "PROVIDER_UNAVAILABLE", "REQUEST_INVALID",
                 "raw"}
  BY DEF Contract!Errors!ClassifyProviderError
<1>3. live \in Contract!LiveStatuses
  BY <1>2 DEF Contract!LiveStatusForError, Contract!LiveStatuses
<1>4. CASE error = "raw"
  BY <1>1, <1>4, AbortKeeps DEF Contract!Fails
<1>5. CASE error # "raw"
  <2>1. Contract!Judged(m, "NOT_VERIFIED", live, error, next) /\ UNCHANGED aborted
    BY <1>5 DEF Contract!Fails
  <2> HIDE DEF error, live
  <2>. QED
    BY <1>1, <1>2, <1>3, <1>5, <2>1, FailureKeeps
<1>. QED
  BY <1>4, <1>5

(* A verdict on a model is what its answers have shown or what its catalog *)
(* entry says, whatever its provider does, and in whatever order.          *)
THEOREM VerdictsAreAlwaysProven ==
    Contract!ContractInit /\ [][Contract!ContractNext]_(Contract!contractVars)
      => []VerdictsAreProven
<1>1. Contract!ContractInit => ContractInv
  BY ZenonT(50) DEF Contract!ContractInit, ContractInv, Contract!ContractTypeOK,
         Contract!VerdictsAreProven, Contract!Steps
<1>2. ContractInv /\ [Contract!ContractNext]_(Contract!contractVars) => ContractInv'
  <2> SUFFICES ASSUME ContractInv, [Contract!ContractNext]_(Contract!contractVars)
               PROVE  ContractInv'
    OBVIOUS
  <2>1. CASE UNCHANGED Contract!contractVars
    BY <2>1 DEF Contract!contractVars, ContractInv, Contract!ContractTypeOK,
                Contract!VerdictsAreProven
  <2>2. ASSUME NEW m \in ContractModels,
               Contract!Begin(m) \/ Contract!IsAnswered(m) \/ Contract!IsUnreadable(m)
        PROVE  ContractInv'
    BY <2>2, BeginKeeps, IsAnsweredKeeps, AbortKeeps DEF Contract!IsUnreadable
  <2>3. ASSUME NEW m \in ContractModels,
               Contract!IsAnsweredInvalidly(m) \/ Contract!IsRejectedLocally(m)
        PROVE  ContractInv'
    <3>1. {"AVAILABLE", "REQUEST_REJECTED"} \subseteq Contract!LiveStatuses
      BY DEF Contract!LiveStatuses
    <3>. QED
      BY <2>3, <3>1, FailureKeeps
         DEF Contract!IsAnsweredInvalidly, Contract!IsRejectedLocally,
             Contract!ReachesProvider
  <2>4. ASSUME NEW m \in ContractModels,
               \E signal \in Contract!Errors!Signals, code \in Contract!Errors!Codes :
                  Contract!Fails(m, signal, code)
        PROVE  ContractInv'
    BY <2>4, FailsKeeps
  <2>. QED
    BY <2>1, <2>2, <2>3, <2>4 DEF Contract!ContractNext
<1>3. ContractInv => VerdictsAreProven
  BY DEF ContractInv, VerdictsAreProven
<1>. QED
  BY <1>1, <1>2, <1>3, PTL
-----------------------------------------------------------------------------
(* A row of the model settings.                                            *)

(* The browser offers nothing the API refuses.                             *)
LEMMA OffersAreConfigurable ==
  ASSUME Classification \in Classifications, NEW choice \in Settings!Choices,
         Settings!IsOffered(choice)
  PROVE  Settings!IsConfigurable(choice, Classification)
<1>1. SUFFICES ASSUME choice.mode = "MANUAL"
               PROVE  Settings!IsModelAllowed(Classification, choice.model)
  BY DEF Settings!IsConfigurable
<1>2. choice.model \in Models
  BY <1>1 DEF Settings!Choices, Settings!Manual, Settings!Auto, Settings!Models, Models
<1>3. Catalog[choice.model].zone \in {"LOCAL", "PUBLIC_CLOUD"}
  BY <1>2, CatalogAssumption DEF Models, Selection!ModelDefinition, Selection!Zones
<1>4. /\ ~ (Classification = 3 /\ Catalog[choice.model].zone # "LOCAL")
      /\ Classification <= Catalog[choice.model].max
  BY <1>1 DEF Settings!IsOffered, Settings!RESTRICTED
<1>5. Classification \in 0 .. 3
  BY DEF Classifications, PUBLIC, RESTRICTED
<1>6. <<Classification, Catalog[choice.model].zone>> \in Settings!AllowedCombinations
  BY <1>3, <1>4, <1>5
     DEF Settings!AllowedCombinations, Settings!Classifications, Settings!PUBLIC,
         Settings!INTERNAL, Settings!CONFIDENTIAL, Settings!RESTRICTED
<1>. QED
  BY <1>4, <1>6 DEF Settings!IsModelAllowed, Settings!IsAllowed

IsChange(q, last) ==
    /\ q \in SaveRequests
    /\ Settings!IsConfigurable(q.choice, Classification)
    /\ q.generation <= last

RowFields == {"shown", "draft", "confirmed", "queued", "status"}

(* One request at a time, older than what is queued; a row that says Saved *)
(* has none.                                                               *)
SettingsInv ==
    /\ chosen \in Nat
    /\ DOMAIN row = RowFields
    /\ row.draft \in Models \union {None} /\ row.confirmed.model \in Models \union {None}
    /\ row.queued # None => /\ IsChange(row.queued, chosen) /\ row.queued.answer = None
                            /\ row.queued.generation = chosen
    /\ \A s \in saves : /\ IsChange(s, chosen) /\ saves = {s}
                        /\ row.queued # None => s.generation < chosen
                        /\ s.answer = "saved" => assigned = s.choice \/ writer = "late"
    /\ row.queued # None => saves # {}
    /\ row.status = "Saved" =>
          /\ row.confirmed = assigned \/ writer = "late"
          /\ row.shown \in {row.confirmed, Settings!Unselected}
          /\ row.queued = None /\ saves = {}

LEMMA ChangeIs ==
  ASSUME NEW choice
  PROVE  LET q == Settings!Change(choice)
         IN /\ DOMAIN q = {"choice", "generation", "answer"}
            /\ q.choice = choice /\ q.generation = chosen + 1 /\ q.answer = None
            /\ choice \in Settings!Choices /\ chosen \in Nat => q \in SaveRequests
BY DEF SaveRequests, Settings!Change

LEMMA ChoicesAre ==
  /\ \A m \in Models : Settings!Manual(m) \in Settings!Choices
  /\ \A p \in {"QUALITY_FIRST", "COST_FIRST"} : Settings!Auto(p) \in Settings!Choices
  /\ \A c \in Settings!Choices \union {Settings!Unselected} : c.model \in Models \union {None}
BY DEF Settings!Choices, Settings!Manual, Settings!Auto, Settings!Models, Models,
       Settings!Policies, Settings!Unselected

(* A change of the row: what is not offered is taken back, the rest waits  *)
(* for its turn.                                                           *)
LEMMA QueueSaveKeeps ==
  ASSUME SettingsInv, Classification \in Classifications,
         NEW r, DOMAIN r = RowFields, r.shown \in Settings!Choices,
         r.draft \in Models \union {None}, r.confirmed = row.confirmed,
         r.queued = row.queued, r.status = row.status,
         Settings!QueueSave(r),
         None \notin StatusWords, None \notin SaveRequests
  PROVE  SettingsInv'
<1> USE DEF RowFields
<1>0. UNCHANGED <<late, assigned, writer>>
  BY DEF Settings!QueueSave
<1>1. CASE ~ Settings!IsOffered(r.shown)
  <2>1. row' = Settings!Restored(r) /\ UNCHANGED <<saves, chosen>>
    BY <1>1 DEF Settings!QueueSave
  <2>2. /\ DOMAIN row' = RowFields
        /\ row'.shown = row.confirmed /\ row'.draft = row.confirmed.model
        /\ row'.confirmed = row.confirmed /\ row'.queued = row.queued /\ row'.status = row.status
    BY <2>1 DEF Settings!Restored
  <2>. QED
    BY <1>0, <2>1, <2>2 DEF SettingsInv, IsChange
<1>2. CASE Settings!IsOffered(r.shown)
  <2> DEFINE q == Settings!Change(r.shown)
             n == [r EXCEPT !.queued = q, !.status = "Saving"]
  <2>1. Settings!SaveNext(n, saves) /\ chosen' = chosen + 1
    BY <1>2 DEF Settings!QueueSave
  <2>2. /\ q.choice = r.shown /\ q.generation = chosen + 1 /\ q.answer = None
        /\ q \in SaveRequests
    BY ChangeIs DEF SettingsInv
  <2>3. Settings!IsConfigurable(r.shown, Classification)
    BY <1>2, OffersAreConfigurable
  <2> HIDE DEF q
  <2>4. /\ DOMAIN n = RowFields
        /\ n.queued = q /\ n.status = "Saving"
        /\ n.draft = r.draft /\ n.confirmed = row.confirmed
    OBVIOUS
  <2> HIDE DEF n
  <2>5. IsChange(q, chosen') /\ chosen' \in Nat /\ q # None
    BY <2>1, <2>2, <2>3 DEF IsChange, SettingsInv, SaveRequests
  <2>6. \A s \in saves : IsChange(s, chosen') /\ s.generation < chosen' /\ saves = {s}
                        /\ (s.answer = "saved" => assigned' = s.choice \/ writer' = "late")
    <3>1. \A s \in saves : s.generation \in Nat /\ s.generation <= chosen
      BY DEF IsChange, SettingsInv, SaveRequests
    <3>. QED
      BY <1>0, <2>1, <3>1 DEF IsChange, SettingsInv
  <2>7. CASE saves = {}
    <3>1. row' = [n EXCEPT !.queued = None, !.status = "Saving"] /\ saves' = {q}
      BY <2>1, <2>4, <2>5, <2>7 DEF Settings!SaveNext, Settings!MaySave
    <3>2. /\ DOMAIN row' = RowFields
          /\ row'.queued = None /\ row'.status = "Saving"
          /\ row'.draft = r.draft /\ row'.confirmed = row.confirmed
      BY <2>4, <3>1
    <3>. QED
      BY <2>1, <2>2, <2>5, <3>1, <3>2 DEF SettingsInv, StatusWords
  <2>8. CASE saves # {}
    <3>1. row' = n /\ saves' = saves
      BY <2>1, <2>8 DEF Settings!SaveNext, Settings!MaySave
    <3>. QED
      BY <2>1, <2>2, <2>4, <2>5, <2>6, <2>8, <3>1 DEF SettingsInv
  <2>. QED
    BY <2>7, <2>8
<1>. QED
  BY <1>1, <1>2

LEMMA ChoosesKeeps ==
  ASSUME SettingsInv, Classification \in Classifications,
         \/ \E model \in Settings!Models : Settings!ChoosesModel(model)
         \/ \E policy \in Settings!Policies : Settings!ChoosesPolicy(policy)
         \/ Settings!SwitchesToAutomatic
         \/ Settings!SwitchesToManual,
         None \notin StatusWords, None \notin SaveRequests
  PROVE  SettingsInv'
<1>1. /\ DOMAIN row = RowFields /\ row.draft \in Models \union {None}
      /\ Settings!Models = Models /\ Settings!Policies = {"QUALITY_FIRST", "COST_FIRST"}
  BY DEF SettingsInv, Settings!Models, Models, Settings!Policies
<1>2. ASSUME NEW model \in Settings!Models, Settings!ChoosesModel(model)
      PROVE  SettingsInv'
  <2> DEFINE r == [row EXCEPT !.shown = Settings!Manual(model), !.draft = model]
  <2>1. Settings!QueueSave(r)
    BY <1>2 DEF Settings!ChoosesModel
  <2>2. /\ DOMAIN r = RowFields /\ r.shown \in Settings!Choices /\ r.draft \in Models \union {None}
        /\ r.confirmed = row.confirmed /\ r.queued = row.queued /\ r.status = row.status
    BY <1>1, ChoicesAre DEF RowFields
  <2> HIDE DEF r
  <2>. QED
    BY <2>1, <2>2, QueueSaveKeeps
<1>3. ASSUME NEW c \in Settings!Choices,
             Settings!QueueSave([row EXCEPT !.shown = c])
      PROVE  SettingsInv'
  <2> DEFINE r == [row EXCEPT !.shown = c]
  <2>1. /\ DOMAIN r = RowFields /\ r.shown \in Settings!Choices /\ r.draft \in Models \union {None}
        /\ r.confirmed = row.confirmed /\ r.queued = row.queued /\ r.status = row.status
    BY <1>1 DEF RowFields
  <2>2. Settings!QueueSave(r)
    BY <1>3
  <2> HIDE DEF r
  <2>. QED
    BY <2>1, <2>2, QueueSaveKeeps
<1>4. ASSUME NEW policy \in Settings!Policies, Settings!ChoosesPolicy(policy)
      PROVE  SettingsInv'
  BY <1>1, <1>3, <1>4, ChoicesAre DEF Settings!ChoosesPolicy
<1>5. CASE Settings!SwitchesToAutomatic
  <2> DEFINE p == IF row.confirmed.policy = "COST_FIRST" THEN "COST_FIRST" ELSE "QUALITY_FIRST"
  <2>1. Settings!QueueSave([row EXCEPT !.shown = Settings!Auto(p)])
    BY <1>5 DEF Settings!SwitchesToAutomatic
  <2>2. Settings!Auto(p) \in Settings!Choices
    BY ChoicesAre
  <2> HIDE DEF p
  <2>. QED
    BY <1>3, <2>1, <2>2
<1>6. CASE Settings!SwitchesToManual /\ row.draft # None
  BY <1>1, <1>3, <1>6, ChoicesAre DEF Settings!SwitchesToManual
<1>7. CASE Settings!SwitchesToManual /\ row.draft = None
  <2>1. /\ row' = [row EXCEPT !.shown = Settings!Unselected]
        /\ UNCHANGED <<saves, chosen, late, assigned, writer>>
    BY <1>7 DEF Settings!SwitchesToManual
  <2>2. /\ DOMAIN row' = RowFields /\ row'.shown = Settings!Unselected
        /\ row'.draft = row.draft /\ row'.confirmed = row.confirmed
        /\ row'.queued = row.queued /\ row'.status = row.status
    BY <1>1, <2>1 DEF RowFields
  <2>. QED
    BY <2>1, <2>2 DEF SettingsInv, IsChange
<1>. QED
  BY <1>2, <1>4, <1>5, <1>6, <1>7

LEMMA ServesKeeps ==
  ASSUME SettingsInv, NEW s \in saves, Settings!Serves(s),
         None \notin StatusWords, None \notin SaveRequests
  PROVE  SettingsInv'
<1> DEFINE a == [s EXCEPT !.answer = "saved"]
<1>1. /\ IsChange(s, chosen) /\ saves = {s} /\ s.answer = None
      /\ row.queued # None => s.generation < chosen
  BY DEF SettingsInv, Settings!Serves
<1>2. /\ saves' = (saves \ {s}) \union {a} /\ assigned' = s.choice
      /\ UNCHANGED <<row, chosen, late>>
  BY <1>1 DEF Settings!Serves, IsChange
<1>3. /\ IsChange(a, chosen) /\ a.choice = s.choice /\ a.generation = s.generation
  BY <1>1 DEF IsChange, SaveRequests
<1> HIDE DEF a
<1>4. saves' = {a}
  BY <1>1, <1>2
<1>. QED
  BY <1>1, <1>2, <1>3, <1>4 DEF SettingsInv

LEMMA LosesKeeps ==
  ASSUME SettingsInv, NEW s \in saves, Settings!Loses(s),
         None \notin StatusWords, None \notin SaveRequests
  PROVE  SettingsInv'
<1> DEFINE a == [s EXCEPT !.answer = "lost"]
<1>1. /\ IsChange(s, chosen) /\ saves = {s}
      /\ row.queued # None => s.generation < chosen
  BY DEF SettingsInv
<1>2. saves' = (saves \ {s}) \union {a} /\ UNCHANGED <<row, chosen, assigned, writer>>
  BY DEF Settings!Loses
<1>3. IsChange(a, chosen) /\ a.generation = s.generation /\ a.answer = "lost"
  BY <1>1 DEF IsChange, SaveRequests
<1> HIDE DEF a
<1>4. saves' = {a}
  BY <1>1, <1>2
<1>. QED
  BY <1>1, <1>2, <1>3, <1>4 DEF SettingsInv

LEMMA LateKeeps ==
  ASSUME SettingsInv, NEW s \in late, Settings!ServesLate(s)
  PROVE  SettingsInv'
<1>1. UNCHANGED <<row, saves, chosen>>
  BY DEF Settings!ServesLate
<1>2. (assigned' = assigned /\ writer' = writer) \/ writer' = "late"
  BY DEF Settings!ServesLate
<1>. QED
  BY <1>1, <1>2 DEF SettingsInv, IsChange

LEMMA ReturnsKeeps ==
  ASSUME SettingsInv, NEW s \in saves, Settings!Returns(s),
         None \notin StatusWords, None \notin SaveRequests
  PROVE  SettingsInv'
<1> DEFINE confirmed == [row EXCEPT !.confirmed = IF s.answer = "saved" THEN s.choice ELSE row.confirmed]
           saved == [Settings!Restored(confirmed) EXCEPT !.status = "Saved"]
           failed == [Settings!Restored(confirmed) EXCEPT !.status = "NotSaved"]
<1>1. /\ IsChange(s, chosen) /\ saves = {s} /\ s.answer # None
      /\ row.queued # None => s.generation < chosen /\ IsChange(row.queued, chosen)
                              /\ row.queued.generation = chosen /\ row.queued.answer = None
      /\ s.answer = "saved" => assigned = s.choice \/ writer = "late"
      /\ row.draft \in Models \union {None} /\ row.confirmed.model \in Models \union {None}
      /\ s.choice.model \in Models \union {None}
      /\ row.status # "Saved"
      /\ DOMAIN row = RowFields
      /\ chosen \in Nat
  BY ChoicesAre DEF SettingsInv, Settings!Returns, IsChange, SaveRequests
<1>2. \A r \in {confirmed, saved, failed} :
         /\ DOMAIN r = RowFields /\ r.queued = row.queued
         /\ r.draft \in Models \union {None} /\ r.confirmed.model \in Models \union {None}
  BY <1>1 DEF Settings!Restored, RowFields
<1>3. /\ confirmed.status = row.status /\ failed.status = "NotSaved" /\ saved.status = "Saved"
      /\ s.answer = "saved" => /\ saved.shown = saved.confirmed
                               /\ saved.confirmed = assigned \/ writer = "late"
  BY <1>1 DEF Settings!Restored, RowFields
<1>4. PICK r \in {confirmed, saved, failed} :
         /\ Settings!SaveNext(r, {})
         /\ r = saved => s.answer = "saved" /\ s.generation = chosen
         /\ UNCHANGED <<chosen, assigned, writer>>
  <2> DEFINE isLast == s.generation = chosen
             told == CASE isLast /\ s.answer = "saved" -> saved
                       [] isLast /\ s.answer # "saved" /\ row.queued = None -> failed
                       [] OTHER -> confirmed
  <2>1. saves \ {s} = {}
    BY <1>1
  <2>2. Settings!SaveNext(told, saves \ {s}) /\ UNCHANGED <<chosen, assigned, writer>>
    BY DEF Settings!Returns
  <2>3. told \in {confirmed, saved, failed}
    OBVIOUS
  <2>4. told = saved => s.answer = "saved" /\ s.generation = chosen
    <3>1. failed # saved /\ confirmed # saved
      BY <1>1, <1>3
    <3> HIDE DEF confirmed, saved, failed
    <3>. QED
      BY <3>1
  <2> HIDE DEF told, confirmed, saved, failed
  <2>. QED
    BY <2>1, <2>2, <2>3, <2>4
<1> HIDE DEF confirmed, saved, failed
<1>5. r.status = "Saved" => /\ r.shown = r.confirmed /\ row.queued = None
                            /\ r.confirmed = assigned \/ writer = "late"
  BY <1>1, <1>3, <1>4
<1>6. CASE row.queued = None
  <2>1. row' = r /\ saves' = {}
    BY <1>2, <1>4, <1>6 DEF Settings!SaveNext
  <2>. QED
    BY <1>1, <1>2, <1>4, <1>5, <1>6, <2>1 DEF SettingsInv
<1>7. CASE row.queued # None
  <2>1. row' = [r EXCEPT !.queued = None, !.status = "Saving"] /\ saves' = {row.queued}
    BY <1>2, <1>4, <1>7 DEF Settings!SaveNext, Settings!MaySave
  <2>2. /\ DOMAIN row' = RowFields
        /\ row'.queued = None /\ row'.status = "Saving"
        /\ row'.draft = r.draft /\ row'.confirmed = r.confirmed
    BY <1>2, <2>1 DEF RowFields
  <2>. QED
    BY <1>1, <1>2, <1>4, <1>7, <2>1, <2>2 DEF SettingsInv, StatusWords
<1>. QED
  BY <1>6, <1>7

(* A row that says Saved has its last request in the store unless one that *)
(* it had given up was served after it, and it sends nothing that the API  *)
(* refuses: for any catalog, classification and keys, and however requests *)
(* are lost, served late and answered.                                     *)
THEOREM SavedIsAlwaysStored ==
  Settings!InitSettings /\ [][Settings!NextSettings]_(Settings!settingsVars) => []SavedIsStored
<1>1. Settings!InitSettings => SettingsInv
  <2> SUFFICES ASSUME Settings!InitSettings
               PROVE  SettingsInv
    OBVIOUS
  <2>1. assigned.model \in Models \union {None}
    BY ChoicesAre DEF Settings!InitSettings
  <2>. QED
    BY <2>1, SettingsAssumption DEF Settings!InitSettings, SettingsInv, RowFields, StatusWords
<1>2. SettingsInv /\ [Settings!NextSettings]_(Settings!settingsVars) => SettingsInv'
  <2>1. SettingsInv /\ UNCHANGED Settings!settingsVars => SettingsInv'
    BY DEF Settings!settingsVars, SettingsInv
  <2>. QED
    BY <2>1, SettingsAssumption, ChoosesKeeps, ServesKeeps, LosesKeeps, LateKeeps, ReturnsKeeps
       DEF Settings!NextSettings
<1>3. SettingsInv => SavedIsStored
  BY SettingsAssumption
     DEF SettingsInv, SavedIsStored, Settings!SavedIsStored, IsChange, SaveRequests, StatusWords
<1>. QED
  BY <1>1, <1>2, <1>3, PTL
=============================================================================
