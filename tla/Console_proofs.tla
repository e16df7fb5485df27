--------------------------- MODULE Console_proofs ---------------------------
(***************************************************************************)
(* No page shows one user what another was told, for any number of pages,  *)
(* users, sessions and changes of user.  A page whose picture may be wrong *)
(* has a change of its own under way, or will hear of another's.           *)
(***************************************************************************)
EXTENDS Console, WellFoundedInduction, TLAPS

Questions == {"me", "meOnLoad"}

PageFields == {"page", "user", "pending", "completed", "requests", "view", "urls", "stored"}
ViewFields == {"investigation", "turns", "readers"}
RequestFields == {"kind", "token", "current", "answer", "investigation", "run", "user", "latest"}

IsDrawn(token, registry) == token \in Tokens => registry[token] # None

IsRequest(r, last, registry) ==
    /\ DOMAIN r = RequestFields
    /\ r.kind \in Changes \union Questions \union DataKinds
    /\ r.current \in BOOLEAN
    /\ r.kind \in Changes => r.run \in 1 .. last
    /\ r.kind = "switch" => r.user \in Users
    /\ r.answer # None => /\ "cookie" \in DOMAIN r.answer
                          /\ r.answer.cookie # None => /\ r.kind \in Changes
                                                       /\ IsDrawn(r.answer.cookie, registry)

IsPage(b) ==
    /\ DOMAIN b = PageFields
    /\ DOMAIN b.view = ViewFields
    /\ b.page \in {"closed", "open", "hidden"}

Current(b) == {r \in b.requests : r.current}

(* Who asks who the user is, or changes it, shows nobody and asks nothing  *)
(* else.                                                                   *)
PageOK(b, last, registry) ==
    /\ IsPage(b)
    /\ b.completed \subseteq 1 .. last
    /\ \A r \in b.requests : IsRequest(r, last, registry)
    /\ b.user = None => /\ b.view.readers = {} /\ b.urls = {} /\ b.view.turns = NoTurns
                        /\ \A r \in Current(b) : r.kind \notin DataKinds
    /\ \A r \in Current(b) : r.kind \notin DataKinds =>
          b.user = None /\ \A q \in Current(b) : q = r
    /\ OwnChanges(b) \subseteq b.pending
    /\ b.page # "open" => b.user = None /\ Current(b) = {}

IsMessage(m, last) ==
    /\ m = Message(m.id, m.phase)
    /\ m.id \in 1 .. last
    /\ m.phase \in {"pending", "settled"}

ChannelOK(t) ==
    /\ \A m \in channel[t] : IsMessage(m, mutations)
    /\ tab[t].page # "open" => channel[t] = {}

(* Nobody takes a change under way for settled, and no two pages have one. *)
ChangesOK(t) ==
    \A i \in OwnChanges(tab[t]), u \in Tabs :
        /\ i \notin tab[u].completed
        /\ Message(i, "settled") \notin channel[u]
        /\ u # t => i \notin OwnChanges(tab[u])

(* The page asks with the cookie of the browser, which names its user, and *)
(* shows what that user was told.                                          *)
Truth(b, token, named) ==
    /\ b.user # None => named \in {b.user, None}
    /\ b.view.readers \union b.urls \subseteq {b.user}
    /\ \A r \in Current(b) :
          /\ r.token = token
          /\ r.answer # None /\ r.answer.status = 200 /\ r.kind \in DataKinds =>
                r.answer.user = b.user
          /\ r.answer # None /\ r.answer.status = 200 /\ r.kind \in Questions =>
                named \in {r.answer.user, None}

IsIgnored(b, m) == m.id \in b.completed \/ (m.phase = "pending" /\ m.id \in b.pending)

(* Another page changes the user, or has and the message is on its way.    *)
Disturbed(t) ==
    \/ \E u \in Tabs \ {t} : OwnChanges(tab[u]) # {}
    \/ \E m \in channel[t] : ~ IsIgnored(tab[t], m)

TruthOK(t) ==
    tab[t].page = "open" =>
        Disturbed(t) \/ OwnChanges(tab[t]) # {} \/ Truth(tab[t], cookie, Resolve(cookie))

SessionsOK ==
    /\ sessions \in [Tokens -> Users \union {None, Over}]
    /\ IsDrawn(cookie, sessions)

IInv ==
    /\ SessionsOK
    /\ mutations \in Nat
    /\ DOMAIN tab = Tabs /\ DOMAIN channel = Tabs
    /\ \A t \in Tabs : /\ PageOK(tab[t], mutations, sessions)
                       /\ ChannelOK(t)
                       /\ ChangesOK(t)
                       /\ TruthOK(t)
-----------------------------------------------------------------------------
(* Requests and messages.                                                  *)

LEMMA Kinds ==
  /\ Changes \intersect DataKinds = {} /\ Changes \intersect Questions = {}
  /\ Questions \intersect DataKinds = {}
  /\ Reloads \subseteq DataKinds /\ {"create", "resume", "document"} \subseteq DataKinds
  /\ {"bootstrap", "switch", "logout"} \subseteq Changes
  /\ Changes \subseteq Posts
BY DEF Changes, DataKinds, Questions, Reloads, Posts

LEMMA RequestIs ==
  ASSUME NEW kind, NEW investigation, NEW run
  PROVE  LET r == Request(kind, investigation, run)
         IN /\ DOMAIN r = RequestFields
            /\ r.kind = kind /\ r.run = run
            /\ r.token = cookie /\ r.current = TRUE /\ r.answer = None
BY DEF Request, RequestFields

LEMMA AuthRequestIs ==
  ASSUME NEW kind, NEW user, NEW id
  PROVE  LET r == AuthRequest(kind, user, id)
         IN /\ DOMAIN r = RequestFields
            /\ r.kind = kind /\ r.run = id /\ r.user = user
            /\ r.token = cookie /\ r.current = TRUE /\ r.answer = None
BY DEF AuthRequest, Request, RequestFields

LEMMA MessageIs ==
  ASSUME NEW id, NEW phase
  PROVE  Message(id, phase).id = id /\ Message(id, phase).phase = phase
BY DEF Message

(* What was a request or message, or drawn, stays one.                     *)
RegistryMoves(old, new) ==
    /\ new \in [Tokens -> Users \union {None, Over}]
    /\ \A t \in Tokens : old[t] # None => new[t] \in {old[t], Over}

LEMMA RequestStays ==
  ASSUME NEW r, NEW last \in Nat, NEW next \in Nat, last <= next,
         NEW old, NEW new, RegistryMoves(old, new), IsRequest(r, last, old)
  PROVE  IsRequest(r, next, new)
<1>1. \A token : IsDrawn(token, old) => IsDrawn(token, new)
  BY DemoSessionsAssumption DEF IsDrawn, RegistryMoves
<1>. QED
  BY <1>1 DEF IsRequest

LEMMA PageStays ==
  ASSUME NEW b, NEW last \in Nat, NEW next \in Nat, last <= next,
         NEW old, NEW new, RegistryMoves(old, new), PageOK(b, last, old)
  PROVE  PageOK(b, next, new)
<1>1. \A r \in b.requests : IsRequest(r, next, new)
  BY RequestStays DEF PageOK
<1>2. b.completed \subseteq 1 .. next
  BY DEF PageOK
<1>. QED
  BY <1>1, <1>2 DEF PageOK

LEMMA NothingMoves ==
  ASSUME SessionsOK
  PROVE  RegistryMoves(sessions, sessions)
BY DEF SessionsOK, RegistryMoves

LEMMA StillNamed ==
  ASSUME NEW token, NEW old, NEW new, RegistryMoves(old, new), IsDrawn(token, old),
         NEW before, before = (IF token \in Live(old) THEN old[token] ELSE None),
         NEW after, after = (IF token \in Live(new) THEN new[token] ELSE None),
         old \in [Tokens -> Users \union {None, Over}]
  PROVE  after \in {before, None}
BY DemoSessionsAssumption DEF RegistryMoves, IsDrawn, Live
-----------------------------------------------------------------------------
(* What the steps of a page make of it.                                    *)

(* All but what is shown of the investigation.                             *)
SameShell(b, c) ==
    /\ IsPage(c)
    /\ c.page = b.page /\ c.user = b.user
    /\ c.pending = b.pending /\ c.completed = b.completed
    /\ c.urls = b.urls

LEMMA RequestedIs ==
  ASSUME NEW b, IsPage(b), NEW r
  PROVE  LET c == Requested(b, r)
         IN SameShell(b, c) /\ c.view = b.view /\ c.requests = b.requests \union {r}
BY DEF Requested, IsPage, SameShell, PageFields

LEMMA PersistedIs ==
  ASSUME NEW b, IsPage(b), NEW investigation
  PROVE  LET c == Persisted(b, investigation)
         IN SameShell(b, c) /\ c.view = b.view /\ c.requests = b.requests
BY DEF Persisted, IsPage, SameShell, PageFields

LEMMA EmptiedIs ==
  ASSUME NEW b, IsPage(b)
  PROVE  LET c == Emptied(b)
         IN SameShell(b, c) /\ c.view.turns = NoTurns /\ c.view.readers = {}
            /\ c.requests = b.requests
<1> DEFINE e == [b EXCEPT !.view = EmptyView]
<1>1. SameShell(b, e) /\ e.view = EmptyView /\ e.requests = b.requests
  BY DEF IsPage, SameShell, PageFields, ViewFields, EmptyView
<1>2. Emptied(b) = Persisted(e, None)
  BY DEF Emptied
<1> HIDE DEF e
<1>3. IsPage(e)
  BY <1>1 DEF SameShell
<1>. QED
  BY <1>1, <1>2, <1>3, PersistedIs DEF SameShell, EmptyView

LEMMA AbortedIs ==
  ASSUME NEW requests, NEW r \in Aborted(requests), NEW last, NEW registry,
         \A q \in requests : IsRequest(q, last, registry)
  PROVE  r.current = FALSE /\ IsRequest(r, last, registry)
<1>1. PICK q \in requests : r = [q EXCEPT !.current = FALSE]
  BY DEF Aborted
<1>2. IsRequest(q, last, registry)
  BY <1>1
<1>. QED
  BY <1>1, <1>2 DEF IsRequest, RequestFields

LEMMA InvalidatedIs ==
  ASSUME NEW b, IsPage(b), NEW reason
  PROVE  LET c == Invalidated(b, reason)
         IN /\ IsPage(c) /\ c.page = b.page /\ c.user = None /\ c.urls = {}
            /\ c.view.turns = NoTurns /\ c.view.readers = {}
            /\ c.requests = Aborted(b.requests)
            /\ c.pending = b.pending \ OwnChanges(b)
            /\ c.completed = b.completed \union OwnChanges(b)
<1> DEFINE e == Emptied(b)
           k == IF reason = "navigation" THEN Persisted(e, b.view.investigation) ELSE e
           c == [k EXCEPT !.user = None, !.urls = {}, !.requests = Aborted(b.requests)]
<1>1. SameShell(b, e) /\ e.view.turns = NoTurns /\ e.view.readers = {}
  BY EmptiedIs
<1>2. SameShell(b, k) /\ k.view.turns = NoTurns /\ k.view.readers = {}
  <2> HIDE DEF e
  <2>. QED
    BY <1>1, PersistedIs DEF SameShell
<1>3. /\ IsPage(c) /\ c.page = b.page /\ c.user = None /\ c.urls = {}
      /\ c.view.turns = NoTurns /\ c.view.readers = {}
      /\ c.requests = Aborted(b.requests)
      /\ c.pending = b.pending /\ c.completed = b.completed
  <2> HIDE DEF k
  <2>. QED
    BY <1>2 DEF SameShell, IsPage, PageFields
<1>4. Invalidated(b, reason) = Finished(c, OwnChanges(b))
  BY DEF Invalidated
<1> HIDE DEF c
<1>. QED
  BY <1>3, <1>4 DEF Finished, IsPage, PageFields

(* A page that was invalidated knows nobody and asks nothing.              *)
IsPurged(b, c, last, registry) ==
    /\ IsPage(c) /\ c.page = b.page /\ c.user = None /\ c.urls = {}
    /\ c.view.turns = NoTurns /\ c.view.readers = {}
    /\ Current(c) = {} /\ OwnChanges(c) = {}
    /\ \A r \in c.requests : IsRequest(r, last, registry)
    /\ c.pending = b.pending \ OwnChanges(b)
    /\ c.completed = b.completed \union OwnChanges(b)

LEMMA InvalidatedIsQuiet ==
  ASSUME NEW b, NEW last, NEW registry, PageOK(b, last, registry), NEW reason
  PROVE  IsPurged(b, Invalidated(b, reason), last, registry)
<1> DEFINE c == Invalidated(b, reason)
<1>1. /\ IsPage(c) /\ c.page = b.page /\ c.user = None /\ c.urls = {}
      /\ c.view.turns = NoTurns /\ c.view.readers = {}
      /\ c.requests = Aborted(b.requests)
      /\ c.pending = b.pending \ OwnChanges(b)
      /\ c.completed = b.completed \union OwnChanges(b)
  BY InvalidatedIs DEF PageOK
<1> HIDE DEF c
<1>2. ASSUME NEW r \in c.requests
      PROVE  r.current = FALSE /\ IsRequest(r, last, registry)
  <2>1. r \in Aborted(b.requests)
    BY <1>1
  <2>2. \A q \in b.requests : IsRequest(q, last, registry)
    BY DEF PageOK
  <2>. QED
    BY <2>1, <2>2, AbortedIs
<1>3. Current(c) = {} /\ OwnChanges(c) = {}
  BY <1>2 DEF Current, OwnChanges
<1>4. IsPurged(b, c, last, registry)
  BY <1>1, <1>2, <1>3 DEF IsPurged
<1>. QED
  BY <1>4 DEF c

(* A page that knows nobody and shows nothing, which may ask who it is.    *)
Asks(b, c) ==
    /\ IsPage(c) /\ c.page = b.page /\ c.user = None
    /\ c.pending = b.pending /\ c.completed = b.completed
    /\ c.urls = b.urls /\ c.view = b.view

LEMMA InitializedIs ==
  ASSUME NEW b, IsPage(b), NEW kind
  PROVE  LET c == Initialized(b, kind)
         IN Asks(b, c) /\ c.requests = b.requests \union {Request(kind, None, None)}
<1> DEFINE n == [b EXCEPT !.user = None]
<1>1. Asks(b, n) /\ n.requests = b.requests
  BY DEF IsPage, Asks, PageFields
<1>2. Initialized(b, kind) = Requested(n, Request(kind, None, None))
  BY DEF Initialized
<1> HIDE DEF n
<1>3. IsPage(n)
  BY <1>1 DEF Asks
<1>. QED
  BY <1>1, <1>2, <1>3, RequestedIs DEF Asks, SameShell
-----------------------------------------------------------------------------
(* One page moves.  Its changes that end without it are announced, so the  *)
(* others that had to hear of them still have.                             *)
LEMMA OthersStayDisturbed ==
  ASSUME IInv, NEW t \in Tabs, NEW b, tab' = [tab EXCEPT ![t] = b],
         DOMAIN channel' = Tabs,
         NEW u \in Tabs, u # t, tab[u].page = "open",
         channel[u] \subseteq channel'[u],
         \A i \in OwnChanges(tab[t]) \ OwnChanges(b) : Message(i, "settled") \in channel'[u],
         Disturbed(u)
  PROVE  Disturbed(u)'
<1>1. tab'[u] = tab[u] /\ tab'[t] = b /\ \A v \in Tabs : v # t => tab'[v] = tab[v]
  BY DEF IInv
<1>2. CASE \E m \in channel[u] : ~ IsIgnored(tab[u], m)
  BY <1>1, <1>2 DEF Disturbed, IsIgnored
<1>3. ASSUME NEW v \in Tabs \ {u}, OwnChanges(tab[v]) # {}
      PROVE  Disturbed(u)'
  <2>1. CASE v # t
    BY <1>1, <1>3, <2>1 DEF Disturbed, OwnChanges
  <2>2. CASE v = t /\ OwnChanges(b) # {}
    BY <1>1, <1>3, <2>2 DEF Disturbed, OwnChanges
  <2>3. CASE v = t /\ OwnChanges(b) = {}
    <3>1. PICK i \in OwnChanges(tab[t]) : TRUE
      BY <1>3, <2>3
    <3>2. Message(i, "settled") \in channel'[u]
      BY <2>3, <3>1
    <3>3. i \notin tab[u].completed
      BY <3>1 DEF IInv, ChangesOK
    <3>4. ~ IsIgnored(tab'[u], Message(i, "settled"))
      BY <1>1, <3>3, MessageIs DEF IsIgnored
    <3>. QED
      BY <3>2, <3>4 DEF Disturbed, IsIgnored
  <2>. QED
    BY <2>1, <2>2, <2>3
<1>. QED
  BY <1>2, <1>3 DEF Disturbed

LEMMA PageMoves ==
  ASSUME IInv, NEW t \in Tabs, NEW b, tab' = [tab EXCEPT ![t] = b],
         mutations' \in Nat, mutations <= mutations',
         RegistryMoves(sessions, sessions'),
         IsDrawn(cookie', sessions'), cookie' = cookie \/ OwnChanges(b) # {},
         PageOK(b, mutations', sessions'),
         DOMAIN channel' = Tabs,
         \A u \in Tabs : \A m \in channel'[u] :
            \/ m \in channel[u]
            \/ m = Message(mutations', "pending") /\ mutations < mutations'
            \/ \E i \in OwnChanges(tab[t]) \ OwnChanges(b) : m = Message(i, "settled"),
         \A u \in Tabs : u # t => channel[u] \subseteq channel'[u],
         \A u \in Tabs : u # t /\ tab[u].page # "open" => channel'[u] = channel[u],
         b.page # "open" => channel'[t] = {},
         \A u \in Tabs, i \in OwnChanges(tab[t]) \ OwnChanges(b) :
            u # t /\ tab[u].page = "open" => Message(i, "settled") \in channel'[u],
         \A i \in OwnChanges(b) : i \in OwnChanges(tab[t]) \/ (i = mutations' /\ mutations < mutations'),
         \A i \in b.completed \ tab[t].completed :
            i \notin OwnChanges(b) /\ \A u \in Tabs : u # t => i \notin OwnChanges(tab[u]),
         \A i \in OwnChanges(b) : i \notin b.completed,
         b.page = "open" => Disturbed(t)' \/ OwnChanges(b) # {} \/ Truth(b, cookie', Resolve(cookie)')
  PROVE  IInv'
<1>1. DOMAIN tab' = Tabs /\ tab'[t] = b /\ \A u \in Tabs : u # t => tab'[u] = tab[u]
  BY DEF IInv
<1>2. SessionsOK'
  BY DEF SessionsOK, RegistryMoves
<1>3. \A u \in Tabs : PageOK(tab[u], mutations, sessions)' 
  <2> TAKE u \in Tabs
  <2>1. CASE u = t
    BY <1>1, <2>1
  <2>2. CASE u # t
    <3>1. PageOK(tab[u], mutations, sessions)
      BY DEF IInv
    <3>2. PageOK(tab[u], mutations', sessions')
      BY <3>1, PageStays DEF IInv
    <3>. QED
      BY <1>1, <2>2, <3>2
  <2>. QED
    BY <2>1, <2>2
<1>4. \A u \in Tabs : \A i \in OwnChanges(tab[u]) : i \in 1 .. mutations
  BY DEF IInv, PageOK, OwnChanges, IsRequest
<1>5. \A u \in Tabs : ChannelOK(u)'
  <2> TAKE u \in Tabs
  <2>1. ASSUME NEW m \in channel'[u]
        PROVE  IsMessage(m, mutations')
    <3>1. CASE m \in channel[u]
      <4>1. IsMessage(m, mutations)
        BY <3>1 DEF IInv, ChannelOK
      <4>. QED
        BY <4>1 DEF IsMessage, IInv
    <3>2. CASE m = Message(mutations', "pending") /\ mutations < mutations'
      BY <3>2, MessageIs DEF IsMessage, IInv
    <3>3. CASE \E i \in OwnChanges(tab[t]) : m = Message(i, "settled")
      BY <1>4, <3>3, MessageIs DEF IsMessage, IInv
    <3>. QED
      BY <2>1, <3>1, <3>2, <3>3
  <2>2. tab'[u].page # "open" => channel'[u] = {}
    BY <1>1 DEF IInv, ChannelOK
  <2>. QED
    BY <2>1, <2>2 DEF ChannelOK
<1>6. ASSUME NEW u \in Tabs, NEW i \in OwnChanges(tab'[u]), NEW v \in Tabs
      PROVE  /\ i \notin tab'[v].completed
             /\ Message(i, "settled") \notin channel'[v]
             /\ v # u => i \notin OwnChanges(tab'[v])
  <2>1. \/ i \in OwnChanges(tab[u])
        \/ u = t /\ i = mutations' /\ mutations < mutations'
    BY <1>1
  <2>2. i = mutations' /\ mutations < mutations' =>
           /\ \A w \in Tabs : /\ i \notin OwnChanges(tab[w])
                              /\ i \notin tab[w].completed
                              /\ Message(i, "settled") \notin channel[w]
    <3> SUFFICES ASSUME i = mutations', mutations < mutations', NEW w \in Tabs
                 PROVE  /\ i \notin OwnChanges(tab[w])
                        /\ i \notin tab[w].completed
                        /\ Message(i, "settled") \notin channel[w]
      OBVIOUS
    <3>1. i \notin 1 .. mutations
      BY DEF IInv
    <3>2. tab[w].completed \subseteq 1 .. mutations
      BY DEF IInv, PageOK
    <3>3. \A m \in channel[w] : m.id \in 1 .. mutations
      BY DEF IInv, ChannelOK, IsMessage
    <3>. QED
      BY <1>4, <3>1, <3>2, <3>3, MessageIs
  <2>3. /\ i \notin tab[v].completed
        /\ Message(i, "settled") \notin channel[v]
    BY <2>1, <2>2 DEF IInv, ChangesOK
  <2>4. i \notin tab'[v].completed
    BY <1>1, <2>1, <2>3
  <2>5. Message(i, "settled") \notin channel'[v]
    <3> SUFFICES ASSUME Message(i, "settled") \in channel'[v]
                 PROVE  FALSE
      OBVIOUS
    <3>1. PICK j \in OwnChanges(tab[t]) \ OwnChanges(b) : Message(i, "settled") = Message(j, "settled")
      BY <2>3, MessageIs
    <3>2. i = j
      BY <3>1, MessageIs
    <3>3. u # t
      BY <1>1, <3>1, <3>2
    <3>4. i \in OwnChanges(tab[u])
      BY <2>1, <3>3
    <3>. QED
      BY <3>1, <3>2, <3>3, <3>4 DEF IInv, ChangesOK
  <2>6. ASSUME v # u
        PROVE  i \notin OwnChanges(tab'[v])
    <3>1. CASE i \in OwnChanges(tab[u])
      <4>1. i \notin OwnChanges(tab[v])
        BY <2>6, <3>1 DEF IInv, ChangesOK
      <4>2. i \in 1 .. mutations
        BY <1>4, <3>1
      <4>3. ~ (i = mutations' /\ mutations < mutations')
        BY <4>2 DEF IInv
      <4>. QED
        BY <1>1, <4>1, <4>3
    <3>2. CASE u = t /\ i = mutations' /\ mutations < mutations'
      BY <1>1, <2>2, <2>6, <3>2
    <3>. QED
      BY <2>1, <3>1, <3>2
  <2>. QED
    BY <2>4, <2>5, <2>6
<1>7. \A u \in Tabs : ChangesOK(u)'
  BY <1>6 DEF ChangesOK, OwnChanges
<1>8. ASSUME NEW u \in Tabs, tab'[u].page = "open"
      PROVE  Disturbed(u)' \/ OwnChanges(tab'[u]) # {} \/ Truth(tab'[u], cookie', Resolve(cookie)')
  <2>1. CASE u = t
    BY <1>1, <1>8, <2>1
  <2>2. CASE u # t
    <3>1. tab'[u] = tab[u]
      BY <1>1, <2>2
    <3>2. TruthOK(u)
      BY DEF IInv
    <3>3. CASE OwnChanges(tab[u]) # {}
      BY <3>1, <3>3
    <3>4. CASE Disturbed(u)
      BY <1>8, <2>2, <3>1, <3>4, OthersStayDisturbed
    <3>5. CASE Truth(tab[u], cookie, Resolve(cookie))
      <4>1. CASE cookie' # cookie
        <5>1. OwnChanges(tab'[t]) # {}
          BY <1>1, <4>1
        <5>. QED
          BY <2>2, <5>1 DEF Disturbed, OwnChanges
      <4>2. CASE cookie' = cookie
        <5>1. Resolve(cookie)' \in {Resolve(cookie), None}
          BY <4>2, StillNamed DEF Resolve, IInv, SessionsOK
        <5>2. Truth(tab[u], cookie', Resolve(cookie)')
          BY <3>5, <4>2, <5>1 DEF Truth
        <5>. QED
          BY <3>1, <5>2
      <4>. QED
        BY <4>1, <4>2
    <3>. QED
      BY <1>8, <3>1, <3>2, <3>3, <3>4, <3>5 DEF TruthOK
  <2>. QED
    BY <2>1, <2>2
<1>9. \A u \in Tabs : TruthOK(u)'
  BY <1>8 DEF TruthOK, OwnChanges, Truth, Current
<1>. QED
  BY <1>1, <1>2, <1>3, <1>5, <1>7, <1>9 DEF IInv
-----------------------------------------------------------------------------
(* A page that changes no user and tells no other page.                    *)
LEMMA PageGoesOn ==
  ASSUME IInv, NEW t \in Tabs, NEW b, tab' = [tab EXCEPT ![t] = b],
         UNCHANGED <<mutations, cookie>>,
         DOMAIN channel' = Tabs, \A u \in Tabs : channel'[u] = channel[u],
         RegistryMoves(sessions, sessions'),
         PageOK(b, mutations, sessions'),
         b.page = tab[t].page, b.pending = tab[t].pending, b.completed = tab[t].completed,
         OwnChanges(b) = OwnChanges(tab[t]),
         Truth(tab[t], cookie, Resolve(cookie)) => Truth(b, cookie, Resolve(cookie)')
  PROVE  IInv'
<1>1. DOMAIN tab' = Tabs /\ tab'[t] = b /\ \A u \in Tabs : u # t => tab'[u] = tab[u]
  BY DEF IInv
<1>2. IsDrawn(cookie', sessions')
  BY DemoSessionsAssumption DEF IInv, SessionsOK, IsDrawn, RegistryMoves
<1>3. b.page # "open" => channel'[t] = {}
  BY DEF IInv, ChannelOK
<1>4. \A i \in OwnChanges(b) : i \notin b.completed
  BY DEF IInv, ChangesOK
<1>5. ASSUME b.page = "open"
      PROVE  Disturbed(t)' \/ OwnChanges(b) # {} \/ Truth(b, cookie', Resolve(cookie)')
  <2>1. CASE Disturbed(t)
    <3>1. Disturbed(t)'
      BY <1>1, <2>1 DEF Disturbed, IsIgnored, OwnChanges
    <3>. QED
      BY <3>1
  <2>2. CASE ~ Disturbed(t)
    BY <1>5, <2>2 DEF IInv, TruthOK
  <2>. QED
    BY <2>1, <2>2
<1>6. /\ DOMAIN channel' = Tabs /\ cookie' = cookie
      /\ mutations' = mutations /\ mutations \in Nat /\ mutations <= mutations'
      /\ PageOK(b, mutations', sessions')
  BY DEF IInv
<1>7. /\ \A u \in Tabs : \A m \in channel'[u] :
            \/ m \in channel[u]
            \/ m = Message(mutations', "pending") /\ mutations < mutations'
            \/ \E i \in OwnChanges(tab[t]) \ OwnChanges(b) : m = Message(i, "settled")
      /\ \A u \in Tabs : u # t => channel[u] \subseteq channel'[u]
      /\ \A u \in Tabs : u # t /\ tab[u].page # "open" => channel'[u] = channel[u]
      /\ \A u \in Tabs, i \in OwnChanges(tab[t]) \ OwnChanges(b) :
            u # t /\ tab[u].page = "open" => Message(i, "settled") \in channel'[u]
  BY <1>6
<1>8. /\ \A i \in OwnChanges(b) : i \in OwnChanges(tab[t]) \/ (i = mutations' /\ mutations < mutations')
      /\ \A i \in b.completed \ tab[t].completed :
            i \notin OwnChanges(b) /\ \A u \in Tabs : u # t => i \notin OwnChanges(tab[u])
  OBVIOUS
<1>. QED
  BY <1>2, <1>3, <1>4, <1>5, <1>6, <1>7, <1>8, PageMoves

(* So do new requests for data and what is shown meanwhile, of a known     *)
(* user; a request already made may be marked.                             *)
LEMMA PageWorks ==
  ASSUME IInv, NEW t \in Tabs, NEW b, tab' = [tab EXCEPT ![t] = b],
         UNCHANGED <<mutations, sessionVars, channel>>,
         IsPage(b), b.page = tab[t].page, b.user = tab[t].user,
         b.pending = tab[t].pending, b.completed = tab[t].completed,
         b.urls \subseteq tab[t].urls, b.view.readers \subseteq tab[t].view.readers,
         tab[t].user = None => b.view.turns = NoTurns /\ b.requests = tab[t].requests,
         \A r \in b.requests :
            \/ \E q \in tab[t].requests : r \in {q, [q EXCEPT !.latest = FALSE]}
            \/ /\ r.kind \in DataKinds /\ DOMAIN r = RequestFields
               /\ r.token = cookie /\ r.current = TRUE /\ r.answer = None
  PROVE  IInv'
<1> DEFINE IsOld(r) == \E q \in tab[t].requests :
                          /\ r.kind = q.kind /\ r.token = q.token /\ r.current = q.current
                          /\ r.answer = q.answer /\ r.run = q.run /\ r.user = q.user
           IsNew(r) == /\ r.kind \in DataKinds
                       /\ r.token = cookie /\ r.current = TRUE /\ r.answer = None
<1>0. PageOK(tab[t], mutations, sessions) /\ SessionsOK
  BY DEF IInv
<1>1. ASSUME NEW r \in b.requests
      PROVE  (IsOld(r) \/ IsNew(r)) /\ IsRequest(r, mutations, sessions)
  <2>1. ASSUME NEW q \in tab[t].requests, r \in {q, [q EXCEPT !.latest = FALSE]}
        PROVE  /\ r.kind = q.kind /\ r.token = q.token /\ r.current = q.current
               /\ r.answer = q.answer /\ r.run = q.run /\ r.user = q.user
               /\ IsRequest(r, mutations, sessions)
    <3>1. IsRequest(q, mutations, sessions)
      BY <1>0 DEF PageOK
    <3>. QED
      BY <2>1, <3>1 DEF IsRequest, RequestFields
  <2>2. CASE \E q \in tab[t].requests : r \in {q, [q EXCEPT !.latest = FALSE]}
    BY <2>1, <2>2
  <2>3. CASE IsNew(r) /\ DOMAIN r = RequestFields
    BY <2>3, Kinds DEF IsRequest
  <2>. QED
    BY <2>2, <2>3
<1>2. tab[t].user # None => \A r \in Current(b) : r.kind \in DataKinds
  <2> SUFFICES ASSUME tab[t].user # None, NEW r \in b.requests, r.current
               PROVE  r.kind \in DataKinds
    BY DEF Current
  <2>. QED
    BY <1>0, <1>1 DEF PageOK, Current
<1>3. tab[t].user # None => OwnChanges(b) = {} /\ OwnChanges(tab[t]) = {}
  BY <1>0, <1>2, Kinds DEF PageOK, OwnChanges, Current
<1>4. OwnChanges(b) = OwnChanges(tab[t])
  BY <1>3 DEF OwnChanges
<1>5. PageOK(b, mutations, sessions)
  <2>1. CASE tab[t].user = None
    <3>1. b.urls = {} /\ b.view.readers = {} /\ b.view.turns = NoTurns
      BY <1>0, <2>1 DEF PageOK
    <3>2. Current(b) = Current(tab[t])
      BY <2>1 DEF Current
    <3>. QED
      BY <1>0, <1>1, <1>4, <2>1, <3>1, <3>2 DEF PageOK
  <2>2. CASE tab[t].user # None
    <3>1. tab[t].page = "open"
      BY <1>0, <2>2 DEF PageOK
    <3>. QED
      BY <1>0, <1>1, <1>2, <1>3, <2>2, <3>1 DEF PageOK
  <2>. QED
    BY <2>1, <2>2
<1>6. ASSUME Truth(tab[t], cookie, Resolve(cookie))
      PROVE  Truth(b, cookie, Resolve(cookie))
  <2>1. ASSUME NEW r \in Current(b)
        PROVE  /\ r.token = cookie
               /\ r.answer # None /\ r.answer.status = 200 /\ r.kind \in DataKinds =>
                     r.answer.user = b.user
               /\ r.answer # None /\ r.answer.status = 200 /\ r.kind \in Questions =>
                     Resolve(cookie) \in {r.answer.user, None}
    <3>1. CASE IsNew(r)
      BY <3>1
    <3>2. CASE IsOld(r)
      BY <1>6, <2>1, <3>2 DEF Truth, Current
    <3>. QED
      BY <1>1, <2>1, <3>1, <3>2 DEF Current
  <2>. QED
    BY <1>6, <2>1 DEF Truth
<1>7. Resolve(cookie)' = Resolve(cookie) /\ sessions' = sessions /\ UNCHANGED <<mutations, cookie, channel>>
  BY DEF sessionVars, Resolve, Live
<1>8. RegistryMoves(sessions, sessions') /\ PageOK(b, mutations, sessions')
  BY <1>0, <1>5, <1>7, NothingMoves
<1>9. DOMAIN channel' = Tabs /\ \A u \in Tabs : channel'[u] = channel[u]
  BY DEF IInv
<1>. QED
  BY <1>4, <1>6, <1>7, <1>8, <1>9, PageGoesOn
-----------------------------------------------------------------------------
(* What the user does with a page, without a change of user.               *)

LEMMA StartsAnewKeeps ==
  ASSUME IInv, NEW t \in Tabs, StartsAnew(t)
  PROVE  IInv'
<1> DEFINE b == Emptied(tab[t])
<1>1. IsPage(tab[t])
  BY DEF IInv, PageOK
<1>2. SameShell(tab[t], b) /\ b.view.turns = NoTurns /\ b.view.readers = {}
      /\ b.requests = tab[t].requests
  BY <1>1, EmptiedIs
<1>3. tab' = [tab EXCEPT ![t] = b] /\ UNCHANGED <<mutations, sessionVars, channel>>
  BY DEF StartsAnew
<1> HIDE DEF b
<1>. QED
  BY <1>2, <1>3, PageWorks DEF SameShell

LEMMA RevokesUrlsKeeps ==
  ASSUME IInv, NEW t \in Tabs, RevokesUrls(t)
  PROVE  IInv'
<1> DEFINE b == [tab[t] EXCEPT !.urls = {}]
<1>1. IsPage(tab[t]) /\ (tab[t].user = None => tab[t].view.turns = NoTurns)
  BY DEF IInv, PageOK
<1>2. /\ IsPage(b) /\ b.page = tab[t].page /\ b.user = tab[t].user
      /\ b.pending = tab[t].pending /\ b.completed = tab[t].completed
      /\ b.urls = {} /\ b.view = tab[t].view /\ b.requests = tab[t].requests
  BY <1>1 DEF IsPage, PageFields
<1>3. tab' = [tab EXCEPT ![t] = b] /\ UNCHANGED <<mutations, sessionVars, channel>>
  BY DEF RevokesUrls
<1> HIDE DEF b
<1>. QED
  BY <1>1, <1>2, <1>3, PageWorks

(* Only a page that knows its user shows turns.                            *)
LEMMA OpensDocumentKeeps ==
  ASSUME IInv, NEW t \in Tabs, OpensDocument(t)
  PROVE  IInv'
<1> DEFINE r == Request("document", None, None)
           b == Requested(tab[t], r)
<1>1. IsPage(tab[t]) /\ (tab[t].user = None => tab[t].view.turns = NoTurns)
  BY DEF IInv, PageOK
<1>2. SameShell(tab[t], b) /\ b.view = tab[t].view /\ b.requests = tab[t].requests \union {r}
  BY <1>1, RequestedIs
<1>3. /\ r.kind \in DataKinds /\ DOMAIN r = RequestFields
      /\ r.token = cookie /\ r.current = TRUE /\ r.answer = None
  BY DEF Request, RequestFields, DataKinds
<1>4. /\ tab' = [tab EXCEPT ![t] = b] /\ UNCHANGED <<mutations, sessionVars, channel>>
      /\ tab[t].user # None
  BY <1>1 DEF OpensDocument
<1> HIDE DEF b, r
<1>. QED
  BY <1>2, <1>3, <1>4, PageWorks DEF SameShell

LEMMA WithTurnIs ==
  ASSUME NEW b, IsPage(b), NEW run, NEW status
  PROVE  LET c == WithTurn(b, run, status)
         IN SameShell(b, c) /\ c.view.readers = b.view.readers /\ c.requests = b.requests
BY DEF WithTurn, IsPage, SameShell, PageFields, ViewFields

LEMMA DecidesKeeps ==
  ASSUME IInv, NEW t \in Tabs, NEW n, Decides(t, n)
  PROVE  IInv'
<1> DEFINE r == Request("resume", tab[t].view.investigation, n)
           d == WithTurn(tab[t], n, "deciding")
           b == Requested(d, r)
<1>1. IsPage(tab[t]) /\ (tab[t].user = None => tab[t].view.turns = NoTurns)
  BY DEF IInv, PageOK
<1>2. SameShell(tab[t], d) /\ d.view.readers = tab[t].view.readers /\ d.requests = tab[t].requests
  BY <1>1, WithTurnIs
<1>3. SameShell(d, b) /\ b.view = d.view /\ b.requests = d.requests \union {r}
  <2> HIDE DEF d
  <2>. QED
    BY <1>2, RequestedIs DEF SameShell
<1>4. /\ r.kind \in DataKinds /\ DOMAIN r = RequestFields
      /\ r.token = cookie /\ r.current = TRUE /\ r.answer = None
  BY DEF Request, RequestFields, DataKinds
<1>5. tab[t].user # None
  BY <1>1 DEF Decides, NoTurns
<1>6. tab' = [tab EXCEPT ![t] = b] /\ UNCHANGED <<mutations, sessionVars, channel>>
  BY DEF Decides
<1> HIDE DEF b, d, r
<1>. QED
  BY <1>2, <1>3, <1>4, <1>5, <1>6, PageWorks DEF SameShell

LEMMA SubmitsKeeps ==
  ASSUME IInv, NEW t \in Tabs, Submits(t)
  PROVE  IInv'
<1> DEFINE investigation == tab[t].view.investigation
           cleared == IF investigation = None THEN [tab[t] EXCEPT !.view = EmptyView] ELSE tab[t]
           outdated == {[q EXCEPT !.latest = FALSE] : q \in cleared.requests}
           marked == [cleared EXCEPT !.requests = outdated]
           r == Request("create", investigation, None)
           b == Requested(marked, r)
<1>1. IsPage(tab[t]) /\ tab[t].user # None
  BY DEF IInv, PageOK, Submits
<1>2. /\ SameShell(tab[t], cleared) /\ cleared.requests = tab[t].requests
      /\ cleared.view.readers \subseteq tab[t].view.readers
  BY <1>1 DEF IsPage, SameShell, PageFields, ViewFields, EmptyView
<1>3. /\ SameShell(tab[t], marked) /\ marked.view.readers \subseteq tab[t].view.readers
      /\ marked.requests = {[q EXCEPT !.latest = FALSE] : q \in tab[t].requests}
  <2> HIDE DEF cleared
  <2>. QED
    BY <1>2 DEF IsPage, SameShell, PageFields
<1>4. SameShell(marked, b) /\ b.view = marked.view /\ b.requests = marked.requests \union {r}
  <2> HIDE DEF marked
  <2>. QED
    BY <1>3, RequestedIs DEF SameShell
<1>5. /\ r.kind \in DataKinds /\ DOMAIN r = RequestFields
      /\ r.token = cookie /\ r.current = TRUE /\ r.answer = None
  BY DEF Request, RequestFields, DataKinds
<1>6. tab' = [tab EXCEPT ![t] = b] /\ UNCHANGED <<mutations, sessionVars, channel>>
  BY DEF Submits
<1> HIDE DEF b, marked, r
<1>7. \A q \in b.requests :
            \/ \E p \in tab[t].requests : q \in {p, [p EXCEPT !.latest = FALSE]}
            \/ /\ q.kind \in DataKinds /\ DOMAIN q = RequestFields
               /\ q.token = cookie /\ q.current = TRUE /\ q.answer = None
  BY <1>3, <1>4, <1>5
<1>. QED
  BY <1>1, <1>3, <1>4, <1>6, <1>7, PageWorks DEF SameShell

(* A session that is over names nobody.                                    *)
LEMMA RevokedMoves ==
  ASSUME SessionsOK, NEW token
  PROVE  RegistryMoves(sessions, Revoked(token))
BY DEF SessionsOK, RegistryMoves, Revoked, Live

LEMMA SessionExpiresKeeps ==
  ASSUME IInv, SessionExpires
  PROVE  IInv'
<1>1. RegistryMoves(sessions, sessions') /\ UNCHANGED consoleVars /\ cookie' = cookie
  BY RevokedMoves DEF SessionExpires, Expires, IInv
<1>2. SessionsOK'
  BY <1>1, DemoSessionsAssumption DEF IInv, SessionsOK, IsDrawn, RegistryMoves
<1>3. Resolve(cookie)' \in {Resolve(cookie), None}
  BY <1>1, StillNamed DEF Resolve, IInv, SessionsOK
<1>4. ASSUME NEW t \in Tabs
      PROVE  /\ PageOK(tab[t], mutations, sessions)'
             /\ ChannelOK(t)' /\ ChangesOK(t)' /\ TruthOK(t)'
  <2>1. PageOK(tab[t], mutations, sessions)'
    <3>1. PageOK(tab[t], mutations, sessions')
      BY <1>1, PageStays DEF IInv
    <3>. QED
      BY <1>1, <3>1 DEF consoleVars
  <2>2. ChannelOK(t)' /\ ChangesOK(t)'
    BY <1>1 DEF IInv, ChannelOK, ChangesOK, consoleVars, OwnChanges
  <2>3. TruthOK(t)'
    BY <1>1, <1>3 DEF IInv, TruthOK, Disturbed, IsIgnored, Truth, consoleVars, OwnChanges, Current
  <2>. QED
    BY <2>1, <2>2, <2>3
<1>. QED
  BY <1>1, <1>2, <1>4 DEF IInv, consoleVars
-----------------------------------------------------------------------------
(* The server answers.                                                     *)

(* The tokens are drawn in order.                                          *)
LEMMA LeastToken ==
  ASSUME NEW S \in SUBSET Nat, S # {}
  PROVE  (CHOOSE t \in S : \A u \in S : t <= u) \in S
<1>1. PICK t \in S : \A u \in S : ~ (<<u, t>> \in OpToRel(<, Nat))
  BY NatLessThanWellFounded, WFMin
<1>2. \A u \in S : ~ (u < t)
  BY <1>1 DEF OpToRel
<1>3. \E x \in S : \A u \in S : x <= u
  BY <1>2
<1>. QED
  BY <1>3

LEMMA EstablishMoves ==
  ASSUME SessionsOK, NEW user \in Users, NEW previous, Undrawn # {}
  PROVE  LET o == Establish(user, previous)
         IN /\ RegistryMoves(sessions, o.registry)
            /\ IsDrawn(o.cookie, o.registry)
<1> DEFINE freed == Revoked(previous)
           token == CHOOSE t \in Undrawn : \A u \in Undrawn : t <= u
           named == [freed EXCEPT ![token] = user]
<1>1. RegistryMoves(sessions, freed)
  BY RevokedMoves
<1>2. token \in Tokens /\ sessions[token] = None
  <2>1. Undrawn \in SUBSET Nat
    BY DemoSessionsAssumption DEF Undrawn
  <2>. QED
    BY <2>1, LeastToken DEF Undrawn
<1> HIDE DEF freed, token
<1>3. RegistryMoves(sessions, named)
  BY <1>1, <1>2 DEF RegistryMoves
<1>4. IsDrawn(token, named) /\ IsDrawn(None, freed)
  BY <1>1, <1>2, DemoSessionsAssumption DEF IsDrawn, RegistryMoves
<1>5. \/ Establish(user, previous) = Outcome(freed, 429, None, None)
      \/ Establish(user, previous) = Outcome(named, 200, user, token)
  BY DEF Establish, freed, token
<1>. QED
  BY <1>1, <1>3, <1>4, <1>5 DEF Outcome

(* An answer that tells of no other user than the one of the cookie it was *)
(* asked with.                                                             *)
LEMMA RepliedKeeps ==
  ASSUME IInv, NEW t \in Tabs, NEW r \in tab[t].requests, r.answer = None,
         NEW answer, Replied(t, r, answer),
         RegistryMoves(sessions, sessions'), UNCHANGED <<mutations, cookie, channel>>,
         "cookie" \in DOMAIN answer,
         answer.cookie # None => r.kind \in Changes /\ IsDrawn(answer.cookie, sessions'),
         r.kind \in DataKinds /\ answer.status = 200 =>
            Resolve(r.token) # None /\ answer.user = Resolve(r.token),
         r.kind \in Questions /\ answer.status = 200 => answer.user = Resolve(r.token)
  PROVE  IInv'
<1> DEFINE a == [r EXCEPT !.answer = answer]
           replied == (tab[t].requests \ {r}) \union (IF r.current THEN {a} ELSE {})
           b == [tab[t] EXCEPT !.requests = replied]
<1>0. PageOK(tab[t], mutations, sessions) /\ SessionsOK /\ mutations \in Nat
  BY DEF IInv
<1>1. tab' = [tab EXCEPT ![t] = b]
  BY DEF Replied
<1>2. /\ IsPage(b) /\ b.requests = replied
      /\ b.page = tab[t].page /\ b.user = tab[t].user
      /\ b.pending = tab[t].pending /\ b.completed = tab[t].completed
      /\ b.urls = tab[t].urls /\ b.view = tab[t].view
  BY <1>0 DEF PageOK, IsPage, PageFields
<1>3. PageOK(tab[t], mutations, sessions')
  BY <1>0, PageStays
<1>4. IsRequest(r, mutations, sessions')
  BY <1>3 DEF PageOK
<1>5. /\ DOMAIN a = RequestFields
      /\ a.kind = r.kind /\ a.token = r.token /\ a.current = r.current /\ a.run = r.run
      /\ a.user = r.user
      /\ a.answer = answer
  BY <1>4 DEF IsRequest, RequestFields
<1>6. IsRequest(a, mutations, sessions')
  BY <1>4, <1>5 DEF IsRequest
<1> HIDE DEF a, b
<1>7. ASSUME NEW q \in Current(b)
      PROVE  \/ q \in Current(tab[t])
             \/ q = a /\ r \in Current(tab[t])
  BY <1>2, <1>7 DEF Current
<1>8. OwnChanges(b) = OwnChanges(tab[t])
  BY <1>2, <1>5 DEF OwnChanges
<1>9. PageOK(b, mutations, sessions')
  <2>1. \A q \in b.requests : IsRequest(q, mutations, sessions')
    BY <1>2, <1>3, <1>6 DEF PageOK
  <2>2. b.user = None => \A q \in Current(b) : q.kind \notin DataKinds
    BY <1>2, <1>3, <1>5, <1>7 DEF PageOK
  <2>3. ASSUME NEW q \in Current(b), q.kind \notin DataKinds
        PROVE  b.user = None /\ \A p \in Current(b) : p = q
    <3>1. CASE q \in Current(tab[t])
      <4>1. tab[t].user = None /\ \A p \in Current(tab[t]) : p = q
        BY <1>3, <2>3, <3>1 DEF PageOK
      <4>2. CASE q = r
        <5>1. r.current /\ q \in replied
          BY <1>2, <3>1, <4>2 DEF Current
        <5>2. q = a
          BY <4>2, <5>1
        <5>. QED
          BY <1>2, <1>7, <4>1, <4>2, <5>2
      <4>3. CASE q # r
        BY <1>2, <1>7, <4>1, <4>3
      <4>. QED
        BY <4>2, <4>3
    <3>2. CASE q = a /\ r \in Current(tab[t])
      <4>1. tab[t].user = None /\ \A p \in Current(tab[t]) : p = r
        BY <1>3, <1>5, <2>3, <3>2 DEF PageOK
      <4>2. ASSUME NEW p \in Current(b)
            PROVE  p = a
        <5>1. p \in replied
          BY <1>2 DEF Current
        <5>. QED
          BY <1>7, <4>1, <5>1
      <4>. QED
        BY <1>2, <3>2, <4>1, <4>2
    <3>. QED
      BY <1>7, <3>1, <3>2
  <2>4. b.page # "open" => Current(b) = {}
    BY <1>2, <1>3, <1>7 DEF PageOK
  <2>. QED
    BY <1>2, <1>3, <1>8, <2>1, <2>2, <2>3, <2>4 DEF PageOK
<1>10. ASSUME Truth(tab[t], cookie, Resolve(cookie))
       PROVE  Truth(b, cookie, Resolve(cookie)')
  <2>1. Resolve(cookie)' \in {Resolve(cookie), None}
    BY StillNamed DEF Resolve, IInv, SessionsOK
  <2>2. ASSUME NEW q \in Current(b)
        PROVE  /\ q.token = cookie
               /\ q.answer # None /\ q.answer.status = 200 /\ q.kind \in DataKinds =>
                     q.answer.user = b.user
               /\ q.answer # None /\ q.answer.status = 200 /\ q.kind \in Questions =>
                     Resolve(cookie)' \in {q.answer.user, None}
    <3>1. CASE q \in Current(tab[t])
      BY <1>2, <1>10, <2>1, <3>1 DEF Truth
    <3>2. CASE q = a /\ r \in Current(tab[t])
      <4>1. r.token = cookie
        BY <1>10, <3>2 DEF Truth
      <4>2. q.kind \in DataKinds => tab[t].user # None
        BY <1>0, <1>5, <3>2 DEF PageOK
      <4>3. tab[t].user # None => Resolve(cookie) \in {tab[t].user, None}
        BY <1>10 DEF Truth
      <4>. QED
        BY <1>2, <1>5, <2>1, <3>2, <4>1, <4>2, <4>3
    <3>. QED
      BY <1>7, <3>1, <3>2
  <2>. QED
    BY <1>2, <1>10, <2>1, <2>2 DEF Truth
<1>11. DOMAIN channel' = Tabs /\ \A u \in Tabs : channel'[u] = channel[u]
  BY DEF IInv
<1>. QED
  BY <1>1, <1>2, <1>8, <1>9, <1>10, <1>11, PageGoesOn

LEMMA AnswerIs ==
  ASSUME NEW status, NEW user, NEW turns
  PROVE  LET answer == Answer(status, user, turns)
         IN /\ DOMAIN answer = {"status", "user", "turns", "run", "investigation", "cookie"}
            /\ answer.status = status /\ answer.user = user
            /\ answer.run = None /\ answer.investigation = None /\ answer.cookie = None
BY DEF Answer

(* The registry answers for who the cookie named, or sets another.         *)
LEMMA AuthenticatesKeeps ==
  ASSUME IInv, NEW t \in Tabs, NEW r \in tab[t].requests, r.answer = None, Authenticates(t, r)
  PROVE  IInv'
<1> DEFINE OutcomeOK(o) ==
             /\ sessions' = o.registry
             /\ Replied(t, r, [Answer(o.status, o.user, NoTurns) EXCEPT !.cookie = o.cookie])
             /\ RegistryMoves(sessions, o.registry)
             /\ o.cookie # None => r.kind \in Changes /\ IsDrawn(o.cookie, o.registry)
             /\ r.kind \in Questions => o.user = Resolve(r.token)
<1>1. SessionsOK /\ RegistryMoves(sessions, sessions)
  BY NothingMoves DEF IInv
<1>2. /\ r.kind \in Changes \union Questions
      /\ r.kind \in {"bootstrap", "switch"} => Undrawn # {}
      /\ UNCHANGED <<cookie, channel, runs, mutations, hides>>
  BY DEF Authenticates, Questions
<1>3. r.kind \notin DataKinds
  BY <1>2, Kinds
<1>4. \E o : OutcomeOK(o)
  <2>1. CASE r.kind = "bootstrap"
    <3> DEFINE o == Bootstrap(r.token)
    <3>1. sessions' = o.registry
          /\ Replied(t, r, [Answer(o.status, o.user, NoTurns) EXCEPT !.cookie = o.cookie])
      BY <2>1 DEF Authenticates, Changes
    <3>2. r.kind \in Changes /\ r.kind \notin Questions
      BY <2>1 DEF Changes, Questions
    <3>3. RegistryMoves(sessions, o.registry) /\ (o.cookie # None => IsDrawn(o.cookie, o.registry))
      <4>1. CASE o \in {Outcome(sessions, 401, None, None), Outcome(sessions, 200, Resolve(r.token), None)}
        BY <1>1, <4>1 DEF Outcome
      <4>2. CASE o = Establish(DefaultUser, r.token)
        <5>1. Undrawn # {}
          BY <1>2, <2>1
        <5>. QED
          BY <1>1, <4>2, <5>1, EstablishMoves, DemoSessionsAssumption
      <4>. QED
        BY <4>1, <4>2 DEF Bootstrap
    <3>. QED
      BY <3>1, <3>2, <3>3
  <2>2. CASE r.kind = "switch"
    <3> DEFINE o == Establish(r.user, r.token)
    <3>1. sessions' = o.registry
          /\ Replied(t, r, [Answer(o.status, o.user, NoTurns) EXCEPT !.cookie = o.cookie])
      BY <2>2 DEF Authenticates, Changes, Switch
    <3>2. r.kind \in Changes /\ r.kind \notin Questions /\ Undrawn # {}
      BY <1>2, <2>2 DEF Changes, Questions
    <3>3. r.user \in Users
      BY <2>2 DEF IInv, PageOK, IsRequest
    <3>4. RegistryMoves(sessions, o.registry) /\ IsDrawn(o.cookie, o.registry)
      BY <1>1, <3>2, <3>3, EstablishMoves
    <3>. QED
      BY <3>1, <3>2, <3>4
  <2>3. CASE r.kind = "logout"
    <3> DEFINE o == Logout(r.token)
    <3>1. sessions' = o.registry
          /\ Replied(t, r, [Answer(o.status, o.user, NoTurns) EXCEPT !.cookie = o.cookie])
      BY <2>3 DEF Authenticates, Changes
    <3>2. r.kind \in Changes /\ r.kind \notin Questions
      BY <2>3 DEF Changes, Questions
    <3>3. RegistryMoves(sessions, o.registry) /\ IsDrawn(o.cookie, o.registry)
      BY <1>1, RevokedMoves, DemoSessionsAssumption DEF Logout, Outcome, IsDrawn
    <3>. QED
      BY <3>1, <3>2, <3>3
  <2>4. CASE r.kind \in Questions
    <3> DEFINE o == Me(r.token)
    <3>1. sessions' = o.registry
          /\ Replied(t, r, [Answer(o.status, o.user, NoTurns) EXCEPT !.cookie = o.cookie])
      BY <2>4 DEF Authenticates, Questions
    <3>2. o.registry = sessions /\ o.cookie = None /\ o.user = Resolve(r.token)
      BY DEF Me, Outcome
    <3>. QED
      BY <1>1, <3>1, <3>2
  <2>. QED
    BY <1>2, <2>1, <2>2, <2>3, <2>4 DEF Changes
<1>5. PICK o : OutcomeOK(o)
  BY <1>4
<1> DEFINE answer == [Answer(o.status, o.user, NoTurns) EXCEPT !.cookie = o.cookie]
<1>6. "cookie" \in DOMAIN answer /\ answer.cookie = o.cookie /\ answer.user = o.user
  BY DEF Answer
<1> HIDE DEF answer
<1>7. Replied(t, r, answer)
  BY <1>5 DEF answer
<1>. QED
  BY <1>2, <1>3, <1>5, <1>6, <1>7, RepliedKeeps

(* An answer about data, which sets no cookie.                             *)
LEMMA DataReplied ==
  ASSUME IInv, NEW t \in Tabs, NEW r \in tab[t].requests, r.answer = None,
         r.kind \in DataKinds, NEW answer, Replied(t, r, answer),
         UNCHANGED <<sessionVars, mutations, channel>>,
         "cookie" \in DOMAIN answer, answer.cookie = None,
         answer.status = 200 => Resolve(r.token) # None /\ answer.user = Resolve(r.token)
  PROVE  IInv'
<1>1. RegistryMoves(sessions, sessions')
  BY NothingMoves DEF IInv, sessionVars
<1>2. r.kind \notin Questions
  BY Kinds
<1>. QED
  BY <1>1, <1>2, RepliedKeeps DEF sessionVars

LEMMA RunsKeeps ==
  ASSUME IInv, NEW t \in Tabs, NEW r \in tab[t].requests, r.answer = None, Runs(t, r)
  PROVE  IInv'
<1>1. r.kind \in DataKinds /\ UNCHANGED <<sessionVars, mutations, channel>>
  BY DEF Runs, DataKinds
<1>2. CASE Reader(r) = None
  BY <1>1, <1>2, DataReplied, AnswerIs DEF Runs
<1>3. CASE Reader(r) # None /\ Replied(t, r, Answer(404, Reader(r), NoTurns))
  BY <1>1, <1>3, DataReplied, AnswerIs
<1>5. CASE Reader(r) # None /\ ~ (r.investigation # None /\ Visible(Reader(r), r.investigation) = {})
  <2> DEFINE n == Len(runs) + 1
             investigation == IF r.investigation = None THEN n ELSE r.investigation
             turns(status) == [m \in {n} |-> status]
  <2>1. PICK status \in {"ended", "waiting"}, code \in {200, 504} :
           Replied(t, r, [Answer(code, Reader(r), turns(status))
                          EXCEPT !.run = n, !.investigation = investigation])
    BY <1>5 DEF Runs
  <2> DEFINE answer == [Answer(code, Reader(r), turns(status))
                        EXCEPT !.run = n, !.investigation = investigation]
  <2>2. "cookie" \in DOMAIN answer /\ answer.cookie = None /\ answer.user = Resolve(r.token)
    BY DEF Answer, Reader
  <2> HIDE DEF answer
  <2>3. Replied(t, r, answer)
    BY <2>1 DEF answer
  <2>. QED
    BY <1>1, <1>5, <2>2, <2>3, DataReplied DEF Reader
<1>6. CASE Reader(r) # None /\ r.investigation # None /\ Visible(Reader(r), r.investigation) = {}
  BY <1>3, <1>6 DEF Runs
<1>. QED
  BY <1>2, <1>5, <1>6

LEMMA ResumesKeeps ==
  ASSUME IInv, NEW t \in Tabs, NEW r \in tab[t].requests, r.answer = None, Resumes(t, r)
  PROVE  IInv'
<1>1. r.kind \in DataKinds /\ UNCHANGED <<sessionVars, mutations, channel>>
  BY DEF Resumes, DataKinds
<1>2. \/ Replied(t, r, Answer(401, None, NoTurns))
      \/ Reader(r) # None /\ \E status \in {200, 404, 409} :
            Replied(t, r, Answer(status, Reader(r), NoTurns))
  BY DEF Resumes
<1>. QED
  BY <1>1, <1>2, DataReplied, AnswerIs DEF Reader

LEMMA ShowsKeeps ==
  ASSUME IInv, NEW t \in Tabs, NEW r \in tab[t].requests, r.answer = None, Shows(t, r)
  PROVE  IInv'
<1>1. r.kind \in DataKinds /\ UNCHANGED <<sessionVars, mutations, channel>>
  BY DEF Shows, DataKinds
<1>2. CASE Replied(t, r, Answer(401, None, NoTurns))
  BY <1>1, <1>2, DataReplied, AnswerIs
<1>3. CASE Reader(r) # None /\ Replied(t, r, Answer(200, Reader(r), NoTurns))
  BY <1>1, <1>3, DataReplied, AnswerIs DEF Reader
<1>4. CASE Reader(r) # None /\ Replied(t, r, Investigation(Reader(r), r.investigation))
  <2> DEFINE answer == Investigation(Reader(r), r.investigation)
  <2>1. "cookie" \in DOMAIN answer /\ answer.cookie = None /\ answer.user = Resolve(r.token)
    BY DEF Investigation, Answer, Reader
  <2>. QED
    BY <1>1, <1>4, <2>1, DataReplied DEF Reader
<1>. QED
  BY <1>2, <1>3, <1>4 DEF Shows
-----------------------------------------------------------------------------
(* The browser takes the cookie of a change under way; every other page    *)
(* will hear of that change.                                               *)
LEMMA StoresCookieKeeps ==
  ASSUME IInv, NEW t \in Tabs, NEW r \in tab[t].requests, StoresCookie(t, r)
  PROVE  IInv'
<1> DEFINE a == [r EXCEPT !.answer.cookie = None]
           stored == (tab[t].requests \ {r}) \union {a}
           b == [tab[t] EXCEPT !.requests = stored]
<1>0. PageOK(tab[t], mutations, sessions) /\ SessionsOK /\ mutations \in Nat
  BY DEF IInv
<1>1. /\ tab' = [tab EXCEPT ![t] = b] /\ cookie' = r.answer.cookie
      /\ UNCHANGED <<sessions, channel, mutations>>
      /\ r.current /\ r.answer # None /\ r.answer.cookie # None
  BY DEF StoresCookie
<1>2. IsRequest(r, mutations, sessions) /\ r.kind \in Changes /\ IsDrawn(r.answer.cookie, sessions)
  BY <1>0, <1>1 DEF PageOK, IsRequest
<1>3. /\ DOMAIN a = RequestFields
      /\ a.kind = r.kind /\ a.current = r.current /\ a.run = r.run /\ a.user = r.user
      /\ "cookie" \in DOMAIN a.answer /\ a.answer.cookie = None
  BY <1>1, <1>2 DEF IsRequest, RequestFields
<1> HIDE DEF a
<1>4. IsRequest(a, mutations, sessions)
  BY <1>2, <1>3 DEF IsRequest
<1>5. /\ IsPage(b) /\ b.requests = stored
      /\ b.page = tab[t].page /\ b.user = tab[t].user
      /\ b.pending = tab[t].pending /\ b.completed = tab[t].completed
      /\ b.urls = tab[t].urls /\ b.view = tab[t].view
  BY <1>0 DEF PageOK, IsPage, PageFields
<1> HIDE DEF b
<1>6. r \in Current(tab[t]) /\ r.kind \notin DataKinds
  BY <1>1, <1>2, Kinds DEF Current
<1>7. tab[t].user = None /\ Current(tab[t]) = {r}
  BY <1>0, <1>6 DEF PageOK
<1>8. Current(b) = {a}
  BY <1>3, <1>5, <1>6, <1>7 DEF Current
<1>9. OwnChanges(b) = {r.run} /\ OwnChanges(tab[t]) = {r.run}
  BY <1>2, <1>3, <1>7, <1>8 DEF OwnChanges, Current
<1>10. PageOK(b, mutations, sessions)
  <2>1. \A q \in b.requests : IsRequest(q, mutations, sessions)
    BY <1>0, <1>4, <1>5 DEF PageOK
  <2>2. b.page = "open"
    BY <1>0, <1>5, <1>7 DEF PageOK
  <2>3. a.kind \notin DataKinds
    BY <1>3, <1>6
  <2>. QED
    BY <1>0, <1>5, <1>7, <1>8, <1>9, <2>1, <2>2, <2>3 DEF PageOK
<1>11. /\ mutations' = mutations /\ mutations \in Nat /\ mutations <= mutations'
       /\ channel' = channel /\ DOMAIN channel' = Tabs /\ sessions' = sessions
       /\ RegistryMoves(sessions, sessions') /\ PageOK(b, mutations', sessions')
       /\ IsDrawn(cookie', sessions')
  BY <1>0, <1>1, <1>2, <1>10, NothingMoves DEF IInv
<1>12. /\ \A u \in Tabs : \A m \in channel'[u] :
             \/ m \in channel[u]
             \/ m = Message(mutations', "pending") /\ mutations < mutations'
             \/ \E i \in OwnChanges(tab[t]) \ OwnChanges(b) : m = Message(i, "settled")
       /\ \A u \in Tabs : u # t => channel[u] \subseteq channel'[u]
       /\ \A u \in Tabs : u # t /\ tab[u].page # "open" => channel'[u] = channel[u]
       /\ \A u \in Tabs, i \in OwnChanges(tab[t]) \ OwnChanges(b) :
             u # t /\ tab[u].page = "open" => Message(i, "settled") \in channel'[u]
  BY <1>9, <1>11
<1>13. /\ \A i \in OwnChanges(b) : i \in OwnChanges(tab[t]) \/ (i = mutations' /\ mutations < mutations')
       /\ \A i \in b.completed \ tab[t].completed :
             i \notin OwnChanges(b) /\ \A u \in Tabs : u # t => i \notin OwnChanges(tab[u])
  BY <1>5, <1>9
<1>14. \A i \in OwnChanges(b) : i \notin b.completed
  BY <1>5, <1>9 DEF IInv, ChangesOK
<1>15. b.page = "open"
  BY <1>10, <1>8 DEF PageOK
<1>. QED
  BY <1>1, <1>9, <1>11, <1>12, <1>13, <1>14, <1>15, PageMoves
-----------------------------------------------------------------------------
(* What a page does with an answer.                                        *)

IsNew(r) ==
    /\ r.kind \in DataKinds /\ DOMAIN r = RequestFields
    /\ r.token = cookie /\ r.current = TRUE /\ r.answer = None

(* The page asks for more, or shows more of what these users were told.    *)
GoesOn(b, c, told) ==
    /\ IsPage(c) /\ c.page = b.page /\ c.user = b.user
    /\ c.pending = b.pending /\ c.completed = b.completed
    /\ c.urls \subseteq b.urls \union told
    /\ c.view.readers \subseteq b.view.readers \union told
    /\ \A r \in c.requests : r \in b.requests \/ IsNew(r)

LEMMA GoesOnAndOn ==
  ASSUME NEW b, NEW c, NEW d, NEW told, GoesOn(b, c, told), GoesOn(c, d, told)
  PROVE  GoesOn(b, d, told)
BY DEF GoesOn

LEMMA StaysAsItIs ==
  ASSUME NEW b, IsPage(b), NEW told
  PROVE  GoesOn(b, b, told)
BY DEF GoesOn

LEMMA AsksForMore ==
  ASSUME NEW b, IsPage(b), NEW kind \in DataKinds, NEW investigation, NEW run, NEW told
  PROVE  GoesOn(b, Requested(b, Request(kind, investigation, run)), told)
<1> DEFINE r == Request(kind, investigation, run)
           c == Requested(b, r)
<1>1. IsNew(r)
  BY DEF IsNew, Request, RequestFields
<1>2. SameShell(b, c) /\ c.view = b.view /\ c.requests = b.requests \union {r}
  BY RequestedIs
<1> HIDE DEF r, c
<1>3. GoesOn(b, c, told)
  BY <1>1, <1>2 DEF GoesOn, SameShell
<1>. QED
  BY <1>3 DEF r, c

LEMMA ShowsMore ==
  ASSUME NEW b, NEW c, IsPage(b), SameShell(b, c), c.requests = b.requests, NEW told,
         c.view.readers \subseteq b.view.readers \union told
  PROVE  GoesOn(b, c, told)
BY DEF GoesOn, SameShell

LEMMA ControlsGoOn ==
  ASSUME NEW b, IsPage(b), NEW run, NEW status, NEW told
  PROVE  GoesOn(b, Controls(b, run, status), told)
<1>1. GoesOn(b, WithTurn(b, run, status), told)
  BY WithTurnIs, ShowsMore
<1>. QED
  BY <1>1, StaysAsItIs DEF Controls

LEMMA DecisionGoesOn ==
  ASSUME NEW b, IsPage(b), NEW r, NEW told
  PROVE  GoesOn(b, ReceivesDecision(b, r), told)
<1>1. {"reloadOfDecision", "reloadOfConflict"} \subseteq DataKinds
  BY DEF DataKinds, Reloads
<1>2. GoesOn(b, Requested(b, Request("reloadOfDecision", r.investigation, r.run)), told)
  BY <1>1, AsksForMore
<1>3. GoesOn(b, Requested(Controls(b, r.run, "stale"),
                          Request("reloadOfConflict", r.investigation, None)), told)
  <2> DEFINE c == Controls(b, r.run, "stale")
  <2>1. GoesOn(b, c, told) /\ IsPage(c)
    BY ControlsGoOn DEF GoesOn
  <2> HIDE DEF c
  <2>2. GoesOn(c, Requested(c, Request("reloadOfConflict", r.investigation, None)), told)
    BY <1>1, <2>1, AsksForMore
  <2>3. GoesOn(b, Requested(c, Request("reloadOfConflict", r.investigation, None)), told)
    BY <2>1, <2>2, GoesOnAndOn
  <2>. QED
    BY <2>3 DEF c
<1>4. GoesOn(b, Controls(b, r.run, "waiting"), told) /\ GoesOn(b, b, told)
  BY ControlsGoOn, StaysAsItIs
<1>5. \/ ReceivesDecision(b, r) = b
      \/ ReceivesDecision(b, r) = Requested(b, Request("reloadOfDecision", r.investigation, r.run))
      \/ ReceivesDecision(b, r) = Requested(Controls(b, r.run, "stale"),
                                            Request("reloadOfConflict", r.investigation, None))
      \/ ReceivesDecision(b, r) = Controls(b, r.run, "waiting")
  BY DEF ReceivesDecision
<1>. QED
  BY <1>2, <1>3, <1>4, <1>5

LEMMA RenderedGoesOn ==
  ASSUME NEW b, IsPage(b), NEW answer
  PROVE  GoesOn(b, Rendered(b, answer), {answer.user})
<1> DEFINE shown == [investigation |-> answer.investigation, turns |-> answer.turns,
                     readers |-> {answer.user}]
           c == [b EXCEPT !.view = shown]
<1>1. SameShell(b, c) /\ c.view.readers = {answer.user} /\ c.requests = b.requests
  BY DEF IsPage, SameShell, PageFields, ViewFields
<1>2. Rendered(b, answer) = Persisted(c, answer.investigation)
  BY DEF Rendered
<1> HIDE DEF c
<1>3. IsPage(c)
  BY <1>1 DEF SameShell
<1>4. /\ SameShell(c, Rendered(b, answer))
      /\ Rendered(b, answer).view = c.view /\ Rendered(b, answer).requests = c.requests
  BY <1>2, <1>3, PersistedIs
<1>. QED
  BY <1>1, <1>4 DEF GoesOn, SameShell

LEMMA InvestigationGoesOn ==
  ASSUME NEW b, IsPage(b), NEW r
  PROVE  GoesOn(b, ReceivesInvestigation(b, r),
                IF r.answer.status = 200 THEN {r.answer.user} ELSE {})
<1>1. CASE r.answer.status = 200
  BY <1>1, RenderedGoesOn, StaysAsItIs DEF ReceivesInvestigation
<1>2. CASE r.answer.status # 200
  <2>1. GoesOn(b, Emptied(b), {})
    BY EmptiedIs, ShowsMore
  <2>. QED
    BY <1>2, <2>1, ControlsGoOn, StaysAsItIs DEF ReceivesInvestigation
<1>. QED
  BY <1>1, <1>2

LEMMA RunGoesOn ==
  ASSUME NEW b, IsPage(b), NEW r
  PROVE  GoesOn(b, ReceivesRun(b, r),
                IF r.answer.status = 200 THEN {r.answer.user} ELSE {})
<1> DEFINE known == [b EXCEPT !.view.investigation = r.answer.investigation]
           read == [known EXCEPT !.view.readers = @ \union {r.answer.user}]
           terminal == WithTurn(read, r.answer.run, "ended")
           persisted == Persisted(terminal, r.answer.investigation)
           told == IF r.answer.status = 200 THEN {r.answer.user} ELSE {}
<1>1. SameShell(b, known) /\ known.view.readers = b.view.readers /\ known.requests = b.requests
  BY DEF IsPage, SameShell, PageFields, ViewFields
<1>2. CASE r.answer.status # 200
  <2> HIDE DEF known
  <2>1. LET c == Persisted(known, r.answer.investigation)
        IN SameShell(known, c) /\ c.view = known.view /\ c.requests = known.requests
    BY <1>1, PersistedIs DEF SameShell
  <2>2. GoesOn(b, Persisted(known, r.answer.investigation), told)
    BY <1>1, <2>1 DEF GoesOn, SameShell
  <2>3. ReceivesRun(b, r) = IF r.answer.investigation = None THEN b
                            ELSE Persisted(known, r.answer.investigation)
    BY <1>2 DEF ReceivesRun, known
  <2>. QED
    BY <2>2, <2>3, StaysAsItIs
<1>3. CASE r.answer.status = 200 /\ r.answer.turns[r.answer.run] = "ended"
  <2>1. /\ SameShell(known, read) /\ read.requests = known.requests
        /\ read.view.readers = known.view.readers \union {r.answer.user}
    <3> HIDE DEF known
    <3>. QED
      BY <1>1 DEF IsPage, SameShell, PageFields, ViewFields
  <2>2. /\ SameShell(read, terminal) /\ terminal.view.readers = read.view.readers
        /\ terminal.requests = read.requests
    <3> HIDE DEF read
    <3>. QED
      BY <2>1, WithTurnIs DEF SameShell
  <2>3. /\ SameShell(terminal, persisted) /\ persisted.view = terminal.view
        /\ persisted.requests = terminal.requests
    <3> HIDE DEF terminal
    <3>. QED
      BY <2>2, PersistedIs DEF SameShell
  <2>4. ReceivesRun(b, r) = Requested(persisted, Request("refresh", r.answer.investigation, r.answer.run))
    BY <1>3 DEF ReceivesRun
  <2> HIDE DEF known, read, terminal, persisted
  <2>5. GoesOn(b, persisted, told)
    BY <1>1, <1>3, <2>1, <2>2, <2>3 DEF GoesOn, SameShell
  <2>6. GoesOn(persisted, ReceivesRun(b, r), told)
    <3>1. "refresh" \in DataKinds /\ IsPage(persisted)
      BY <2>5 DEF DataKinds, Reloads, GoesOn
    <3>. QED
      BY <2>4, <3>1, AsksForMore
  <2>. QED
    BY <2>5, <2>6, GoesOnAndOn
<1>4. CASE r.answer.status = 200 /\ r.answer.turns[r.answer.run] # "ended"
  <2>1. ReceivesRun(b, r) = Requested(known, Request("reloadOfRun", r.answer.investigation, None))
    BY <1>4 DEF ReceivesRun
  <2> HIDE DEF known
  <2>2. GoesOn(b, known, told)
    BY <1>1 DEF GoesOn, SameShell
  <2>3. GoesOn(known, ReceivesRun(b, r), told)
    <3>1. "reloadOfRun" \in DataKinds /\ IsPage(known)
      BY <2>2 DEF DataKinds, Reloads, GoesOn
    <3>. QED
      BY <2>1, <3>1, AsksForMore
  <2>. QED
    BY <2>2, <2>3, GoesOnAndOn
<1>. QED
  BY <1>2, <1>3, <1>4

(* A page without a request it had.                                        *)
Without(b, r) == [b EXCEPT !.requests = @ \ {r}]

LEMMA WithoutIs ==
  ASSUME NEW b, IsPage(b), NEW r
  PROVE  LET c == Without(b, r)
         IN SameShell(b, c) /\ c.view = b.view /\ c.requests = b.requests \ {r}
BY DEF Without, IsPage, SameShell, PageFields

(* A request that is not of the present user any more is forgotten.        *)
LEMMA ForgetsKeeps ==
  ASSUME IInv, NEW t \in Tabs, NEW r \in tab[t].requests, ~ r.current,
         tab' = [tab EXCEPT ![t] = Without(tab[t], r)],
         UNCHANGED <<channel, mutations, sessionVars>>
  PROVE  IInv'
<1> DEFINE b == Without(tab[t], r)
<1>0. PageOK(tab[t], mutations, sessions) /\ SessionsOK
  BY DEF IInv
<1>1. SameShell(tab[t], b) /\ b.view = tab[t].view /\ b.requests = tab[t].requests \ {r}
  BY <1>0, WithoutIs DEF PageOK
<1> HIDE DEF b
<1>2. Current(b) = Current(tab[t]) /\ OwnChanges(b) = OwnChanges(tab[t])
  BY <1>1 DEF Current, OwnChanges
<1>3. PageOK(b, mutations, sessions)
  BY <1>0, <1>1, <1>2 DEF PageOK, SameShell
<1>4. Truth(tab[t], cookie, Resolve(cookie)) => Truth(b, cookie, Resolve(cookie))
  BY <1>1, <1>2 DEF Truth, SameShell
<1>5. Resolve(cookie)' = Resolve(cookie) /\ UNCHANGED <<mutations, cookie>> /\ sessions' = sessions
  BY DEF sessionVars, Resolve, Live
<1>6. RegistryMoves(sessions, sessions') /\ PageOK(b, mutations, sessions')
  BY <1>0, <1>3, <1>5, NothingMoves
<1>7. DOMAIN channel' = Tabs /\ \A u \in Tabs : channel'[u] = channel[u]
  BY DEF IInv
<1>. QED
  BY <1>1, <1>2, <1>4, <1>5, <1>6, <1>7, PageGoesOn DEF SameShell, b

(* Becomes, of a page that ends no change.                                 *)
LEMMA BecomesQuietly ==
  ASSUME IInv, NEW t \in Tabs, NEW b, Becomes(t, b), OwnChanges(tab[t]) = {}
  PROVE  /\ tab' = [tab EXCEPT ![t] = b]
         /\ DOMAIN channel' = Tabs /\ \A u \in Tabs : channel'[u] = channel[u]
BY DEF Becomes, Notified, Settled

(* A page that becomes one that knows nobody.                              *)
LEMMA BecomesNobody ==
  ASSUME IInv, NEW t \in Tabs, NEW b, Becomes(t, b), OwnChanges(tab[t]) = {},
         UNCHANGED <<mutations, sessionVars>>,
         IsPage(b), b.page = tab[t].page, b.user = None, b.urls = {},
         b.view.readers = {}, b.view.turns = NoTurns,
         b.pending = tab[t].pending, b.completed = tab[t].completed,
         Current(b) = {}, \A r \in b.requests : IsRequest(r, mutations, sessions)
  PROVE  IInv'
<1>1. /\ tab' = [tab EXCEPT ![t] = b]
      /\ DOMAIN channel' = Tabs /\ \A u \in Tabs : channel'[u] = channel[u]
  BY BecomesQuietly
<1>2. OwnChanges(b) = {}
  BY DEF OwnChanges, Current
<1>3. PageOK(b, mutations, sessions)
  BY <1>2 DEF PageOK, IInv
<1>4. Truth(b, cookie, Resolve(cookie)')
  BY DEF Truth
<1>5. RegistryMoves(sessions, sessions') /\ PageOK(b, mutations, sessions')
      /\ UNCHANGED <<mutations, cookie>>
  BY <1>3, NothingMoves DEF sessionVars, IInv
<1>. QED
  BY <1>1, <1>2, <1>4, <1>5, PageGoesOn

(* An answer about data, which came for the user of the page.              *)
LEMMA ReceivesDataKeeps ==
  ASSUME IInv, NEW t \in Tabs, NEW r \in tab[t].requests, r.current,
         r.kind \in DataKinds, NEW answered, answered.kind = r.kind,
         answered.answer.status = 200 => r.answer # None /\ answered.answer = r.answer,
         ReceivesData(t, Without(tab[t], r), answered),
         UNCHANGED sessionVars
  PROVE  IInv'
<1> DEFINE b == Without(tab[t], r)
           told == IF answered.answer.status = 200 THEN {answered.answer.user} ELSE {}
<1>0. PageOK(tab[t], mutations, sessions) /\ SessionsOK
  BY DEF IInv
<1>1. SameShell(tab[t], b) /\ b.view = tab[t].view /\ b.requests = tab[t].requests \ {r}
  BY <1>0, WithoutIs DEF PageOK
<1>2. r \in Current(tab[t]) /\ tab[t].user # None
  BY <1>0 DEF PageOK, Current
<1>3. \A q \in Current(tab[t]) : q.kind \in DataKinds
  BY <1>0, <1>2 DEF PageOK
<1>4. OwnChanges(tab[t]) = {}
  BY <1>3, Kinds DEF OwnChanges, Current
<1>5. IsPage(b) /\ \A q \in b.requests : IsRequest(q, mutations, sessions)
  BY <1>0, <1>1 DEF PageOK, SameShell
<1>6. ASSUME NEW c, Becomes(t, c), GoesOn(b, c, told), UNCHANGED mutations
      PROVE  IInv'
  <2>1. /\ tab' = [tab EXCEPT ![t] = c]
        /\ DOMAIN channel' = Tabs /\ \A u \in Tabs : channel'[u] = channel[u]
    BY <1>4, <1>6, BecomesQuietly
  <2>2. ASSUME NEW q \in c.requests
        PROVE  /\ IsRequest(q, mutations, sessions)
               /\ q.current => q \in Current(tab[t]) \/ IsNew(q)
    <3>1. CASE IsNew(q)
      BY <3>1, Kinds DEF IsNew, IsRequest
    <3>2. CASE q \in b.requests
      BY <1>1, <1>5, <3>2 DEF Current
    <3>. QED
      BY <1>6, <3>1, <3>2 DEF GoesOn
  <2>3. \A q \in Current(c) : q.kind \in DataKinds
    BY <1>3, <2>2 DEF Current, IsNew
  <2>4. OwnChanges(c) = {}
    BY <2>3, Kinds DEF OwnChanges, Current
  <2>5. PageOK(c, mutations, sessions)
    BY <1>0, <1>1, <1>2, <1>6, <2>2, <2>3, <2>4 DEF PageOK, GoesOn, SameShell
  <2>6. ASSUME Truth(tab[t], cookie, Resolve(cookie))
        PROVE  Truth(c, cookie, Resolve(cookie))
    <3>1. told \subseteq {tab[t].user}
      BY <1>2, <2>6 DEF Truth
    <3>2. c.view.readers \union c.urls \subseteq {c.user}
      BY <1>1, <1>6, <2>6, <3>1 DEF Truth, GoesOn, SameShell
    <3>3. c.user = tab[t].user
      BY <1>1, <1>6 DEF GoesOn, SameShell
    <3>4. ASSUME NEW q \in Current(c)
          PROVE  /\ q.token = cookie
                 /\ q.answer # None /\ q.answer.status = 200 => q.answer.user = c.user
      <4>1. CASE IsNew(q)
        BY <4>1 DEF IsNew
      <4>2. CASE q \in Current(tab[t])
        BY <1>3, <2>6, <3>3, <4>2 DEF Truth
      <4>. QED
        BY <2>2, <4>1, <4>2 DEF Current
    <3>5. \A q \in Current(c) : q.kind \notin Questions
      BY <2>3, Kinds
    <3>. QED
      BY <2>6, <3>2, <3>3, <3>4, <3>5 DEF Truth
  <2>7. Resolve(cookie)' = Resolve(cookie) /\ UNCHANGED <<mutations, cookie>> /\ sessions' = sessions
    BY <1>6 DEF sessionVars, Resolve, Live
  <2>8. RegistryMoves(sessions, sessions') /\ PageOK(c, mutations, sessions')
    BY <1>0, <2>5, <2>7, NothingMoves
  <2>9. c.page = tab[t].page /\ c.pending = tab[t].pending /\ c.completed = tab[t].completed
    BY <1>1, <1>6 DEF GoesOn, SameShell
  <2>. QED
    BY <1>4, <2>1, <2>4, <2>6, <2>7, <2>8, <2>9, PageGoesOn
<1>7. CASE answered.answer.status = 401
  <2> DEFINE c == Invalidated(b, "authentication")
  <2>0. UNCHANGED mutations /\ Becomes(t, c)
    BY <1>7 DEF ReceivesData
  <2>1. /\ IsPage(c) /\ c.page = b.page /\ c.user = None /\ c.urls = {}
        /\ c.view.turns = NoTurns /\ c.view.readers = {}
        /\ c.requests = Aborted(b.requests)
        /\ c.pending = b.pending \ OwnChanges(b)
        /\ c.completed = b.completed \union OwnChanges(b)
    BY <1>5, InvalidatedIs
  <2>2. OwnChanges(b) = {}
    BY <1>1, <1>4 DEF OwnChanges
  <2>3. ASSUME NEW q \in c.requests
        PROVE  q.current = FALSE /\ IsRequest(q, mutations, sessions)
    <3>1. q \in Aborted(b.requests)
      BY <2>1
    <3>. QED
      BY <1>5, <3>1, AbortedIs
  <2> HIDE DEF c
  <2>4. Current(c) = {}
    BY <2>3 DEF Current
  <2>. QED
    BY <1>1, <1>4, <2>0, <2>1, <2>2, <2>3, <2>4, BecomesNobody DEF SameShell
<1>8. CASE answered.answer.status # 401
  <2>1. \E c : Becomes(t, c) /\ GoesOn(b, c, told)
    <3> HIDE DEF b
    <3>1. CASE r.kind = "create"
      <4>1. Becomes(t, ReceivesRun(b, answered))
        BY <1>8, <3>1 DEF ReceivesData, Reloads, b
      <4>. QED
        BY <1>5, <4>1, RunGoesOn
    <3>2. CASE r.kind = "resume"
      <4>1. Becomes(t, ReceivesDecision(b, answered))
        BY <1>8, <3>2 DEF ReceivesData, Reloads, b
      <4>. QED
        BY <1>5, <4>1, DecisionGoesOn
    <3>3. CASE r.kind = "document" /\ answered.answer.status = 200
      <4> DEFINE c == [b EXCEPT !.urls = @ \union {answered.answer.user}]
      <4>1. Becomes(t, c)
        BY <1>8, <3>3 DEF ReceivesData, Reloads, b
      <4>2. GoesOn(b, c, told)
        BY <1>5, <3>3 DEF GoesOn, IsPage, PageFields
      <4>. QED
        BY <4>1, <4>2
    <3>4. CASE r.kind = "document" /\ answered.answer.status # 200
      <4>1. Becomes(t, b)
        BY <1>8, <3>4 DEF ReceivesData, Reloads, b
      <4>. QED
        BY <1>5, <4>1, StaysAsItIs
    <3>5. CASE r.kind \in Reloads
      <4>1. Becomes(t, ReceivesInvestigation(b, answered))
        BY <1>8, <3>5 DEF ReceivesData, Reloads, b
      <4>. QED
        BY <1>5, <4>1, InvestigationGoesOn
    <3>. QED
      BY <3>1, <3>2, <3>3, <3>4, <3>5 DEF DataKinds
  <2>2. UNCHANGED mutations
    BY DEF ReceivesData
  <2>. QED
    BY <1>6, <2>1, <2>2
<1>. QED
  BY <1>7, <1>8
-----------------------------------------------------------------------------
(* A change of user.                                                       *)

(* b is a page that has none under way, of the moment before it begins.    *)
LEMMA TransitionKeeps ==
  ASSUME IInv, NEW t \in Tabs, NEW b, PageOK(b, mutations, sessions), b.page = "open",
         b.completed = tab[t].completed,
         OwnChanges(tab[t]) = {}, OwnChanges(b) = {},
         NEW kind \in Changes, NEW user, kind = "switch" => user \in Users,
         tab' = [tab EXCEPT ![t] = Transitioned(b, kind, user)],
         channel' = Notified(t, {Message(mutations + 1, "pending")}),
         mutations' = mutations + 1, UNCHANGED sessionVars,
         tab[t].page = "open"
  PROVE  IInv'
<1> DEFINE id == mutations + 1
           purged == Invalidated(b, "identity")
           marked == [purged EXCEPT !.pending = @ \union {id}]
           r == AuthRequest(kind, user, id)
           c == Requested(marked, r)
<1>0. mutations \in Nat /\ SessionsOK
  BY DEF IInv
<1>1. /\ IsPage(purged) /\ purged.page = "open" /\ purged.user = None /\ purged.urls = {}
      /\ purged.view.turns = NoTurns /\ purged.view.readers = {}
      /\ Current(purged) = {}
      /\ \A q \in purged.requests : IsRequest(q, mutations, sessions)
      /\ purged.completed = tab[t].completed
  <2>1. IsPurged(b, purged, mutations, sessions)
    BY InvalidatedIsQuiet
  <2> HIDE DEF purged
  <2>. QED
    BY <2>1 DEF IsPurged
<1>2. /\ IsPage(marked) /\ marked.page = "open" /\ marked.user = None /\ marked.urls = {}
      /\ marked.view = purged.view /\ marked.requests = purged.requests
      /\ marked.completed = tab[t].completed /\ id \in marked.pending
  <2> HIDE DEF purged
  <2>. QED
    BY <1>1 DEF IsPage, PageFields
<1>3. SameShell(marked, c) /\ c.view = marked.view /\ c.requests = marked.requests \union {r}
  <2> HIDE DEF marked
  <2>. QED
    BY <1>2, RequestedIs
<1>4. /\ DOMAIN r = RequestFields /\ r.kind = kind /\ r.run = id /\ r.user = user
      /\ r.current = TRUE /\ r.answer = None
  BY DEF AuthRequest, Request, RequestFields
<1>5. Transitioned(b, kind, user) = c
  BY DEF Transitioned
<1> HIDE DEF purged, marked, r, c
<1>6. mutations' = id /\ id \in Nat /\ mutations <= id /\ mutations < id
  BY <1>0
<1>7. IsRequest(r, id, sessions)
  <2>1. id \in 1 .. id
    BY <1>0
  <2>. QED
    BY <1>4, <2>1 DEF IsRequest
<1>8. \A q \in c.requests : IsRequest(q, id, sessions)
  BY <1>0, <1>1, <1>2, <1>3, <1>6, <1>7, NothingMoves, RequestStays
<1>9. Current(c) = {r} /\ OwnChanges(c) = {id}
  BY <1>1, <1>2, <1>3, <1>4 DEF Current, OwnChanges
<1>10. c.completed \subseteq 1 .. id /\ id \notin c.completed
  <2>1. tab[t].completed \subseteq 1 .. mutations
    BY DEF IInv, PageOK
  <2>. QED
    BY <1>0, <1>2, <1>3, <1>6, <2>1 DEF SameShell
<1>11. PageOK(c, id, sessions)
  BY <1>1, <1>2, <1>3, <1>4, <1>8, <1>9, <1>10, Kinds DEF PageOK, SameShell
<1>12. /\ RegistryMoves(sessions, sessions') /\ PageOK(c, mutations', sessions')
       /\ cookie' = cookie /\ IsDrawn(cookie', sessions')
       /\ mutations' \in Nat /\ mutations <= mutations'
  BY <1>0, <1>6, <1>11, NothingMoves DEF sessionVars, SessionsOK
<1>13. /\ DOMAIN channel' = Tabs
       /\ \A u \in Tabs : \A m \in channel'[u] :
            \/ m \in channel[u]
            \/ m = Message(mutations', "pending") /\ mutations < mutations'
            \/ \E i \in OwnChanges(tab[t]) \ OwnChanges(c) : m = Message(i, "settled")
       /\ \A u \in Tabs : u # t => channel[u] \subseteq channel'[u]
       /\ \A u \in Tabs : u # t /\ tab[u].page # "open" => channel'[u] = channel[u]
  BY <1>6 DEF Notified
<1>14. /\ \A i \in OwnChanges(c) : i \in OwnChanges(tab[t]) \/ (i = mutations' /\ mutations < mutations')
       /\ \A i \in OwnChanges(c) : i \notin c.completed
       /\ \A i \in c.completed \ tab[t].completed :
            i \notin OwnChanges(c) /\ \A u \in Tabs : u # t => i \notin OwnChanges(tab[u])
       /\ \A u \in Tabs, i \in OwnChanges(tab[t]) \ OwnChanges(c) :
            u # t /\ tab[u].page = "open" => Message(i, "settled") \in channel'[u]
  BY <1>2, <1>3, <1>6, <1>9, <1>10 DEF SameShell
<1>15. c.page = "open"
  BY <1>2, <1>3 DEF SameShell
<1>16. tab' = [tab EXCEPT ![t] = c] /\ OwnChanges(c) # {}
  BY <1>5, <1>9
<1>. QED
  BY <1>12, <1>13, <1>14, <1>15, <1>16, PageMoves

LEMMA ChangesUserKeeps ==
  ASSUME IInv, NEW t \in Tabs, ChangesUser(t)
  PROVE  IInv'
<1>1. PageOK(tab[t], mutations, sessions) /\ tab[t].page = "open"
  BY DEF IInv, ChangesUser, IsOpen
<1>2. OwnChanges(tab[t]) = {}
  BY <1>1 DEF ChangesUser, PageOK
<1>3. /\ channel' = Notified(t, {Message(mutations + 1, "pending")})
      /\ mutations' = mutations + 1 /\ UNCHANGED sessionVars
  BY DEF ChangesUser
<1>4. CASE \E u \in Users \ {tab[t].user} : tab' = [tab EXCEPT ![t] = Transitioned(@, "switch", u)]
  <2>1. PICK u \in Users : tab' = [tab EXCEPT ![t] = Transitioned(tab[t], "switch", u)]
    BY <1>4
  <2>. QED
    BY <1>1, <1>2, <1>3, <2>1, TransitionKeeps DEF Changes
<1>5. CASE tab' = [tab EXCEPT ![t] = Transitioned(@, "logout", None)]
  <2>1. tab' = [tab EXCEPT ![t] = Transitioned(tab[t], "logout", None)]
    BY <1>5
  <2>2. "logout" # "switch"
    OBVIOUS
  <2>. QED
    BY <1>1, <1>2, <1>3, <2>1, <2>2, TransitionKeeps DEF Changes
<1>. QED
  BY <1>4, <1>5 DEF ChangesUser

(* The page of a user, known or not, goes on after it asked who it is.     *)
LEMMA RestoredIs ==
  ASSUME NEW b, IsPage(b)
  PROVE  LET c == Restored(b)
         IN /\ GoesOn(b, c, {})
            /\ b.user = None => c.view.turns = NoTurns /\ c.requests = b.requests
<1>1. CASE b.user = None \/ b.stored.user # b.user \/ b.stored.investigation = None
  <2>1. Restored(b) = Emptied(b)
    BY <1>1 DEF Restored
  <2>2. GoesOn(b, Emptied(b), {})
    BY EmptiedIs, ShowsMore
  <2>. QED
    BY <2>1, <2>2, EmptiedIs
<1>2. CASE ~ (b.user = None \/ b.stored.user # b.user \/ b.stored.investigation = None)
  <2> DEFINE c == [b EXCEPT !.view.investigation = b.stored.investigation]
             d == Requested(c, Request("restore", b.stored.investigation, None))
  <2>1. SameShell(b, c) /\ c.view.readers = b.view.readers /\ c.requests = b.requests
    BY DEF IsPage, SameShell, PageFields, ViewFields
  <2>2. GoesOn(b, c, {}) /\ IsPage(c)
    <3> HIDE DEF c
    <3>. QED
      BY <2>1, ShowsMore DEF SameShell
  <2>3. GoesOn(c, d, {})
    <3>1. "restore" \in DataKinds
      BY DEF DataKinds, Reloads
    <3> HIDE DEF c
    <3>. QED
      BY <2>2, <3>1, AsksForMore
  <2>4. Restored(b) = d
    BY <1>2 DEF Restored
  <2> HIDE DEF c, d
  <2>5. GoesOn(b, d, {})
    BY <2>2, <2>3, GoesOnAndOn
  <2>. QED
    BY <1>2, <2>4, <2>5
<1>. QED
  BY <1>1, <1>2

LEMMA LearnsUserKeeps ==
  ASSUME IInv, NEW t \in Tabs, NEW r \in tab[t].requests, r.current,
         r.kind \in Questions, NEW answered, answered.kind = r.kind,
         answered.answer.status = 200 => r.answer # None /\ answered.answer = r.answer,
         LearnsUser(t, Without(tab[t], r), answered),
         UNCHANGED sessionVars
  PROVE  IInv'
<1> DEFINE b == Without(tab[t], r)
           user == IF answered.answer.status = 200 /\ b.pending = {}
                   THEN answered.answer.user ELSE None
           named == [b EXCEPT !.user = user]
           c == IF answered.kind = "meOnLoad" THEN Restored(named) ELSE named
<1>0. PageOK(tab[t], mutations, sessions) /\ SessionsOK
  BY DEF IInv
<1>1. SameShell(tab[t], b) /\ b.view = tab[t].view /\ b.requests = tab[t].requests \ {r}
  BY <1>0, WithoutIs DEF PageOK
<1>2. r \in Current(tab[t]) /\ r.kind \notin DataKinds /\ r.kind \notin Changes
  BY Kinds DEF Current
<1>3. tab[t].user = None /\ Current(tab[t]) = {r} /\ tab[t].page = "open"
  BY <1>0, <1>2 DEF PageOK
<1>4. /\ OwnChanges(tab[t]) = {} /\ Current(b) = {} /\ OwnChanges(b) = {}
  BY <1>1, <1>2, <1>3 DEF OwnChanges, Current
<1>5. /\ tab[t].view.readers = {} /\ tab[t].urls = {} /\ tab[t].view.turns = NoTurns
  BY <1>0, <1>3 DEF PageOK
<1>6. PageOK(b, mutations, sessions)
  BY <1>0, <1>1, <1>3, <1>4, <1>5 DEF PageOK, SameShell
<1>7. CASE answered.answer.status = 401 /\ r.kind = "meOnLoad" /\ b.pending = {}
  <2>1. /\ tab' = [tab EXCEPT ![t] = Transitioned(b, "bootstrap", None)]
        /\ channel' = Notified(t, {Message(mutations + 1, "pending")})
        /\ mutations' = mutations + 1
    BY <1>7 DEF LearnsUser
  <2>2. b.page = "open" /\ b.completed = tab[t].completed /\ "bootstrap" \in Changes
    BY <1>1, <1>3 DEF SameShell, Changes
  <2> HIDE DEF b
  <2>. QED
    BY <1>3, <1>4, <1>6, <2>1, <2>2, TransitionKeeps
<1>8. CASE ~ (answered.answer.status = 401 /\ r.kind = "meOnLoad" /\ b.pending = {})
  <2>1. Becomes(t, c) /\ UNCHANGED mutations
    BY <1>8 DEF LearnsUser
  <2> HIDE DEF b
  <2>2. /\ IsPage(named) /\ named.page = "open" /\ named.user = user
        /\ named.pending = tab[t].pending /\ named.completed = tab[t].completed
        /\ named.urls = {} /\ named.view.readers = {} /\ named.view.turns = NoTurns
        /\ named.requests = b.requests
    BY <1>1, <1>3, <1>5 DEF SameShell, IsPage, PageFields
  <2> HIDE DEF named, user
  <2>3. /\ GoesOn(named, c, {})
        /\ named.user = None => c.view.turns = NoTurns /\ c.requests = named.requests
    BY <2>2, RestoredIs, StaysAsItIs
  <2> HIDE DEF c
  <2>4. /\ tab' = [tab EXCEPT ![t] = c]
        /\ DOMAIN channel' = Tabs /\ \A u \in Tabs : channel'[u] = channel[u]
    BY <1>4, <2>1, BecomesQuietly
  <2>5. ASSUME NEW q \in c.requests
        PROVE  /\ IsRequest(q, mutations, sessions)
               /\ q.current => IsNew(q) /\ user # None
    <3>1. CASE q \in b.requests
      BY <1>4, <1>6, <3>1 DEF PageOK, Current
    <3>2. CASE q \notin b.requests
      BY <2>2, <2>3, <3>2, Kinds DEF GoesOn, IsNew, IsRequest
    <3>. QED
      BY <3>1, <3>2
  <2>6. \A q \in Current(c) : q.kind \in DataKinds /\ IsNew(q) /\ user # None
    BY <2>5 DEF Current, IsNew
  <2>7. OwnChanges(c) = {}
    BY <2>6, Kinds DEF OwnChanges, Current
  <2>8. PageOK(c, mutations, sessions)
    <3>1. c.page = "open" /\ c.user = user /\ c.completed = tab[t].completed
      BY <2>2, <2>3 DEF GoesOn
    <3>2. c.urls = {} /\ c.view.readers = {}
      BY <2>2, <2>3 DEF GoesOn
    <3>. QED
      BY <1>0, <2>2, <2>3, <2>5, <2>6, <2>7, <3>1, <3>2 DEF PageOK, GoesOn
  <2>9. ASSUME Truth(tab[t], cookie, Resolve(cookie))
        PROVE  Truth(c, cookie, Resolve(cookie))
    <3>1. user # None => Resolve(cookie) \in {user, None}
      BY <1>2, <2>9 DEF Truth, user
    <3>2. c.user = user /\ c.urls = {} /\ c.view.readers = {}
      BY <2>2, <2>3 DEF GoesOn
    <3>. QED
      BY <2>6, <3>1, <3>2 DEF Truth, IsNew
  <2>10. Resolve(cookie)' = Resolve(cookie) /\ UNCHANGED <<mutations, cookie>> /\ sessions' = sessions
    BY <2>1 DEF sessionVars, Resolve, Live
  <2>11. RegistryMoves(sessions, sessions') /\ PageOK(c, mutations, sessions')
    BY <1>0, <2>8, <2>10, NothingMoves
  <2>12. c.page = tab[t].page /\ c.pending = tab[t].pending /\ c.completed = tab[t].completed
    BY <1>3, <2>2, <2>3 DEF GoesOn
  <2>. QED
    BY <1>4, <2>4, <2>7, <2>9, <2>10, <2>11, <2>12, PageGoesOn
<1>. QED
  BY <1>7, <1>8

(* A page that knows nobody asks who it is, with the cookie of the browser,*)
(* or asks nothing: it shows nothing but the truth.                        *)
LEMMA NobodyIsTrue ==
  ASSUME NEW b, NEW last \in Nat, NEW registry, IsPage(b), b.page = "open", b.user = None,
         b.view.turns = NoTurns, b.view.readers = {}, b.urls = {},
         Current(b) = {}, \A r \in b.requests : IsRequest(r, last, registry),
         b.completed \subseteq 1 .. last,
         NEW c, NEW kind \in Questions, c \in {b, Initialized(b, kind)}
  PROVE  /\ PageOK(c, last, registry) /\ OwnChanges(c) = {}
         /\ c.page = "open" /\ c.pending = b.pending /\ c.completed = b.completed
         /\ Truth(c, cookie, Resolve(cookie))
<1> DEFINE r == Request(kind, None, None)
<1>1. Asks(b, c) /\ c.requests \in {b.requests, b.requests \union {r}}
  BY InitializedIs DEF Asks
<1>2. /\ DOMAIN r = RequestFields /\ r.kind = kind
      /\ r.token = cookie /\ r.current = TRUE /\ r.answer = None
  BY DEF Request, RequestFields
<1>3. kind \notin DataKinds /\ kind \notin Changes
  BY Kinds
<1>4. kind # "switch"
  BY DEF Questions
<1> HIDE DEF r
<1>5. Current(c) \subseteq {r} /\ \A q \in c.requests : q \in b.requests \/ q = r
  BY <1>1, <1>2 DEF Current
<1>6. OwnChanges(c) = {}
  BY <1>2, <1>3, <1>5 DEF OwnChanges, Current
<1>7. IsRequest(r, last, registry)
  BY <1>2, <1>3, <1>4 DEF IsRequest
<1>8. PageOK(c, last, registry)
  BY <1>1, <1>2, <1>3, <1>5, <1>6, <1>7 DEF PageOK, Asks
<1>9. Truth(c, cookie, Resolve(cookie))
  BY <1>1, <1>2, <1>5 DEF Truth, Asks
<1>. QED
  BY <1>1, <1>6, <1>8, <1>9 DEF Asks

LEMMA EndsChangeKeeps ==
  ASSUME IInv, NEW t \in Tabs, NEW r \in tab[t].requests, r.current,
         r.kind \in Changes, NEW answered, answered.run = r.run,
         EndsChange(t, Without(tab[t], r), answered),
         UNCHANGED sessionVars
  PROVE  IInv'
<1> DEFINE b == Without(tab[t], r)
           finished == Finished(b, {r.run})
           ended == [finished EXCEPT !.user = None]
<1>0. PageOK(tab[t], mutations, sessions) /\ SessionsOK /\ mutations \in Nat
  BY DEF IInv
<1>1. SameShell(tab[t], b) /\ b.view = tab[t].view /\ b.requests = tab[t].requests \ {r}
  BY <1>0, WithoutIs DEF PageOK
<1>2. r \in Current(tab[t]) /\ r.kind \notin DataKinds
  BY Kinds DEF Current
<1>3. tab[t].user = None /\ Current(tab[t]) = {r} /\ tab[t].page = "open"
  BY <1>0, <1>2 DEF PageOK
<1>4. /\ OwnChanges(tab[t]) = {r.run} /\ Current(b) = {}
  BY <1>1, <1>2, <1>3 DEF OwnChanges, Current
<1>5. /\ tab[t].view.readers = {} /\ tab[t].urls = {} /\ tab[t].view.turns = NoTurns
      /\ r.run \in 1 .. mutations
  BY <1>0, <1>3 DEF PageOK, IsRequest
<1>6. /\ IsPage(ended) /\ ended.page = "open" /\ ended.user = None
      /\ ended.view = tab[t].view /\ ended.urls = {} /\ ended.requests = b.requests
      /\ ended.completed = tab[t].completed \union {r.run}
  <2> HIDE DEF b
  <2>1. /\ IsPage(finished) /\ finished.page = "open"
        /\ finished.view = tab[t].view /\ finished.urls = {} /\ finished.requests = b.requests
        /\ finished.completed = tab[t].completed \union {r.run}
    BY <1>1, <1>3, <1>5 DEF Finished, SameShell, IsPage, PageFields
  <2> HIDE DEF finished
  <2>. QED
    BY <2>1 DEF IsPage, PageFields
<1>7. PICK c \in {ended, Initialized(ended, "me")} :
         /\ tab' = [tab EXCEPT ![t] = c]
         /\ channel' = Notified(t, Settled({r.run}))
         /\ mutations' = mutations
  BY DEF EndsChange, SettledBy
<1>8. /\ \A q \in ended.requests : IsRequest(q, mutations, sessions)
      /\ ended.completed \subseteq 1 .. mutations
      /\ Current(ended) = {}
  BY <1>0, <1>1, <1>4, <1>5, <1>6 DEF PageOK, Current
<1> HIDE DEF b, ended
<1>9. /\ PageOK(c, mutations, sessions) /\ OwnChanges(c) = {}
      /\ c.page = "open" /\ c.completed = ended.completed
      /\ Truth(c, cookie, Resolve(cookie))
  <2>1. "me" \in Questions
    BY DEF Questions
  <2>. QED
    BY <1>0, <1>5, <1>6, <1>7, <1>8, <2>1, NobodyIsTrue
<1>10. /\ RegistryMoves(sessions, sessions') /\ PageOK(c, mutations', sessions')
       /\ cookie' = cookie /\ IsDrawn(cookie', sessions')
       /\ mutations' \in Nat /\ mutations <= mutations'
       /\ Truth(c, cookie', Resolve(cookie)')
  BY <1>0, <1>7, <1>9, NothingMoves DEF sessionVars, SessionsOK, Resolve, Live
<1>11. /\ DOMAIN channel' = Tabs
       /\ \A u \in Tabs : \A m \in channel'[u] :
            \/ m \in channel[u]
            \/ m = Message(mutations', "pending") /\ mutations < mutations'
            \/ \E i \in OwnChanges(tab[t]) \ OwnChanges(c) : m = Message(i, "settled")
       /\ \A u \in Tabs : u # t => channel[u] \subseteq channel'[u]
       /\ \A u \in Tabs : u # t /\ tab[u].page # "open" => channel'[u] = channel[u]
       /\ \A u \in Tabs, i \in OwnChanges(tab[t]) \ OwnChanges(c) :
            u # t /\ tab[u].page = "open" => Message(i, "settled") \in channel'[u]
  BY <1>4, <1>7, <1>9 DEF Notified, Settled
<1>12. /\ \A i \in OwnChanges(c) : i \in OwnChanges(tab[t]) \/ (i = mutations' /\ mutations < mutations')
       /\ \A i \in OwnChanges(c) : i \notin c.completed
       /\ \A i \in c.completed \ tab[t].completed :
            i \notin OwnChanges(c) /\ \A u \in Tabs : u # t => i \notin OwnChanges(tab[u])
  BY <1>4, <1>6, <1>9 DEF IInv, ChangesOK
<1>13. /\ tab' = [tab EXCEPT ![t] = c]
       /\ cookie' = cookie \/ OwnChanges(c) # {}
       /\ c.page # "open" => channel'[t] = {}
       /\ c.page = "open" => Disturbed(t)' \/ OwnChanges(c) # {} \/ Truth(c, cookie', Resolve(cookie)')
  BY <1>7, <1>9, <1>10
<1>. QED
  BY <1>10, <1>11, <1>12, <1>13, PageMoves

LEMMA HandlesKeeps ==
  ASSUME IInv, NEW t \in Tabs, NEW r \in tab[t].requests, NEW answer,
         answer.status = 200 => r.answer # None /\ answer = r.answer,
         Handles(t, r, answer)
  PROVE  IInv'
<1> DEFINE answered == [r EXCEPT !.answer = answer]
<1>1. IsRequest(r, mutations, sessions)
  BY DEF IInv, PageOK
<1>2. answered.kind = r.kind /\ answered.run = r.run /\ answered.answer = answer
  BY <1>1 DEF IsRequest, RequestFields
<1>3. UNCHANGED sessionVars
  BY DEF Handles
<1>4. CASE ~ r.current
  <2>1. tab' = [tab EXCEPT ![t] = Without(tab[t], r)] /\ UNCHANGED <<channel, mutations>>
    BY <1>4 DEF Handles, IsCurrentSecurityContext, Without
  <2>. QED
    BY <1>3, <1>4, <2>1, ForgetsKeeps
<1>5. CASE r.current /\ r.kind \in Questions
  <2>1. LearnsUser(t, Without(tab[t], r), answered)
    BY <1>5, Kinds DEF Handles, IsCurrentSecurityContext, Without, Questions
  <2> HIDE DEF answered
  <2>. QED
    BY <1>2, <1>3, <1>5, <2>1, LearnsUserKeeps
<1>6. CASE r.current /\ r.kind \in Changes
  <2>1. EndsChange(t, Without(tab[t], r), answered)
    BY <1>6, Kinds DEF Handles, IsCurrentSecurityContext, Without, Questions
  <2> HIDE DEF answered
  <2>. QED
    BY <1>2, <1>3, <1>6, <2>1, EndsChangeKeeps
<1>7. CASE r.current /\ r.kind \in DataKinds
  <2>1. r.kind \notin Questions /\ r.kind \notin Changes
    BY <1>7, Kinds
  <2>2. ReceivesData(t, Without(tab[t], r), answered)
    BY <1>7, <2>1 DEF Handles, IsCurrentSecurityContext, Without, Questions
  <2> HIDE DEF answered
  <2>. QED
    BY <1>2, <1>3, <1>7, <2>2, ReceivesDataKeeps
<1>. QED
  BY <1>1, <1>4, <1>5, <1>6, <1>7 DEF IsRequest

LEMMA ReceivesKeeps ==
  ASSUME IInv, NEW t \in Tabs, NEW r \in tab[t].requests,
         Receives(t, r) \/ LosesRequest(t, r)
  PROVE  IInv'
<1>1. Answer(0, None, NoTurns).status = 0
  BY DEF Answer
<1>. QED
  BY <1>1, HandlesKeeps DEF Receives, LosesRequest
-----------------------------------------------------------------------------
(* What happens to a page.                                                 *)

LEMMA OpensKeeps ==
  ASSUME IInv, NEW t \in Tabs, NEW persisted \in BOOLEAN, Opens(t, persisted)
  PROVE  IInv'
<1> DEFINE sent == {r \in tab[t].requests : r.answer = None}
           kept == IF persisted THEN tab[t]
                   ELSE [NewPage EXCEPT !.stored = tab[t].stored, !.requests = sent]
           b == [kept EXCEPT !.page = "open", !.pending = {}]
           c == Initialized(b, "meOnLoad")
<1>0. SessionsOK /\ mutations \in Nat /\ PageOK(tab[t], mutations, sessions)
  BY DEF IInv
<1>1. /\ tab' = [tab EXCEPT ![t] = c]
      /\ UNCHANGED <<sessionVars, channel, mutations>>
  BY DEF Opens
<1>2. tab[t].page # "open" /\ tab[t].user = None /\ Current(tab[t]) = {}
  BY <1>0 DEF Opens, IsOpen, PageOK
<1>3. tab[t].view.turns = NoTurns /\ tab[t].view.readers = {} /\ tab[t].urls = {}
  BY <1>0, <1>2 DEF PageOK
<1>4. /\ IsPage(kept) /\ kept.user = None
      /\ kept.view.turns = NoTurns /\ kept.view.readers = {} /\ kept.urls = {}
      /\ kept.requests \subseteq tab[t].requests
      /\ kept.completed \subseteq tab[t].completed
  <2>1. CASE persisted
    BY <1>0, <1>2, <1>3, <2>1 DEF PageOK
  <2>2. CASE ~ persisted
    BY <2>2 DEF IsPage, PageFields, NewPage, ViewFields, EmptyView
  <2>. QED
    BY <2>1, <2>2
<1> HIDE DEF kept
<1>5. /\ IsPage(b) /\ b.page = "open" /\ b.user = None
      /\ b.view.turns = NoTurns /\ b.view.readers = {} /\ b.urls = {}
      /\ b.requests \subseteq tab[t].requests
      /\ b.completed \subseteq tab[t].completed
  BY <1>4 DEF IsPage, PageFields
<1> HIDE DEF b
<1>6. /\ Current(b) = {}
      /\ \A r \in b.requests : IsRequest(r, mutations, sessions)
      /\ b.completed \subseteq 1 .. mutations
  BY <1>0, <1>2, <1>5 DEF PageOK, Current
<1>7. /\ PageOK(c, mutations, sessions) /\ OwnChanges(c) = {}
      /\ c.page = "open" /\ c.completed = b.completed
      /\ Truth(c, cookie, Resolve(cookie))
  <2>1. "meOnLoad" \in Questions
    BY DEF Questions
  <2>. QED
    BY <1>0, <1>5, <1>6, <2>1, NobodyIsTrue
<1> HIDE DEF c
<1>8. /\ RegistryMoves(sessions, sessions') /\ PageOK(c, mutations', sessions')
      /\ cookie' = cookie /\ IsDrawn(cookie', sessions')
      /\ mutations' \in Nat /\ mutations <= mutations'
      /\ Truth(c, cookie', Resolve(cookie)')
  BY <1>0, <1>1, <1>7, NothingMoves DEF sessionVars, SessionsOK, Resolve, Live
<1>9. OwnChanges(tab[t]) = {}
  BY <1>2 DEF OwnChanges, Current
<1>10. /\ DOMAIN channel' = Tabs
       /\ \A u \in Tabs : \A m \in channel'[u] :
            \/ m \in channel[u]
            \/ m = Message(mutations', "pending") /\ mutations < mutations'
            \/ \E i \in OwnChanges(tab[t]) \ OwnChanges(c) : m = Message(i, "settled")
       /\ \A u \in Tabs : u # t => channel[u] \subseteq channel'[u]
       /\ \A u \in Tabs : u # t /\ tab[u].page # "open" => channel'[u] = channel[u]
       /\ \A u \in Tabs, i \in OwnChanges(tab[t]) \ OwnChanges(c) :
            u # t /\ tab[u].page = "open" => Message(i, "settled") \in channel'[u]
  BY <1>1, <1>9 DEF IInv
<1>11. /\ \A i \in OwnChanges(c) : i \in OwnChanges(tab[t]) \/ (i = mutations' /\ mutations < mutations')
       /\ \A i \in OwnChanges(c) : i \notin c.completed
       /\ \A i \in c.completed \ tab[t].completed :
            i \notin OwnChanges(c) /\ \A u \in Tabs : u # t => i \notin OwnChanges(tab[u])
  BY <1>5, <1>7
<1>12. /\ cookie' = cookie \/ OwnChanges(c) # {}
       /\ c.page # "open" => channel'[t] = {}
       /\ c.page = "open" => Disturbed(t)' \/ OwnChanges(c) # {} \/ Truth(c, cookie', Resolve(cookie)')
  BY <1>7, <1>8
<1>. QED
  BY <1>1, <1>8, <1>10, <1>11, <1>12, PageMoves

LEMMA HidesKeeps ==
  ASSUME IInv, NEW t \in Tabs, Hides(t)
  PROVE  IInv'
<1> DEFINE purged == Invalidated(tab[t], "navigation")
           c == [purged EXCEPT !.page = "hidden"]
<1>0. SessionsOK /\ mutations \in Nat /\ PageOK(tab[t], mutations, sessions)
  BY DEF IInv
<1>1. /\ tab' = [tab EXCEPT ![t] = c]
      /\ channel' = [Notified(t, Settled(OwnChanges(tab[t]))) EXCEPT ![t] = {}]
      /\ UNCHANGED <<sessionVars, mutations>>
  BY DEF Hides
<1>2. IsPurged(tab[t], purged, mutations, sessions)
  BY <1>0, InvalidatedIsQuiet
<1> HIDE DEF purged
<1>3. /\ IsPage(c) /\ c.page = "hidden" /\ c.user = None /\ c.urls = {}
      /\ c.view = purged.view /\ c.requests = purged.requests
      /\ c.pending = purged.pending /\ c.completed = purged.completed
  BY <1>2 DEF IsPurged, IsPage, PageFields
<1> HIDE DEF c
<1>4. /\ Current(c) = {} /\ OwnChanges(c) = {}
      /\ \A r \in c.requests : IsRequest(r, mutations, sessions)
      /\ c.completed = tab[t].completed \union OwnChanges(tab[t])
      /\ c.view.turns = NoTurns /\ c.view.readers = {}
  BY <1>2, <1>3 DEF IsPurged, Current, OwnChanges
<1>5. OwnChanges(tab[t]) \subseteq 1 .. mutations /\ tab[t].completed \subseteq 1 .. mutations
  BY <1>0 DEF PageOK, OwnChanges, IsRequest
<1>6. PageOK(c, mutations, sessions)
  BY <1>3, <1>4, <1>5 DEF PageOK
<1>7. /\ RegistryMoves(sessions, sessions') /\ PageOK(c, mutations', sessions')
      /\ cookie' = cookie /\ IsDrawn(cookie', sessions')
      /\ mutations' \in Nat /\ mutations <= mutations'
  BY <1>0, <1>1, <1>6, NothingMoves DEF sessionVars, SessionsOK
<1>8. /\ DOMAIN channel' = Tabs
      /\ \A u \in Tabs : \A m \in channel'[u] :
            \/ m \in channel[u]
            \/ m = Message(mutations', "pending") /\ mutations < mutations'
            \/ \E i \in OwnChanges(tab[t]) \ OwnChanges(c) : m = Message(i, "settled")
      /\ \A u \in Tabs : u # t => channel[u] \subseteq channel'[u]
      /\ \A u \in Tabs : u # t /\ tab[u].page # "open" => channel'[u] = channel[u]
      /\ \A u \in Tabs, i \in OwnChanges(tab[t]) \ OwnChanges(c) :
            u # t /\ tab[u].page = "open" => Message(i, "settled") \in channel'[u]
      /\ channel'[t] = {}
  BY <1>1, <1>4 DEF Notified, Settled
<1>9. /\ \A i \in OwnChanges(c) : i \in OwnChanges(tab[t]) \/ (i = mutations' /\ mutations < mutations')
      /\ \A i \in OwnChanges(c) : i \notin c.completed
      /\ \A i \in c.completed \ tab[t].completed :
            i \notin OwnChanges(c) /\ \A u \in Tabs : u # t => i \notin OwnChanges(tab[u])
  BY <1>4 DEF IInv, ChangesOK
<1>10. /\ cookie' = cookie \/ OwnChanges(c) # {}
       /\ c.page # "open" => channel'[t] = {}
       /\ c.page = "open" => Disturbed(t)' \/ OwnChanges(c) # {} \/ Truth(c, cookie', Resolve(cookie)')
  BY <1>3, <1>7, <1>8
<1>. QED
  BY <1>1, <1>7, <1>8, <1>9, <1>10, PageMoves, ZenonT(50)

(* A message about what the page has heard of already.                     *)
LEMMA IgnoresKeeps ==
  ASSUME IInv, NEW t \in Tabs, NEW m \in channel[t], IsIgnored(tab[t], m),
         channel' = [channel EXCEPT ![t] = @ \ {m}],
         UNCHANGED <<sessionVars, tab, mutations>>
  PROVE  IInv'
<1>1. /\ DOMAIN channel' = Tabs
      /\ \A u \in Tabs : channel'[u] \subseteq channel[u]
      /\ \A u \in Tabs : u # t => channel'[u] = channel[u]
      /\ channel'[t] = channel[t] \ {m}
  BY DEF IInv
<1>2. tab' = tab /\ sessions' = sessions /\ cookie' = cookie /\ mutations' = mutations
  BY DEF sessionVars
<1>3. \A u \in Tabs : ChannelOK(u)'
  BY <1>1, <1>2 DEF IInv, ChannelOK
<1>4. \A u \in Tabs : ChangesOK(u)'
  BY <1>1, <1>2 DEF IInv, ChangesOK, OwnChanges
<1>5. \A u \in Tabs : TruthOK(u)'
  <2> TAKE u \in Tabs
  <2>1. Disturbed(u) => Disturbed(u)'
    <3>1. CASE \E n \in channel[u] : ~ IsIgnored(tab[u], n)
      <4>1. PICK n \in channel[u] : ~ IsIgnored(tab[u], n)
        BY <3>1
      <4>2. n \in channel'[u]
        BY <1>1, <4>1
      <4>. QED
        BY <1>2, <4>1, <4>2 DEF Disturbed, IsIgnored
    <3>2. CASE \E v \in Tabs \ {u} : OwnChanges(tab[v]) # {}
      BY <1>2, <3>2 DEF Disturbed, OwnChanges
    <3>. QED
      BY <3>1, <3>2 DEF Disturbed
  <2>2. TruthOK(u)
    BY DEF IInv
  <2>3. Truth(tab[u], cookie, Resolve(cookie))' <=> Truth(tab[u], cookie, Resolve(cookie))
    BY <1>2 DEF Truth, Resolve, Live, Current
  <2>. QED
    BY <1>2, <2>1, <2>2, <2>3 DEF TruthOK, OwnChanges
<1>. QED
  BY <1>1, <1>2, <1>3, <1>4, <1>5 DEF IInv, SessionsOK, PageOK, OwnChanges, Current

LEMMA HearsKeeps ==
  ASSUME IInv, NEW t \in Tabs, NEW m \in channel[t], Hears(t, m)
  PROVE  IInv'
<1> DEFINE told == IF m.phase = "pending" THEN [tab[t] EXCEPT !.pending = @ \union {m.id}]
                   ELSE Finished(tab[t], {m.id})
           purged == Invalidated(told, "identity")
           c == IF told.pending = {} THEN Initialized(purged, "me") ELSE purged
<1>0. /\ SessionsOK /\ mutations \in Nat /\ PageOK(tab[t], mutations, sessions)
      /\ IsMessage(m, mutations) /\ tab[t].page = "open"
  BY DEF IInv, ChannelOK
<1>1. UNCHANGED <<sessionVars, mutations>>
  BY DEF Hears
<1>2. CASE IsIgnored(tab[t], m)
  <2>1. channel' = [channel EXCEPT ![t] = @ \ {m}] /\ UNCHANGED tab
    BY <1>2 DEF Hears, IsIgnored
  <2>. QED
    BY <1>1, <1>2, <2>1, IgnoresKeeps
<1>3. CASE ~ IsIgnored(tab[t], m)
  <2>1. /\ tab' = [tab EXCEPT ![t] = c]
        /\ channel' = [Notified(t, Settled(OwnChanges(tab[t]))) EXCEPT ![t] = @ \ {m}]
    BY <1>3 DEF Hears, IsIgnored
  <2>2. /\ OwnChanges(tab[t]) \subseteq 1 .. mutations
        /\ m.id \in 1 .. mutations
        /\ m.phase # "pending" => m = Message(m.id, "settled")
    BY <1>0 DEF PageOK, OwnChanges, IsRequest, IsMessage
  <2>3. m.phase # "pending" => \A u \in Tabs : m.id \notin OwnChanges(tab[u])
    <3> SUFFICES ASSUME m.phase # "pending", NEW u \in Tabs, m.id \in OwnChanges(tab[u])
                 PROVE  FALSE
      OBVIOUS
    <3>1. Message(m.id, "settled") \in channel[t]
      BY <2>2
    <3>. QED
      BY <3>1 DEF IInv, ChangesOK
  <2>4. /\ IsPage(told) /\ told.page = "open" /\ told.user = tab[t].user
        /\ told.view = tab[t].view /\ told.urls = tab[t].urls /\ told.requests = tab[t].requests
        /\ told.completed = tab[t].completed \union (IF m.phase = "pending" THEN {} ELSE {m.id})
        /\ OwnChanges(tab[t]) \subseteq told.pending
    BY <1>0, <2>3 DEF PageOK, IsPage, PageFields, Finished
  <2> HIDE DEF told
  <2>5. OwnChanges(told) = OwnChanges(tab[t]) /\ Current(told) = Current(tab[t])
    BY <2>4 DEF OwnChanges, Current
  <2>6. PageOK(told, mutations, sessions)
    <3>1. told.completed \subseteq 1 .. mutations
      BY <1>0, <2>2, <2>4 DEF PageOK
    <3>. QED
      BY <1>0, <2>4, <2>5, <3>1 DEF PageOK
  <2>7. IsPurged(told, purged, mutations, sessions)
    BY <2>6, InvalidatedIsQuiet
  <2> HIDE DEF purged
  <2>8. /\ IsPage(purged) /\ purged.page = "open" /\ purged.user = None
        /\ purged.view.turns = NoTurns /\ purged.view.readers = {} /\ purged.urls = {}
        /\ Current(purged) = {}
        /\ \A r \in purged.requests : IsRequest(r, mutations, sessions)
        /\ purged.completed = told.completed \union OwnChanges(tab[t])
        /\ purged.completed \subseteq 1 .. mutations
    BY <2>2, <2>4, <2>5, <2>6, <2>7 DEF IsPurged, PageOK
  <2>9. c \in {purged, Initialized(purged, "me")}
    OBVIOUS
  <2> HIDE DEF c
  <2>10. /\ PageOK(c, mutations, sessions) /\ OwnChanges(c) = {}
         /\ c.page = "open" /\ c.completed = purged.completed
         /\ Truth(c, cookie, Resolve(cookie))
    <3>1. "me" \in Questions
      BY DEF Questions
    <3>. QED
      BY <1>0, <2>8, <2>9, <3>1, NobodyIsTrue
  <2>11. /\ RegistryMoves(sessions, sessions') /\ PageOK(c, mutations', sessions')
         /\ cookie' = cookie /\ IsDrawn(cookie', sessions')
         /\ mutations' \in Nat /\ mutations <= mutations'
         /\ Truth(c, cookie', Resolve(cookie)')
    BY <1>0, <1>1, <2>10, NothingMoves DEF sessionVars, SessionsOK, Resolve, Live
  <2>12. /\ DOMAIN channel' = Tabs
         /\ \A u \in Tabs : \A n \in channel'[u] :
              \/ n \in channel[u]
              \/ n = Message(mutations', "pending") /\ mutations < mutations'
              \/ \E i \in OwnChanges(tab[t]) \ OwnChanges(c) : n = Message(i, "settled")
         /\ \A u \in Tabs : u # t => channel[u] \subseteq channel'[u]
         /\ \A u \in Tabs : u # t /\ tab[u].page # "open" => channel'[u] = channel[u]
         /\ \A u \in Tabs, i \in OwnChanges(tab[t]) \ OwnChanges(c) :
              u # t /\ tab[u].page = "open" => Message(i, "settled") \in channel'[u]
    BY <2>1, <2>10 DEF Notified, Settled
  <2>13. /\ \A i \in OwnChanges(c) : i \in OwnChanges(tab[t]) \/ (i = mutations' /\ mutations < mutations')
         /\ \A i \in OwnChanges(c) : i \notin c.completed
         /\ \A i \in c.completed \ tab[t].completed :
              i \notin OwnChanges(c) /\ \A u \in Tabs : u # t => i \notin OwnChanges(tab[u])
    BY <2>3, <2>4, <2>8, <2>10 DEF IInv, ChangesOK
  <2>14. /\ cookie' = cookie \/ OwnChanges(c) # {}
         /\ c.page # "open" => channel'[t] = {}
         /\ c.page = "open" => Disturbed(t)' \/ OwnChanges(c) # {} \/ Truth(c, cookie', Resolve(cookie)')
    BY <2>10, <2>11
  <2>. QED
    BY <2>1, <2>11, <2>12, <2>13, <2>14, PageMoves, ZenonT(50)
<1>. QED
  BY <1>2, <1>3
-----------------------------------------------------------------------------
LEMMA Initially ==
  ASSUME Init
  PROVE  IInv
<1>1. /\ SessionsOK /\ mutations = 0 /\ mutations \in Nat
      /\ DOMAIN tab = Tabs /\ DOMAIN channel = Tabs
  BY DemoSessionsAssumption DEF Init, InitSessions, SessionsOK, IsDrawn
<1>2. /\ IsPage(NewPage) /\ NewPage.page = "closed" /\ NewPage.user = None
      /\ NewPage.view.readers = {} /\ NewPage.view.turns = NoTurns /\ NewPage.urls = {}
      /\ NewPage.requests = {} /\ NewPage.completed = {}
  BY DEF IsPage, PageFields, ViewFields, NewPage, EmptyView
<1>3. Current(NewPage) = {} /\ OwnChanges(NewPage) = {}
  BY <1>2 DEF Current, OwnChanges
<1>4. PageOK(NewPage, mutations, sessions)
  BY <1>1, <1>2, <1>3 DEF PageOK
<1>5. \A t \in Tabs : tab[t] = NewPage /\ channel[t] = {}
  BY DEF Init
<1>. QED
  BY <1>1, <1>2, <1>3, <1>4, <1>5 DEF IInv, ChannelOK, ChangesOK, TruthOK

LEMMA StutteringKeeps ==
  ASSUME IInv, UNCHANGED vars
  PROVE  IInv'
<1>1. sessions' = sessions /\ cookie' = cookie /\ tab' = tab
      /\ channel' = channel /\ mutations' = mutations
  BY DEF vars, sessionVars, consoleVars
<1>2. SessionsOK'
  BY <1>1 DEF IInv, SessionsOK
<1>3. ASSUME NEW t \in Tabs PROVE PageOK(tab[t], mutations, sessions)'
  BY <1>1 DEF IInv
<1>4. ASSUME NEW t \in Tabs PROVE ChannelOK(t)'
  BY <1>1 DEF IInv, ChannelOK
<1>5. ASSUME NEW t \in Tabs PROVE ChangesOK(t)'
  BY <1>1 DEF IInv, ChangesOK
<1>6. Resolve(cookie)' = Resolve(cookie)
  BY <1>1 DEF Resolve, Live
<1>7. ASSUME NEW t \in Tabs PROVE TruthOK(t)'
  BY <1>1, <1>6 DEF IInv, TruthOK, Disturbed
<1>. QED
  BY <1>1, <1>2, <1>3, <1>4, <1>5, <1>7 DEF IInv

(* Every step leaves every page with a true picture, or with a change of   *)
(* user under way, or one to hear of.                                      *)
LEMMA Inductive ==
  ASSUME IInv, Next
  PROVE  IInv'
<1>1. CASE SessionExpires
  BY <1>1, SessionExpiresKeeps
<1>2. CASE \E t \in Tabs, persisted \in BOOLEAN : Opens(t, persisted)
  BY <1>2, OpensKeeps
<1>3. CASE \E t \in Tabs : Hides(t)
  BY <1>3, HidesKeeps
<1>4. CASE \E t \in Tabs : ChangesUser(t)
  BY <1>4, ChangesUserKeeps
<1>5. CASE \E t \in Tabs : Submits(t)
  BY <1>5, SubmitsKeeps
<1>6. CASE \E t \in Tabs : StartsAnew(t)
  BY <1>6, StartsAnewKeeps
<1>7. CASE \E t \in Tabs : OpensDocument(t)
  BY <1>7, OpensDocumentKeeps
<1>8. CASE \E t \in Tabs : RevokesUrls(t)
  BY <1>8, RevokesUrlsKeeps
<1>9. CASE \E t \in Tabs, n \in DOMAIN runs : Decides(t, n)
  BY <1>9, DecidesKeeps
<1>10. CASE \E t \in Tabs : \E m \in channel[t] : Hears(t, m)
  BY <1>10, HearsKeeps
<1>11. ASSUME NEW t \in Tabs, NEW r \in tab[t].requests,
              Serves(t, r) \/ StoresCookie(t, r) \/ LosesRequest(t, r) \/ Receives(t, r)
       PROVE  IInv'
  <2>1. CASE Serves(t, r)
    BY <2>1, AuthenticatesKeeps, RunsKeeps, ResumesKeeps, ShowsKeeps DEF Serves
  <2>2. CASE StoresCookie(t, r)
    BY <2>2, StoresCookieKeeps
  <2>3. CASE LosesRequest(t, r) \/ Receives(t, r)
    BY <2>3, ReceivesKeeps
  <2>. QED
    BY <1>11, <2>1, <2>2, <2>3
<1>. QED
  BY <1>1, <1>2, <1>3, <1>4, <1>5, <1>6, <1>7, <1>8, <1>9, <1>10, <1>11 DEF Next

(* Whatever the pages do, every open page is true, has a change of its own *)
(* under way, or will hear of another's.                                   *)
THEOREM StrengthenedInvariant == Spec => []IInv
<1>1. Init => IInv
  BY Initially
<1>2. IInv /\ [Next]_vars => IInv'
  BY Inductive, StutteringKeeps
<1>. QED
  BY <1>1, <1>2, PTL DEF Spec

(* No late answer, no other page's change of user and no return from the   *)
(* back/forward cache puts one user's data under another name.             *)
THEOREM NobodyReadsAnothersPage == Spec => []PagesTellTheTruth
<1>1. IInv => PagesTellTheTruth
  <2> SUFFICES ASSUME IInv, NEW t \in Tabs, IsAtRest(t)
               PROVE  /\ tab[t].user # None => Resolve(cookie) \in {tab[t].user, None}
                      /\ tab[t].view.readers \union tab[t].urls \subseteq {tab[t].user}
    BY DEF PagesTellTheTruth
  <2>1. ~ Disturbed(t) /\ OwnChanges(tab[t]) = {} /\ tab[t].page = "open"
    BY DEF IsAtRest, IsOpen, Disturbed
  <2>2. Truth(tab[t], cookie, Resolve(cookie))
    BY <2>1 DEF IInv, TruthOK
  <2>. QED
    BY <2>2 DEF Truth
<1>. QED
  BY <1>1, StrengthenedInvariant, PTL
=============================================================================
