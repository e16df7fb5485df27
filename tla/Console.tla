------------------------------ MODULE Console -------------------------------
(***************************************************************************)
(* The pages of the web console in one browser (frontend/js: demo-auth.js, *)
(* api.js, app.js).  The pages share a cookie and a broadcast channel; each*)
(* shows a user and an investigation, and everything it knows of either it *)
(* learned from an answer that may come late, or after another page has    *)
(* switched the user.                                                      *)
(*                                                                         *)
(* A page reacts to one event at a time, so an action is one event with    *)
(* all it does.  The browser stops what an abort reaches: an aborted       *)
(* request sets no cookie and returns nothing, except what had already     *)
(* arrived.  The channel keeps no order.                                   *)
(***************************************************************************)
EXTENDS DemoSessions, Sequences

CONSTANTS
    Tabs,
    Clearance,              \* of each user
    Mutations,              \* a bound: session changes, 1 .. n
    MaxRuns, MaxHides,      \* bounds: runs, and times a page is left
    MaxRequests             \* a bound: requests about runs under way

ASSUME ConsoleAssumption ==
    /\ Clearance \in [Users -> Nat]
    /\ Mutations \subseteq Nat /\ MaxRuns \in Nat /\ MaxHides \in Nat /\ MaxRequests \in Nat

VARIABLES
    tab,                    \* the pages
    channel,                \* BroadcastChannel: messages on their way to a page
    runs,                   \* the store's runs, in the order they started
    mutations,              \* session changes so far
    hides                   \* times a page was left so far

consoleVars == <<tab, channel, runs, mutations, hides>>
vars == <<sessionVars, consoleVars>>

(* What is shown: turns as run ids with their status, whose answers they   *)
(* came in, and whose the object URLs of documents are.                    *)
NoTurns == [r \in {} |-> None]
EmptyView == [investigation |-> None, turns |-> NoTurns, readers |-> {}]

NewPage ==
    [page |-> "closed", user |-> None, pending |-> {}, completed |-> {}, requests |-> {},
     view |-> EmptyView, urls |-> {}, stored |-> [investigation |-> None, user |-> None]]

Init ==
    /\ InitSessions
    /\ tab = [t \in Tabs |-> NewPage]
    /\ channel = [t \in Tabs |-> {}]
    /\ runs = << >>
    /\ mutations = 0
    /\ hides = 0
-----------------------------------------------------------------------------
(* Requests.  "current": sent in the page's present security context.  An  *)
(* answer of None is still on its way.                                     *)
Request(kind, investigation, run) ==
    [kind |-> kind, token |-> cookie, current |-> TRUE, answer |-> None,
     investigation |-> investigation, run |-> run, user |-> None, latest |-> TRUE]

AuthRequest(kind, user, id) == [Request(kind, None, id) EXCEPT !.user = user]

Changes == {"bootstrap", "switch", "logout"}
Posts == Changes \union {"create", "resume"}
Reloads == {"restore", "reloadOfRun", "reloadOfDecision", "reloadOfConflict", "refresh"}
DataKinds == Reloads \union {"create", "resume", "document"}

(* A fault: a continuation does not ask whether the context changed.       *)
AnySecurityContext(r) == TRUE

(* isCurrentSecurityContext, which every continuation asks.                *)
IsCurrentSecurityContext(r) == r.current

(* invalidateSecurityContext aborts: what is left is what has arrived, and *)
(* what the server may still do.  An identity that has arrived is left out:*)
(* it is dropped whatever comes after.                                     *)
Aborted(requests) ==
    {[r EXCEPT !.current = FALSE] :
        r \in {q \in requests : IF q.answer = None THEN q.kind \in Posts ELSE q.kind \in DataKinds}}

OwnChanges(b) == {r.run : r \in {q \in b.requests : q.current /\ q.kind \in Changes}}

(* isSubmitting                                                            *)
IsSubmitting(b) ==
    \E r \in b.requests : r.current /\ r.kind \in {"create", "reloadOfRun"}

Requested(b, r) == [b EXCEPT !.requests = @ \union {r}]

(* persistActiveInvestigation, renderEmptyInvestigation                    *)
Persisted(b, investigation) ==
    [b EXCEPT !.stored = [investigation |-> investigation,
                          user |-> IF investigation = None THEN None ELSE b.user]]

Emptied(b) == Persisted([b EXCEPT !.view = EmptyView], None)

(* finishMutation *)
Finished(b, ids) == [b EXCEPT !.pending = @ \ ids, !.completed = @ \union ids]

(* invalidateSecurityContext with the handlers of securitycontextchange,   *)
(* and the end of a session change it aborts.                              *)
Invalidated(b, reason) ==
    LET emptied == Emptied(b)
        kept == IF reason = "navigation" THEN Persisted(emptied, b.view.investigation) ELSE emptied
    IN Finished([kept EXCEPT !.user = None, !.urls = {}, !.requests = Aborted(b.requests)],
                OwnChanges(b))

(* initialize: who is it now?  The configuration it asks for first tells   *)
(* nobody's data and is left out.                                          *)
Initialized(b, kind) == Requested([b EXCEPT !.user = None], Request(kind, None, None))

(* transition: invalidation and its notice precede the request.            *)
Transitioned(b, kind, user) ==
    LET id == mutations + 1
        purged == Invalidated(b, "identity")
    IN Requested([purged EXCEPT !.pending = @ \union {id}], AuthRequest(kind, user, id))

Message(id, phase) == [id |-> id, phase |-> phase]

(* notify, to the pages that listen: a hidden page has closed its channel. *)
Notified(t, messages) ==
    [u \in Tabs |->
        IF u # t /\ tab[u].page = "open" THEN channel[u] \union messages ELSE channel[u]]

Settled(ids) == {Message(id, "settled") : id \in ids}

(* A page becomes b; changes it aborted are settled.                       *)
Becomes(t, b) ==
    /\ tab' = [tab EXCEPT ![t] = b]
    /\ channel' = Notified(t, Settled(OwnChanges(tab[t]) \ OwnChanges(b)))
-----------------------------------------------------------------------------
(* The server's side.                                                      *)

Visible(user, investigation) ==
    {n \in DOMAIN runs : runs[n].investigation = investigation /\ runs[n].label <= Clearance[user]}

Answer(status, user, turns) ==
    [status |-> status, user |-> user, turns |-> turns, run |-> None,
     investigation |-> None, cookie |-> None]

(* _authorized_investigation: the visible turns, if there are any.         *)
Investigation(user, investigation) ==
    LET visible == Visible(user, investigation)
    IN IF visible = {} THEN Answer(404, user, NoTurns)
       ELSE [Answer(200, user, [n \in visible |-> runs[n].status])
             EXCEPT !.investigation = investigation]

(* The session is resolved when the request comes in.                      *)
Reader(r) == Resolve(r.token)

Replied(t, r, answer) ==
    tab' = [tab EXCEPT ![t].requests =
               (@ \ {r}) \union (IF r.current THEN {[r EXCEPT !.answer = answer]} ELSE {})]

(* A bound: the tokens do not run out.                                     *)
Authenticates(t, r) ==
    /\ r.kind \in Changes \union {"me", "meOnLoad"}
    /\ r.kind \in {"bootstrap", "switch"} => Undrawn # {}
    /\ LET outcome == CASE r.kind = "bootstrap" -> Bootstrap(r.token)
                        [] r.kind = "switch"    -> Switch(r.user, r.token)
                        [] r.kind = "logout"    -> Logout(r.token)
                        [] OTHER                -> Me(r.token)
       IN /\ sessions' = outcome.registry
          /\ Replied(t, r, [Answer(outcome.status, outcome.user, NoTurns)
                            EXCEPT !.cookie = outcome.cookie])
    /\ UNCHANGED <<cookie, channel, runs, mutations, hides>>

(* POST /runs.  A run that starts an investigation gives it its name here. *)
Run(investigation, label, status) ==
    [investigation |-> investigation, label |-> label, status |-> status]

Runs(t, r) ==
    /\ r.kind = "create"
    /\ IF Reader(r) = None THEN Replied(t, r, Answer(401, None, NoTurns)) /\ UNCHANGED runs
       ELSE IF r.investigation # None /\ Visible(Reader(r), r.investigation) = {}
       THEN Replied(t, r, Answer(404, Reader(r), NoTurns)) /\ UNCHANGED runs
       ELSE \E status \in {"ended", "waiting"}, code \in {200, 504} :
            LET n == Len(runs) + 1
                investigation == IF r.investigation = None THEN n ELSE r.investigation
            IN /\ n <= MaxRuns
               /\ code = 504 => status = "ended"
               /\ runs' = Append(runs, Run(investigation, Clearance[Reader(r)], status))
               /\ Replied(t, r, [Answer(code, Reader(r), [m \in {n} |-> status])
                                 EXCEPT !.run = n, !.investigation = investigation])
    /\ UNCHANGED <<sessionVars, channel, mutations, hides>>

(* POST /runs/{id}/resume                                                  *)
Resumes(t, r) ==
    /\ r.kind = "resume"
    /\ IF Reader(r) = None THEN Replied(t, r, Answer(401, None, NoTurns)) /\ UNCHANGED runs
       ELSE IF runs[r.run].label > Clearance[Reader(r)]
       THEN Replied(t, r, Answer(404, Reader(r), NoTurns)) /\ UNCHANGED runs
       ELSE IF runs[r.run].status # "waiting"
       THEN Replied(t, r, Answer(409, Reader(r), NoTurns)) /\ UNCHANGED runs
       ELSE /\ runs' = [runs EXCEPT ![r.run].status = "ended"]
            /\ Replied(t, r, Answer(200, Reader(r), NoTurns))
    /\ UNCHANGED <<sessionVars, channel, mutations, hides>>

Shows(t, r) ==
    /\ r.kind \in Reloads \union {"document"}
    /\ Replied(t, r, IF Reader(r) = None THEN Answer(401, None, NoTurns)
                     ELSE IF r.kind = "document" THEN Answer(200, Reader(r), NoTurns)
                     ELSE Investigation(Reader(r), r.investigation))
    /\ UNCHANGED <<sessionVars, channel, runs, mutations, hides>>

Serves(t, r) ==
    /\ r.answer = None
    /\ Authenticates(t, r) \/ Runs(t, r) \/ Resumes(t, r) \/ Shows(t, r)

(* The browser takes the cookie of an answer before the page reads it.     *)
StoresCookie(t, r) ==
    /\ r.current
    /\ r.answer # None /\ r.answer.cookie # None
    /\ cookie' = r.answer.cookie
    /\ tab' = [tab EXCEPT ![t].requests = (@ \ {r}) \union {[r EXCEPT !.answer.cookie = None]}]
    /\ UNCHANGED <<sessions, channel, runs, mutations, hides>>
-----------------------------------------------------------------------------
(* What a page does with an answer.  b is the page without the request.    *)

(* restoreActiveInvestigation, for the user who stored the reference.      *)
Restored(b) ==
    IF b.user = None \/ b.stored.user # b.user \/ b.stored.investigation = None THEN Emptied(b)
    ELSE Requested([b EXCEPT !.view.investigation = b.stored.investigation],
                   Request("restore", b.stored.investigation, None))

(* initialize, after /auth/me.                                             *)
LearnsUser(t, b, r) ==
    LET restored(c) == IF r.kind = "meOnLoad" THEN Restored(c) ELSE c
    IN IF r.answer.status = 401 /\ r.kind = "meOnLoad" /\ b.pending = {}
       THEN /\ mutations < Cardinality(Mutations)
            /\ tab' = [tab EXCEPT ![t] = Transitioned(b, "bootstrap", None)]
            /\ channel' = Notified(t, {Message(mutations + 1, "pending")})
            /\ mutations' = mutations + 1
       ELSE /\ Becomes(t, restored([b EXCEPT !.user =
                   IF r.answer.status = 200 /\ b.pending = {} THEN r.answer.user ELSE None]))
            /\ UNCHANGED mutations

(* A fault: a change that failed is not announced as settled.              *)
SettledOnSuccess(r) == IF r.answer.status = 200 THEN Settled({r.run}) ELSE {}

SettledBy(r) == Settled({r.run})

(* transition, after its request: settle, show nobody, ask who it is.      *)
EndsChange(t, b, r) ==
    LET ended == [Finished(b, {r.run}) EXCEPT !.user = None]
        asks == r.answer.status = 200 /\ r.kind # "logout" /\ ended.pending = {}
    IN /\ tab' = [tab EXCEPT ![t] = IF asks THEN Initialized(ended, "me") ELSE ended]
       /\ channel' = Notified(t, SettledBy(r))
       /\ UNCHANGED mutations

(* renderInvestigation                                                     *)
Rendered(b, answer) ==
    Persisted([b EXCEPT !.view = [investigation |-> answer.investigation, turns |-> answer.turns,
                                  readers |-> {answer.user}]],
              answer.investigation)

WithTurn(b, run, status) ==
    [b EXCEPT !.view.turns = [m \in DOMAIN @ \union {run} |-> IF m = run THEN status ELSE @[m]]]

(* submitRequest, renderTerminalRun                                        *)
ReceivesRun(b, r) ==
    LET known == [b EXCEPT !.view.investigation = r.answer.investigation]
        terminal == WithTurn([known EXCEPT !.view.readers = @ \union {r.answer.user}],
                             r.answer.run, "ended")
    IN IF r.answer.status # 200
       THEN IF r.answer.investigation = None THEN b ELSE Persisted(known, r.answer.investigation)
       ELSE IF r.answer.turns[r.answer.run] = "ended"
       THEN Requested(Persisted(terminal, r.answer.investigation),
                      Request("refresh", r.answer.investigation, r.answer.run))
       ELSE Requested(known, Request("reloadOfRun", r.answer.investigation, None))

(* The controls of a decision, which an investigation rendered meanwhile   *)
(* has replaced by others.                                                 *)
Controls(b, run, status) ==
    IF run \in DOMAIN b.view.turns /\ b.view.turns[run] = "deciding"
    THEN WithTurn(b, run, status) ELSE b

(* decide, after its request.                                              *)
ReceivesDecision(b, r) ==
    IF r.investigation # b.view.investigation THEN b
    ELSE CASE r.answer.status = 200 -> Requested(b, Request("reloadOfDecision", r.investigation, r.run))
           [] r.answer.status = 409 -> Requested(Controls(b, r.run, "stale"),
                                                 Request("reloadOfConflict", r.investigation, None))
           [] OTHER -> Controls(b, r.run, "waiting")

(* reloadInvestigation and refreshTerminalInvestigation.                   *)
ReceivesInvestigation(b, r) ==
    IF r.answer.status = 200
    THEN IF r.investigation = b.view.investigation
            /\ (r.kind = "refresh" => r.latest /\ r.run \in DOMAIN r.answer.turns)
         THEN Rendered(b, r.answer)
         ELSE b
    ELSE IF r.kind = "restore" THEN Emptied(b)
    ELSE IF r.kind = "reloadOfDecision" /\ r.investigation = b.view.investigation
    THEN Controls(b, r.run, "waiting")
    ELSE b

(* request and requestBinary: a 401 ends what the page knows.              *)
ReceivesData(t, b, r) ==
    /\ Becomes(t, CASE r.answer.status = 401 -> Invalidated(b, "authentication")
                    [] r.answer.status # 401 /\ r.kind = "create" -> ReceivesRun(b, r)
                    [] r.answer.status # 401 /\ r.kind = "resume" -> ReceivesDecision(b, r)
                    [] r.answer.status = 200 /\ r.kind = "document" ->
                           [b EXCEPT !.urls = @ \union {r.answer.user}]
                    [] r.answer.status \notin {200, 401} /\ r.kind = "document" -> b
                    [] r.answer.status # 401 /\ r.kind \in Reloads -> ReceivesInvestigation(b, r))
    /\ UNCHANGED mutations

Handles(t, r, answer) ==
    LET b == [tab[t] EXCEPT !.requests = @ \ {r}]
        answered == [r EXCEPT !.answer = answer]
    IN /\ IF ~ IsCurrentSecurityContext(r)
          THEN /\ tab' = [tab EXCEPT ![t] = b]
               /\ UNCHANGED <<channel, mutations>>
          ELSE CASE r.kind \in {"me", "meOnLoad"} -> LearnsUser(t, b, answered)
                 [] r.kind \in Changes -> EndsChange(t, b, answered)
                 [] OTHER -> ReceivesData(t, b, answered)
       /\ UNCHANGED <<sessionVars, runs, hides>>

Receives(t, r) ==
    /\ r.answer # None /\ r.answer.cookie = None
    /\ Handles(t, r, r.answer)

(* The request or its answer is lost; of a post, the server has acted.     *)
LosesRequest(t, r) ==
    /\ r.current
    /\ r.answer # None => r.kind \in Posts /\ r.answer.status = 200
    /\ Handles(t, r, Answer(0, None, NoTurns))
-----------------------------------------------------------------------------
(* What happens to a page.                                                 *)

IsOpen(t) == tab[t].page = "open"
UnderWay(t) == {r \in tab[t].requests : r.kind \in DataKinds}
HasRoom == Cardinality(UNION {{<<t, r>> : r \in UnderWay(t)} : t \in Tabs}) < MaxRequests

(* A load, or a return from the back/forward cache (pageshow).             *)
Opens(t, persisted) ==
    /\ ~ IsOpen(t)
    /\ tab[t].page = "closed" => ~ persisted
    /\ LET sent == {r \in tab[t].requests : r.answer = None}
           kept == IF persisted THEN tab[t]
                   ELSE [NewPage EXCEPT !.stored = tab[t].stored, !.requests = sent]
       IN tab' = [tab EXCEPT ![t] = Initialized([kept EXCEPT !.page = "open", !.pending = {}], "meOnLoad")]
    /\ UNCHANGED <<sessionVars, channel, runs, mutations, hides>>

(* pagehide *)
Hides(t) ==
    /\ IsOpen(t)
    /\ hides < MaxHides
    /\ hides' = hides + 1
    /\ tab' = [tab EXCEPT ![t] = [Invalidated(@, "navigation") EXCEPT !.page = "hidden"]]
    /\ channel' = [Notified(t, Settled(OwnChanges(tab[t]))) EXCEPT ![t] = {}]
    /\ UNCHANGED <<sessionVars, runs, mutations>>

(* The account menu: a user is chosen, or logs out.                        *)
ChangesUser(t) ==
    /\ IsOpen(t)
    /\ tab[t].pending = {}
    /\ mutations < Cardinality(Mutations)
    /\ \/ \E u \in Users \ {tab[t].user} : tab' = [tab EXCEPT ![t] = Transitioned(@, "switch", u)]
       \/ tab[t].user # None /\ tab' = [tab EXCEPT ![t] = Transitioned(@, "logout", None)]
    /\ channel' = Notified(t, {Message(mutations + 1, "pending")})
    /\ mutations' = mutations + 1
    /\ UNCHANGED <<sessionVars, runs, hides>>

(* The channel's onmessage.  It asks who it is before an aborted change of *)
(* its own has ended.                                                      *)
Hears(t, m) ==
    LET told == IF m.phase = "pending" THEN [tab[t] EXCEPT !.pending = @ \union {m.id}]
                ELSE Finished(tab[t], {m.id})
        purged == Invalidated(told, "identity")
        ignored == m.id \in tab[t].completed \/ (m.phase = "pending" /\ m.id \in tab[t].pending)
    IN /\ m \in channel[t]
       /\ IF ignored
          THEN /\ channel' = [channel EXCEPT ![t] = @ \ {m}]
               /\ UNCHANGED tab
          ELSE /\ tab' = [tab EXCEPT ![t] =
                            IF told.pending = {} THEN Initialized(purged, "me") ELSE purged]
               /\ channel' = [Notified(t, Settled(OwnChanges(tab[t]))) EXCEPT ![t] = @ \ {m}]
       /\ UNCHANGED <<sessionVars, runs, mutations, hides>>

(* submitRequest: a new investigation replaces what is shown, and what is  *)
(* refreshed for an earlier message is no longer the latest.               *)
Submits(t) ==
    /\ IsOpen(t) /\ HasRoom
    /\ tab[t].user # None
    /\ ~ IsSubmitting(tab[t])
    /\ Len(runs) < MaxRuns
    /\ LET investigation == tab[t].view.investigation
           cleared == IF investigation = None THEN [tab[t] EXCEPT !.view = EmptyView] ELSE tab[t]
           outdated == {[r EXCEPT !.latest = FALSE] : r \in cleared.requests}
       IN tab' = [tab EXCEPT ![t] = Requested([cleared EXCEPT !.requests = outdated],
                                              Request("create", investigation, None))]
    /\ UNCHANGED <<sessionVars, channel, runs, mutations, hides>>

StartsAnew(t) ==
    /\ IsOpen(t)
    /\ ~ IsSubmitting(tab[t])
    /\ tab[t].view # EmptyView
    /\ tab' = [tab EXCEPT ![t] = Emptied(@)]
    /\ UNCHANGED <<sessionVars, channel, runs, mutations, hides>>

(* The buttons of an approval are disabled while it is decided.            *)
Decides(t, n) ==
    /\ IsOpen(t) /\ HasRoom
    /\ n \in DOMAIN tab[t].view.turns
    /\ tab[t].view.turns[n] = "waiting"
    /\ tab' = [tab EXCEPT ![t] = Requested(WithTurn(@, n, "deciding"),
                                           Request("resume", @.view.investigation, n))]
    /\ UNCHANGED <<sessionVars, channel, runs, mutations, hides>>

(* openDocument, downloadDocument, downloadInvestigationPdf                *)
OpensDocument(t) ==
    /\ IsOpen(t) /\ HasRoom
    /\ tab[t].view.turns # NoTurns
    /\ tab' = [tab EXCEPT ![t] = Requested(@, Request("document", None, None))]
    /\ UNCHANGED <<sessionVars, channel, runs, mutations, hides>>

(* revokeObjectUrlLater *)
RevokesUrls(t) ==
    /\ tab[t].urls # {}
    /\ tab' = [tab EXCEPT ![t].urls = {}]
    /\ UNCHANGED <<sessionVars, channel, runs, mutations, hides>>

(* A bound: sessions no cookie names any more stay.                        *)
SessionExpires == Expires(cookie) /\ UNCHANGED consoleVars

Next ==
    \/ SessionExpires
    \/ \E t \in Tabs :
        \/ \E persisted \in BOOLEAN : Opens(t, persisted)
        \/ Hides(t) \/ ChangesUser(t) \/ Submits(t) \/ StartsAnew(t)
        \/ OpensDocument(t) \/ RevokesUrls(t)
        \/ \E n \in DOMAIN runs : Decides(t, n)
        \/ \E m \in channel[t] : Hears(t, m)
        \/ \E r \in tab[t].requests :
            Serves(t, r) \/ StoresCookie(t, r) \/ LosesRequest(t, r) \/ Receives(t, r)

(* The server answers, the browser hands over what arrived, and the channel*)
(* delivers; nobody has to do anything.                                    *)
Delivers(t) ==
    \/ \E m \in channel[t] : Hears(t, m)
    \/ \E r \in tab[t].requests : StoresCookie(t, r) \/ Receives(t, r)

Fairness ==
    \A t \in Tabs :
        /\ WF_vars(Delivers(t))
        /\ WF_vars(\E r \in tab[t].requests : Serves(t, r))

Spec == Init /\ [][Next]_vars /\ Fairness
-----------------------------------------------------------------------------
(* No session change is under way and nothing of one is on its way here.   *)
IsAtRest(t) ==
    /\ IsOpen(t)
    /\ channel[t] = {}
    /\ \A u \in Tabs : OwnChanges(tab[u]) = {}

(* A page that has heard of every change shows the user whose session the  *)
(* cookie is, unless that session is over, and nothing that was answered to*)
(* anybody else: no late answer, no other page's switch, no return from the*)
(* back/forward cache puts one user's data or documents under another name.*)
PagesTellTheTruth ==
    \A t \in Tabs : IsAtRest(t) =>
        /\ tab[t].user # None => Resolve(cookie) \in {tab[t].user, None}
        /\ tab[t].view.readers \union tab[t].urls \subseteq {tab[t].user}

(* No page is left connecting: every change a page waits for is settled,   *)
(* also one that failed, was aborted or whose page was left.               *)
PagesReconnect ==
    \A t \in Tabs : tab[t].pending # {} ~> (tab[t].pending = {} \/ ~ IsOpen(t))

(* quality-gates.md: no stale refresh overwrites a terminal turn.  A turn  *)
(* shown as ended stays shown while its investigation is.                  *)
EndedTurns(t) == {n \in DOMAIN tab[t].view.turns : tab[t].view.turns[n] = "ended"}

Keeps(t) ==
    /\ tab[t].view.investigation # None
    /\ tab'[t].view.investigation = tab[t].view.investigation

NoStaleRefresh == [][\A t \in Tabs : Keeps(t) => EndedTurns(t) \subseteq EndedTurns(t)']_vars
=============================================================================
