---------------------------- MODULE DemoSessions ----------------------------
(* The browser's cookie and the API's registry of demo sessions            *)
(* (infrastructure/api/demo_sessions.py).  A token is random and is never  *)
(* drawn twice, so the registry remembers which are over.  The origin check*)
(* passes for whatever the console's own pages send, and is left out; the  *)
(* names of the users stand for their passwords, which are the same.       *)
EXTENDS Naturals, FiniteSets

CONSTANTS
    Users, DefaultUser,     \* config/demo-users.toml, with demo-public
    Tokens,                 \* a bound: 1 .. n, drawn in this order
    Capacity,
    None, LoggedOut, Over

ASSUME DemoSessionsAssumption ==
    /\ DefaultUser \in Users
    /\ Tokens \subseteq Nat
    /\ Capacity \in Nat \ {0}
    /\ {None, Over} \intersect Users = {} /\ Over # None
    /\ {None, LoggedOut} \intersect Tokens = {}

VARIABLES
    sessions,               \* DemoSessions._sessions: whose a token is
    cookie                  \* industrial_demo_session, one for all pages

sessionVars == <<sessions, cookie>>

Live(registry) == {t \in DOMAIN registry : registry[t] \in Users}

InitSessions ==
    /\ sessions = [t \in Tokens |-> None]
    /\ cookie = None

Resolve(token) == IF token \in Live(sessions) THEN sessions[token] ELSE None

Revoked(token) == [t \in Tokens |-> IF t = token /\ t \in Live(sessions) THEN Over ELSE sessions[t]]

Undrawn == {t \in Tokens : sessions[t] = None}

(* What an endpoint does to the registry, and the answer it gives.  A      *)
(* cookie of None is one the answer does not set.                          *)
Outcome(registry, status, user, set) ==
    [registry |-> registry, status |-> status, user |-> user, cookie |-> set]

(* establish gives up the previous session before it looks for room.       *)
Establish(username, previous) ==
    LET freed == Revoked(previous)
        token == CHOOSE t \in Undrawn : \A u \in Undrawn : t <= u
    IN IF Cardinality(Live(freed)) >= Capacity
       THEN Outcome(freed, 429, None, None)
       ELSE Outcome([freed EXCEPT ![token] = username], 200, username, token)

Bootstrap(token) ==
    IF token = LoggedOut THEN Outcome(sessions, 401, None, None)
    ELSE IF Resolve(token) # None THEN Outcome(sessions, 200, Resolve(token), None)
    ELSE Establish(DefaultUser, token)

(* POST /auth/switch, and /auth/login once the password is compared.       *)
Switch(username, token) == Establish(username, token)

Logout(token) == Outcome(Revoked(token), 200, None, LoggedOut)

(* GET /auth/me.                                                           *)
Me(token) == Outcome(sessions, IF Resolve(token) = None THEN 401 ELSE 200, Resolve(token), None)

(* The lifetime of a session is over; a restart of the process ends all.   *)
Expires(token) ==
    /\ token \in Live(sessions)
    /\ sessions' = Revoked(token)
    /\ UNCHANGED cookie
=============================================================================
