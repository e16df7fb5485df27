----------------------------- MODULE MCConsole ------------------------------
(* Two pages of one browser.                                               *)
EXTENDS Console

CONSTANTS alice, bob, working

MCClearance == [u \in Users |-> IF u = alice THEN 3 ELSE 0]

(* Both pages have been loaded and show alice, who has done nothing yet.   *)
Loaded ==
    /\ sessions = [t \in Tokens |-> IF t = 1 THEN alice ELSE None]
    /\ cookie = 1
    /\ tab = [t \in Tabs |-> [NewPage EXCEPT !.page = "open", !.user = alice]]
    /\ channel = [t \in Tabs |-> {}]
    /\ runs = << >> /\ mutations = 0 /\ hides = 0

(* Bounds: one page works, either may change the user; and the user is     *)
(* changed a second time only while nothing else is under way.             *)
Works(t) == \E r \in tab'[t].requests : r.kind \in DataKinds

Sparse ==
    /\ \A t \in Tabs : Works(t) => t = working /\ mutations' < 2
    /\ mutations' = 2 => runs' = << >>

MCSpec == Loaded /\ [][Next /\ Sparse]_vars /\ Fairness
=============================================================================
