--------------------------- MODULE ProtectedAction ---------------------------
(***************************************************************************)
(* What human approval promises, with nothing of how it is kept.  A key is *)
(* one approval generation of one run.  A proposal is bound to it once; a  *)
(* human decides it once; an approved key may be consumed once, and only a *)
(* consumed key has an effect: the one bound to it, at most one time.  A   *)
(* key may stop anywhere on the way: never decided, approved and never     *)
(* used, or consumed and never performed.                                  *)
(***************************************************************************)
CONSTANTS Keys,        \* the approval generations
          Proposals    \* what can be proposed

VARIABLES phase,       \* how far the approval of a key has come
          bound,       \* the proposals bound to a key: none or one
          performed    \* the proposals carried out under a key

vars == <<phase, bound, performed>>

Phases == {"unknown", "proposed", "approved", "rejected", "consumed"}

TypeOK ==
    /\ phase \in [Keys -> Phases]
    /\ bound \in [Keys -> SUBSET Proposals]
    /\ performed \in [Keys -> SUBSET Proposals]

Init ==
    /\ phase = [k \in Keys |-> "unknown"]
    /\ bound = [k \in Keys |-> {}]
    /\ performed = [k \in Keys |-> {}]

Propose(k, p) ==
    /\ phase[k] = "unknown"
    /\ phase' = [phase EXCEPT ![k] = "proposed"]
    /\ bound' = [bound EXCEPT ![k] = {p}]
    /\ UNCHANGED performed

Decide(k, decision) ==
    /\ phase[k] = "proposed"
    /\ phase' = [phase EXCEPT ![k] = decision]
    /\ UNCHANGED <<bound, performed>>

Consume(k) ==
    /\ phase[k] = "approved"
    /\ phase' = [phase EXCEPT ![k] = "consumed"]
    /\ UNCHANGED <<bound, performed>>

Perform(k) ==
    /\ phase[k] = "consumed"
    /\ performed[k] = {}
    /\ performed' = [performed EXCEPT ![k] = bound[k]]
    /\ UNCHANGED <<phase, bound>>

Next ==
    \E k \in Keys :
        \/ \E p \in Proposals : Propose(k, p)
        \/ \E d \in {"approved", "rejected"} : Decide(k, d)
        \/ Consume(k)
        \/ Perform(k)

Spec == Init /\ [][Next]_vars
=============================================================================
