---------------------------- MODULE ServiceChain ----------------------------
(***************************************************************************)
(* What wrapping a service promises.  Over the firmware's own routine lies *)
(* a stack of wrappers; a call passes through all of them, the latest one  *)
(* first.  A wrapper goes on top, and goes away only when it is on top.    *)
(***************************************************************************)
EXTENDS Sequences

CONSTANTS Services, Wrappers

VARIABLE chain          \* service -> its wrappers, outermost first

TypeOk == chain \in [Services -> Seq(Wrappers)]

Init == chain = [s \in Services |-> <<>>]

Only(s) == chain' = [chain EXCEPT ![s] = chain'[s]]

Wrap(w, s) ==
    /\ chain'[s] = <<w>> \o chain[s]
    /\ \A i \in DOMAIN chain[s] : chain[s][i] # w
    /\ Only(s)

Unwrap(w, s) ==
    /\ chain[s] = <<w>> \o chain'[s]
    /\ Only(s)

Next == \E w \in Wrappers, s \in Services : Wrap(w, s) \/ Unwrap(w, s)

Spec == Init /\ [][Next]_chain
=============================================================================
