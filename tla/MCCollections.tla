---------------------------- MODULE MCCollections ----------------------------
(***************************************************************************)
(* Instance of Collections for TLC: an NGN request with a concurrent       *)
(* replay of its key, and a USD request that both deposits quote.          *)
(***************************************************************************)
EXTENDS Collections, TLC

CONSTANTS ngn, replay, usd, d1, d2, k1, w1, w2

Keys == (ngn :> 1) @@ (replay :> 1) @@ (usd :> 2)
Memos == [d \in Deposits |-> usd]

\* Handlers differ in nothing, and neither do the deposits.
Interchangeable == Permutations({w1, w2}) \cup Permutations({d1, d2})
=============================================================================
