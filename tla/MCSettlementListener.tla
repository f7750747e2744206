------------------------ MODULE MCSettlementListener ------------------------
(***************************************************************************)
(* Instances of SettlementListener for TLC: the lock and the cancel of one *)
(* transfer, the settlement of another, and an event of a foreign backend. *)
(***************************************************************************)
EXTENDS SettlementListener, TLC

CONSTANTS lockA, cancelA, settleB, foreign, l1, l2

Transfer == (lockA :> "A") @@ (cancelA :> "A") @@ (settleB :> "B") @@ (foreign :> "F")

\* The lock runs out at block 2.
Expiry == (lockA :> 2) @@ (cancelA :> 0) @@ (settleB :> 0) @@ (foreign :> 0)

\* A quote is cancelled after it was locked.
VaultOrder == {<<lockA, cancelA>>}
=============================================================================
