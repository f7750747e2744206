-------------------------- MODULE MCTransferEngine --------------------------
(***************************************************************************)
(* Instances of TransferEngine for TLC: two transfers of one customer.     *)
(***************************************************************************)
EXTENDS TransferEngine, TLC

CONSTANTS t1, t2, USD, NGN

\* Both send USD to NGN.
SameSendAccount == (t1 :> USD) @@ (t2 :> USD)
SameRecvAccount == (t1 :> NGN) @@ (t2 :> NGN)

MCSend == (t1 :> 2) @@ (t2 :> 3)
MCRecv == (t1 :> 5) @@ (t2 :> 4)

\* 3 covers either transfer and not both.
MCOpening == (USD :> 3) @@ (NGN :> 3)
=============================================================================
