-------------------------- MODULE MCSettlementFlow --------------------------
(***************************************************************************)
(* An instance of SettlementFlow for TLC: two transfers of one customer.   *)
(***************************************************************************)
EXTENDS SettlementFlow, TLC

CONSTANTS t1, t2, USD, NGN

\* t1 sends USD to NGN; t2 goes the other way.
CrossSendAccount == (t1 :> USD) @@ (t2 :> NGN)
CrossRecvAccount == (t1 :> NGN) @@ (t2 :> USD)

MCSend == (t1 :> 2) @@ (t2 :> 3)
MCRecv == (t1 :> 5) @@ (t2 :> 4)

\* Either account covers the transfer that debits it.
MCOpening == (USD :> 3) @@ (NGN :> 3)
=============================================================================
