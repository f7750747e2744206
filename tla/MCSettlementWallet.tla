-------------------------- MODULE MCSettlementWallet --------------------------
(***************************************************************************)
(* Instance of SettlementWallet for TLC: a first purchase, a replay of its *)
(* key, a rival purchase, a conversion, and a transfer's debit.            *)
(***************************************************************************)
EXTENDS SettlementWallet, TLC

CONSTANTS buy, replay, rival, convert, debit

Keys == (buy :> 1) @@ (replay :> 1) @@ (rival :> 2) @@ (convert :> 3)
Kinds == (buy :> "BUY") @@ (replay :> "BUY") @@ (rival :> "BUY") @@ (convert :> "CONVERT")
Amounts == (buy :> 4) @@ (replay :> 4) @@ (rival :> 4) @@ (convert :> 1)
PostingAmounts == debit :> -2
Balances == [local |-> 8, usdc |-> 0]
=============================================================================
