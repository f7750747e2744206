------------------------- MODULE MCTransferCreation --------------------------
(***************************************************************************)
(* Instances of TransferCreation for TLC: a call and its retry with the    *)
(* same key, a call with another key for the same quote, and a call whose  *)
(* quote does not fit beside the first under the aggregate ceiling.        *)
(***************************************************************************)
EXTENDS TransferCreation, TLC

CONSTANTS first, retry, rival, second, alice, NGN, q1, q2

Calls ==
    (first  :> [customer |-> alice, key |-> 1, quote |-> q1]) @@
    (retry  :> [customer |-> alice, key |-> 1, quote |-> q1]) @@
    (rival  :> [customer |-> alice, key |-> 2, quote |-> q1]) @@
    (second :> [customer |-> alice, key |-> 3, quote |-> q2])

RequestCalls == [r \in Requests |-> Calls[r]]

QuoteTable ==
    (q1 :> [customer |-> alice, currency |-> NGN, amount |-> 2, expires |-> 1]) @@
    (q2 :> [customer |-> alice, currency |-> NGN, amount |-> 3, expires |-> 1])
=============================================================================
