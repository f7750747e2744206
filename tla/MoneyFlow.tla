------------------------------ MODULE MoneyFlow ------------------------------
(***************************************************************************)
(* What the engine promises about the money of a transfer, whatever its    *)
(* status machine does: the customer's money is in one place at a time,    *)
(* moves only along Flow, leaves the customer at most once and comes back  *)
(* at most once.  TransferEngine implements this specification under the   *)
(* mapping of its ledger entries to places (TransferEngine!Place).         *)
(***************************************************************************)
CONSTANT Transfers

VARIABLE place     \* where the money of each transfer is

\* "customer": never debited.  "platform": debited, not converted.
\* "converted": held in the receive currency.  "beneficiary": paid out.
\* "returned": the conversion was undone.  "refunded": back with the customer.
Places == {"customer", "platform", "converted", "beneficiary", "returned", "refunded"}

\* Only money that was converted can be returned, and only returned or paid-out
\* money is refunded (a refund may undo the conversion in the same step).
Flow ==
    {<<"customer", "platform">>, <<"platform", "converted">>,
     <<"converted", "beneficiary">>, <<"converted", "returned">>,
     <<"converted", "refunded">>, <<"returned", "refunded">>,
     <<"beneficiary", "refunded">>}

Init == place = [t \in Transfers |-> "customer"]

Move(t, to) ==
    /\ <<place[t], to>> \in Flow
    /\ place' = [place EXCEPT ![t] = to]

Next == \E t \in Transfers, to \in Places : Move(t, to)

Spec == Init /\ [][Next]_place
=============================================================================
