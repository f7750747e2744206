---------------------------- MODULE TransferBook -----------------------------
(***************************************************************************)
(* What POST /transfers promises, as if every create were one step: a key  *)
(* makes at most one transfer of its customer, a quote is used once, and a *)
(* transfer is created only within the customer's two ceilings.            *)
(***************************************************************************)
EXTENDS Integers, FiniteSetsExt

CONSTANTS
    Requests,       \* create calls; a transfer is named by the call that made it
    RequestOf,      \* [Requests -> [customer, key, quote]]
    QuoteOf,        \* [quotes -> [customer, currency, amount, expires]]
    MaxAggregate,   \* the customer's aggregate exposure ceiling
    Customers, Limits

VARIABLES
    status,     \* [Requests -> "none", "open", "completed", "reversing", "final"]
    limit       \* [Customers -> Limits], the per-transfer ceiling

Amount(r) == QuoteOf[RequestOf[r].quote].amount

\* The transfers of r's customer and currency that were never closed.
OpenBeside(r) ==
    {o \in Requests :
        /\ status[o] = "open"
        /\ RequestOf[o].customer = RequestOf[r].customer
        /\ QuoteOf[RequestOf[o].quote].currency = QuoteOf[RequestOf[r].quote].currency}

Init ==
    /\ status = [r \in Requests |-> "none"]
    /\ limit \in [Customers -> Limits]

Create(r) ==
    /\ \A o \in Requests : status[o] # "none" =>
          /\ RequestOf[o].quote # RequestOf[r].quote
          /\ <<RequestOf[o].customer, RequestOf[o].key>>
                # <<RequestOf[r].customer, RequestOf[r].key>>
    /\ Amount(r) <= limit[RequestOf[r].customer]
    /\ MapThenSumSet(Amount, OpenBeside(r)) + Amount(r) <= MaxAggregate
    /\ status' = [status EXCEPT ![r] = "open"]
    /\ UNCHANGED limit

\* A transfer closes; a completed one may be reversed, which reopens it.
Moves == {<<"open", "completed">>, <<"open", "final">>,
          <<"completed", "reversing">>, <<"reversing", "final">>}

Move(r) ==
    /\ \E m \in Moves : status[r] = m[1] /\ status' = [status EXCEPT ![r] = m[2]]
    /\ UNCHANGED limit

SetLimit(c) ==
    /\ \E n \in Limits : limit' = [limit EXCEPT ![c] = n]
    /\ UNCHANGED status

Next ==
    \/ \E r \in Requests : Create(r) \/ Move(r)
    \/ \E c \in Customers : SetLimit(c)

Spec == Init /\ [][Next]_<<status, limit>>
=============================================================================
