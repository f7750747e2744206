---------------------------- MODULE InboundLedger ----------------------------
(***************************************************************************)
(* What collections promise about inbound money: a payment a partner       *)
(* confirmed is credited once and a payment nobody confirmed never is; a   *)
(* request is paid by one payment that was meant for it; a deposit pays    *)
(* only an open request, pending still and not expired when the deposit    *)
(* came up for crediting; one request per key.                             *)
(***************************************************************************)
EXTENDS Naturals

CONSTANTS
    Requests,           \* create calls; a request is named by its call
    KeyOf,              \* [Requests -> idempotency keys]
    Receives,           \* the NGN requests: each has a receive of its own, and
                        \* the payment into it has the request's name
    Deposits,           \* Bridge deposits
    MemoOf,             \* [Deposits -> the request it quotes, or NoRequest]
    NoRequest,
    NotRecorded         \* inbound of a payment without a row

Payments == Receives \cup Deposits

VARIABLES
    confirmed,  \* payments the partners confirmed
    status,     \* [Requests -> "none", "PENDING", "PAID", "CANCELLED"]
    expired,    \* [Requests -> BOOLEAN]
    admitted,   \* deposits up for crediting, whose request had not expired by then
    inbound,    \* [Payments -> the request it paid, NoRequest or NotRecorded]
    credits     \* [Payments -> ledger credits pointing at it]

vars == <<confirmed, status, expired, admitted, inbound, credits>>

Init ==
    /\ confirmed = {}
    /\ status = [r \in Requests |-> "none"]
    /\ expired = [r \in Requests |-> FALSE]
    /\ admitted = {}
    /\ inbound = [p \in Payments |-> NotRecorded]
    /\ credits = [p \in Payments |-> 0]

Create(r) ==
    /\ \A o \in Requests : KeyOf[o] = KeyOf[r] => status[o] = "none"
    /\ status' = [status EXCEPT ![r] = "PENDING"]
    /\ UNCHANGED <<confirmed, expired, admitted, inbound, credits>>

Cancel(r) ==
    /\ status[r] = "PENDING"
    /\ status' = [status EXCEPT ![r] = "CANCELLED"]
    /\ UNCHANGED <<confirmed, expired, admitted, inbound, credits>>

\* A request's time runs out, once and for all.
Expire(r) ==
    /\ status[r] # "none"
    /\ expired' = [expired EXCEPT ![r] = TRUE]
    /\ UNCHANGED <<confirmed, status, admitted, inbound, credits>>

\* A deposit that quotes a request comes up for crediting in time ...
Admit(d) ==
    /\ MemoOf[d] \in Requests \ Receives
    /\ status[MemoOf[d]] # "none"
    /\ ~expired[MemoOf[d]]
    /\ admitted' = admitted \cup {d}
    /\ UNCHANGED <<confirmed, status, expired, inbound, credits>>

\* ... and is put off, because that failed or was not needed: the next attempt
\* has to be in time again.
PutOff(d) ==
    /\ admitted' = admitted \ {d}
    /\ UNCHANGED <<confirmed, status, expired, inbound, credits>>

Confirm(p) ==
    /\ confirmed' = confirmed \cup {p}
    /\ UNCHANGED <<status, expired, admitted, inbound, credits>>

Credit(p, r) ==
    /\ p \in confirmed
    /\ inbound[p] = NotRecorded
    /\ inbound' = [inbound EXCEPT ![p] = r]
    /\ credits' = [credits EXCEPT ![p] = @ + 1]
    /\ UNCHANGED <<confirmed, expired>>

\* The payment into a receive pays its request, cancelled or not.
CreditReceive(r) ==
    /\ Credit(r, r)
    /\ status[r] \in {"PENDING", "CANCELLED"}
    /\ status' = [status EXCEPT ![r] = "PAID"]
    /\ UNCHANGED admitted

\* A deposit pays the open request it quotes; any other is the customer's too.
CreditDeposit(d) ==
    /\ \/ Credit(d, NoRequest) /\ UNCHANGED status
       \/ /\ Credit(d, MemoOf[d])
          /\ d \in admitted
          /\ status[MemoOf[d]] = "PENDING"
          /\ status' = [status EXCEPT ![MemoOf[d]] = "PAID"]
    /\ admitted' \in {admitted, admitted \ {d}}

Next ==
    \/ \E r \in Requests : Create(r) \/ Cancel(r) \/ Expire(r)
    \/ \E p \in Payments : Confirm(p)
    \/ \E r \in Receives : CreditReceive(r)
    \/ \E d \in Deposits : Admit(d) \/ PutOff(d) \/ CreditDeposit(d)

Spec == Init /\ [][Next]_vars
=============================================================================
