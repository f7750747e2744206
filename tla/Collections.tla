----------------------------- MODULE Collections -----------------------------
(***************************************************************************)
(* Collections (domain/collections.rs): payment requests, the partners'    *)
(* webhooks and the cancellation of a request, as concurrent calls that a  *)
(* timeout may drop at any await.  One customer; a collections row is      *)
(* named by the create call that inserted it, a Yellow Card receive by the *)
(* call that submitted it.                                                 *)
(*                                                                         *)
(* External: Yellow Card's receives, Bridge's account and deposits, and    *)
(* which webhooks the partners send, how often and in which order.         *)
(***************************************************************************)
EXTENDS Integers

CONSTANTS
    Requests, KeyOf, Receives, Deposits, MemoOf, NoRequest, NotRecorded,
    Cancels,        \* POST /collections/{id}/cancel calls
    Webhooks,       \* webhook handlers running at once
    NoCall

ASSUME CollectionsAssumption ==
    /\ Receives \subseteq Requests
    /\ MemoOf \in [Deposits -> Requests \cup {NoRequest}]
    /\ NoRequest \notin Requests /\ NotRecorded \notin Requests \cup {NoRequest}
    /\ NoCall \notin Requests \cup Cancels \cup Webhooks
    /\ Requests \cap (Cancels \cup Webhooks \cup Deposits) = {} /\ Cancels \cap Webhooks = {}

Payments == Receives \cup Deposits
Calls == Requests \cup Cancels \cup Webhooks

VARIABLES
    status,     \* collections.status of a call's row, "none" without one
    expired,    \* expires_at of the row has passed
    inbound,    \* inbound_payments: collection_id, NoRequest for null
    credits,    \* ledger entries with this inbound_payment_id
    locked,     \* the cancel call that holds the collections row
    pc,         \* where each call is
    local,      \* locals of cancels and webhooks: the payment a webhook is
                \* about, the request, and whether that had expired when the
                \* transaction began
    receive,    \* external: Yellow Card's receive of a call
    account,    \* Bridge's account: "none", "opened" there, "linked" here
    deposited,  \* external: processed deposits
    acked       \* history: confirmed payments whose webhook was answered 200

table == <<status, expired, inbound, credits>>
calls == <<pc, local, locked>>
partners == <<receive, account, deposited>>
vars == <<table, calls, partners, acked>>
-----------------------------------------------------------------------------
NoLocals == [payment |-> NotRecorded, request |-> NoRequest, late |-> FALSE]

Go(c, to) == pc' = [pc EXCEPT ![c] = to] /\ UNCHANGED <<local, locked>>

\* The call ends, its transaction too, and with it the row lock.
Finish(c) ==
    /\ pc' = [pc EXCEPT ![c] = IF c \in Webhooks THEN "idle" ELSE "done"]
    /\ local' = [local EXCEPT ![c] = NoLocals]
    /\ locked' = [r \in Requests |-> IF locked[r] = c THEN NoCall ELSE locked[r]]

\* find_by_key: a row with r's key is there.
key_exists(r) == \E o \in Requests : KeyOf[o] = KeyOf[r] /\ status[o] # "none"
-----------------------------------------------------------------------------
(* create_collection.                                                      *)

\* The lookup of the key; what the body asks for is valid.
CreateFind(r) ==
    /\ pc[r] = "start"
    /\ IF key_exists(r) THEN Finish(r) ELSE Go(r, "open")
    /\ UNCHANGED <<table, partners, acked>>

\* open_yellowcard: submit_receive, under a sequenceId of this call only.
OpenReceive(r) ==
    /\ pc[r] = "open"
    /\ r \in Receives
    /\ receive' = [receive EXCEPT ![r] = "open"]
    /\ Go(r, "insert")
    /\ UNCHANGED <<table, account, deposited, acked>>

\* cancel_receive with its result dropped: it may have failed.
CloseUnchecked(r) ==
    /\ \E s \in {"open", "cancelled"} : receive' = [receive EXCEPT ![r] = s]
    /\ Finish(r)
    /\ UNCHANGED <<table, account, deposited, acked>>

\* The receive came back without an account to pay into, and the call fails.
OpenWithoutBank(r) ==
    /\ pc[r] = "open"
    /\ r \in Receives
    /\ CloseUnchecked(r)

\* A USD request needs the linked account.
OpenBridge(r) ==
    /\ pc[r] = "open"
    /\ r \notin Receives
    /\ IF account = "linked" THEN Go(r, "insert") ELSE Finish(r)
    /\ UNCHANGED <<table, partners, acked>>

\* The insert and its commit.
Insert(r) ==
    /\ pc[r] = "insert"
    /\ ~key_exists(r)
    /\ status' = [status EXCEPT ![r] = "PENDING"]
    /\ Finish(r)
    /\ UNCHANGED <<expired, inbound, credits, partners, acked>>

\* on conflict do nothing: a concurrent call with the key committed first.
InsertConflicts(r) ==
    /\ pc[r] = "insert"
    /\ key_exists(r)
    /\ IF r \in Receives THEN Go(r, "close") ELSE Finish(r)
    /\ UNCHANGED <<table, partners, acked>>

\* ... and the receive this one opened is closed.
CloseReceive(r) ==
    /\ pc[r] = "close"
    /\ CloseUnchecked(r)
-----------------------------------------------------------------------------
(* cancel_collection.                                                      *)

\* The transaction begins: `now()` of its later queries is this instant.
CancelBegin(k, r) ==
    /\ pc[k] = "start"
    /\ status[r] # "none"
    /\ pc' = [pc EXCEPT ![k] = "lock"]
    /\ local' = [local EXCEPT ![k] = [@ EXCEPT !.request = r, !.late = expired[r]]]
    /\ UNCHANGED <<table, locked, partners, acked>>

\* The request a cancel or webhook works on; it reads as PENDING.
request(c) == local[c].request
Open(c) == status[request(c)] = "PENDING" /\ ~local[c].late

\* The request's row lock can be had.
RowFree(c) == request(c) \in Requests => locked[request(c)] = NoCall

\* owned_row waits for the row, finds the request pending, and keeps the lock.
CancelLock(k) ==
    /\ pc[k] = "lock"
    /\ RowFree(k)
    /\ Open(k)
    /\ locked' = [locked EXCEPT ![request(k)] = k]
    /\ pc' = [pc EXCEPT ![k] = IF request(k) \in Receives THEN "partner" ELSE "commit"]
    /\ UNCHANGED <<table, local, partners, acked>>

\* Mutant of CancelNotOpen: the derived EXPIRED is written back.
CancelNotOpenStored(k) ==
    /\ pc[k] = "lock"
    /\ RowFree(k)
    /\ ~Open(k)
    /\ status' = [status EXCEPT ![request(k)] = IF @ = "PENDING" THEN "EXPIRED" ELSE @]
    /\ Finish(k)
    /\ UNCHANGED <<expired, inbound, credits, partners, acked>>

\* It is cancelled, paid or expired: the call is over.
CancelNotOpen(k) ==
    /\ pc[k] = "lock"
    /\ RowFree(k)
    /\ ~Open(k)
    /\ Finish(k)
    /\ UNCHANGED <<table, partners, acked>>

\* cancel_receive: Yellow Card closes the receive, also one closed before.
CancelPartner(k) ==
    /\ pc[k] = "partner"
    /\ receive[request(k)] \in {"open", "cancelled"}
    /\ receive' = [receive EXCEPT ![request(k)] = "cancelled"]
    /\ Go(k, "commit")
    /\ UNCHANGED <<table, account, deposited, acked>>

\* Mutant of CancelRefused: `let _ = yc.cancel_receive(..)`.
CancelRefusedIgnored(k) ==
    /\ pc[k] = "partner"
    /\ Go(k, "commit")
    /\ UNCHANGED <<table, partners, acked>>

\* Yellow Card refuses or does not answer: the transaction rolls back.
CancelRefused(k) ==
    /\ pc[k] = "partner"
    /\ Finish(k)
    /\ UNCHANGED <<table, partners, acked>>

CancelCommit(k) ==
    /\ pc[k] = "commit"
    /\ status' = [status EXCEPT ![request(k)] = "CANCELLED"]
    /\ Finish(k)
    /\ UNCHANGED <<expired, inbound, credits, partners, acked>>
-----------------------------------------------------------------------------
(* receive_yellowcard and receive_bridge, and apply_inbound.               *)

payment(w) == local[w].payment

\* A partner delivers an event about p, for the first or any later time.
Deliver(w, p) ==
    /\ pc[w] = "idle"
    /\ p \in deposited \/ (p \in Receives /\ receive[p] # "none")
    /\ pc' = [pc EXCEPT ![w] = IF p \in Receives THEN "fetch" ELSE "find"]
    /\ local' = [local EXCEPT ![w].payment = p]
    /\ UNCHANGED <<table, locked, partners, acked>>

\* get_receive: the event is only a trigger, a receive that is not complete is
\* ignored.
GetReceive(w) ==
    /\ pc[w] = "fetch"
    /\ IF receive[payment(w)] = "complete" THEN Go(w, "find") ELSE Finish(w)
    /\ UNCHANGED <<table, partners, acked>>

\* The row of the receive, or the linked account of the deposit, is known.
Known(p) == IF p \in Receives THEN status[p] # "none" ELSE account = "linked"

\* Mutant of NotFound: answered 200 IGNORED.
NotFoundIgnored(w) ==
    /\ pc[w] = "find"
    /\ ~Known(payment(w))
    /\ acked' = acked \cup {payment(w)}
    /\ Finish(w)
    /\ UNCHANGED <<table, partners>>

\* Answered 404, so that the partner keeps the event.
NotFound(w) ==
    /\ pc[w] = "find"
    /\ ~Known(payment(w))
    /\ Finish(w)
    /\ UNCHANGED <<table, partners, acked>>

\* The request a payment is for: the receive's, or the USD request its memo quotes.
RequestFor(p) ==
    IF p \in Receives THEN p
    ELSE IF MemoOf[p] \in {r \in Requests \ Receives : status[r] # "none"}
           THEN MemoOf[p] ELSE NoRequest

\* The request is looked up and apply_inbound's transaction begins. (Rows and
\* links only appear and expiries only pass, so one instant stands for both.)
Find(w) ==
    /\ pc[w] = "find"
    /\ Known(payment(w))
    /\ LET r == RequestFor(payment(w))
       IN  local' = [local EXCEPT ![w] = [@ EXCEPT !.request = r,
                                                   !.late = r \in Requests /\ expired[r]]]
    /\ pc' = [pc EXCEPT ![w] = "apply"]
    /\ UNCHANGED <<table, locked, partners, acked>>

\* Mutant of Settles: `expires_at > now()` is not asked.
SettlesLate(w) ==
    /\ request(w) # NoRequest
    /\ \A p \in Payments : inbound[p] # request(w)
    /\ payment(w) \in Receives \/ status[request(w)] = "PENDING"

\* apply_inbound `settles`: the request is unpaid, and open unless the payment
\* settles_closed.
Settles(w) ==
    /\ request(w) # NoRequest
    /\ \A p \in Payments : inbound[p] # request(w)
    /\ payment(w) \in Receives \/ Open(w)

\* The row lock, the payment row, the credit, PAID and the commit.
Apply(w) ==
    /\ pc[w] = "apply"
    /\ RowFree(w)
    /\ inbound[payment(w)] = NotRecorded
    /\ inbound' = [inbound EXCEPT ![payment(w)] = IF Settles(w) THEN request(w) ELSE NoRequest]
    /\ credits' = [credits EXCEPT ![payment(w)] = @ + 1]
    /\ status' = [r \in Requests |-> IF Settles(w) /\ r = request(w) THEN "PAID" ELSE status[r]]
    /\ acked' = acked \cup {payment(w)}
    /\ Finish(w)
    /\ UNCHANGED <<expired, partners>>

\* on conflict (provider, provider_payment_id) do nothing: a redelivery.
ApplyDuplicate(w) ==
    /\ pc[w] = "apply"
    /\ RowFree(w)
    /\ inbound[payment(w)] # NotRecorded
    /\ acked' = acked \cup {payment(w)}
    /\ Finish(w)
    /\ UNCHANGED <<table, partners>>
-----------------------------------------------------------------------------
\* enforce_timeout, a lost connection, a database error or a crash ends a call
\* at any await: an open transaction rolls back, what a partner did stays.
Dropped(c) ==
    /\ pc[c] \notin {"start", "done", "idle"}
    /\ Finish(c)
    /\ UNCHANGED <<table, partners, acked>>

Expire(r) ==
    /\ status[r] # "none"
    /\ ~expired[r]
    /\ expired' = [expired EXCEPT ![r] = TRUE]
    /\ UNCHANGED <<status, inbound, credits, calls, partners, acked>>

\* The payer, who has the instructions of a stored request, pays; a transfer
\* made before the receive was cancelled may still complete it.
PayReceive(r) ==
    /\ status[r] # "none"
    /\ receive[r] \in {"open", "cancelled"}
    /\ receive' = [receive EXCEPT ![r] = "complete"]
    /\ UNCHANGED <<table, calls, account, deposited, acked>>

Deposit(d) ==
    /\ account # "none"
    /\ deposited' = deposited \cup {d}
    /\ UNCHANGED <<table, calls, receive, account, acked>>

\* link_bridge_account: create_virtual_account, whose idempotency key names the
\* customer, and then the row; a crash in between is made good by a second run.
LinkBridge ==
    /\ account # "linked"
    /\ account' = IF account = "none" THEN "opened" ELSE "linked"
    /\ UNCHANGED <<table, calls, receive, deposited, acked>>
-----------------------------------------------------------------------------
Init ==
    /\ status = [r \in Requests |-> "none"]
    /\ expired = [r \in Requests |-> FALSE]
    /\ inbound = [p \in Payments |-> NotRecorded]
    /\ credits = [p \in Payments |-> 0]
    /\ locked = [r \in Requests |-> NoCall]
    /\ pc = [c \in Calls |-> IF c \in Webhooks THEN "idle" ELSE "start"]
    /\ local = [c \in Calls |-> NoLocals]
    /\ receive = [r \in Receives |-> "none"]
    /\ account = "none"
    /\ deposited = {}
    /\ acked = {}

Create(r) ==
    \/ CreateFind(r) \/ OpenReceive(r) \/ OpenWithoutBank(r) \/ OpenBridge(r)
    \/ Insert(r) \/ InsertConflicts(r) \/ CloseReceive(r)

Cancel(k) ==
    \/ \E r \in Requests : CancelBegin(k, r)
    \/ CancelLock(k) \/ CancelNotOpen(k)
    \/ CancelPartner(k) \/ CancelRefused(k) \/ CancelCommit(k)

Webhook(w) ==
    \/ \E p \in Payments : Deliver(w, p)
    \/ GetReceive(w) \/ NotFound(w) \/ Find(w) \/ Apply(w) \/ ApplyDuplicate(w)

Next ==
    \/ \E r \in Requests : Create(r) \/ Expire(r)
    \/ \E r \in Receives : PayReceive(r)
    \/ \E k \in Cancels : Cancel(k)
    \/ \E w \in Webhooks : Webhook(w)
    \/ \E c \in Calls : Dropped(c)
    \/ \E d \in Deposits : Deposit(d)
    \/ LinkBridge

Spec == Init /\ [][Next]_vars
-----------------------------------------------------------------------------
\* Type invariant of the rows and the calls. EXPIRED is "never stored".
TypeOK ==
    /\ status \in [Requests -> {"none", "PENDING", "PAID", "CANCELLED"}]
    /\ expired \in [Requests -> BOOLEAN]
    /\ inbound \in [Payments -> Requests \cup {NoRequest, NotRecorded}]
    /\ credits \in [Payments -> Nat]
    /\ locked \in [Requests -> Cancels \cup {NoCall}]
    /\ pc \in [Calls -> {"start", "open", "insert", "close", "lock", "partner", "commit",
                         "idle", "fetch", "find", "apply", "done"}]
    /\ local \in [Calls -> [payment : Payments \cup {NotRecorded},
                            request : Requests \cup {NoRequest}, late : BOOLEAN]]
    /\ receive \in [Receives -> {"none", "open", "complete", "cancelled"}]
    /\ account \in {"none", "opened", "linked"}
    /\ deposited \subseteq Deposits
    /\ acked \subseteq Payments

\* The webhook is about to credit p, in a transaction that began before the
\* request p quotes expired.
AppliesInTime(w, p) ==
    pc[w] = "apply" /\ payment(w) = p /\ request(w) \in Requests /\ ~local[w].late

InTime == {d \in Deposits : \E w \in Webhooks : AppliesInTime(w, d)}

Inbound == INSTANCE InboundLedger
             WITH confirmed <- deposited \cup {r \in Receives : receive[r] = "complete"},
                  admitted <- InTime

\* However calls, webhooks, redeliveries and losses interleave: confirmed money
\* is credited once and only then, a request is settled by one payment meant
\* for it, a cancellation never overwrites a payment, and a late deposit, one
\* whose transaction begins after the request expired, does not reopen it.
InboundLedgerSpec == Inbound!Spec

\* "Close the partner side first, holding the row lock, so a payment can't land
\* between the two": no cancelled request has a receive that still takes money.
CancelledIsClosed ==
    \A r \in Receives : status[r] = "CANCELLED" => receive[r] # "open"

\* "Money a partner confirms is always credited": the webhook of a confirmed
\* payment is acknowledged only once the payment is credited, so a payment that
\* met a missing row or a lost call is delivered again.
AckedIsCredited == \A p \in acked : credits[p] = 1
=============================================================================
