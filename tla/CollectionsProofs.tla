--------------------------- MODULE CollectionsProofs ---------------------------
(***************************************************************************)
(* Proofs about Collections for every set of calls, keys, receives,        *)
(* deposits and memos: what a partner confirmed is credited once and       *)
(* acknowledged only then, and a cancelled request has no open receive.    *)
(***************************************************************************)
EXTENDS Collections, TLAPS

Confirmed == deposited \cup {r \in Receives : receive[r] = "complete"}

\* A row's call is over, so it never touches the receive again; a receive is
\* paid only when there is a row; a cancelled one takes no money.
CreateAt(r) ==
    /\ pc[r] \in {"start", "open", "insert", "close", "done"}
    /\ status[r] # "none" => pc[r] = "done"
    /\ status[r] = "PAID" => \E p \in Payments : inbound[p] = r
    /\ r \in Receives =>
          /\ pc[r] \in {"start", "open"} => receive[r] = "none"
          /\ receive[r] = "complete" => status[r] # "none"
          /\ status[r] = "CANCELLED" => receive[r] # "open"

\* A cancel that is past the lock has the row, which stays pending, and at its
\* commit the receive is closed.
CancelAt(k) ==
    /\ pc[k] \in {"start", "lock", "partner", "commit", "done"}
    /\ pc[k] \in {"lock", "partner", "commit"} =>
          request(k) \in Requests /\ status[request(k)] # "none"
    /\ pc[k] \in {"partner", "commit"} =>
          locked[request(k)] = k /\ status[request(k)] = "PENDING"
    /\ pc[k] = "partner" => request(k) \in Receives
    /\ pc[k] = "commit" /\ request(k) \in Receives => receive[request(k)] # "open"

\* A webhook that looks for its request has a confirmed payment, and the request
\* it finds is the one the payment was meant for.
WebhookAt(w) ==
    /\ pc[w] \in {"idle", "fetch", "find", "apply"}
    /\ pc[w] = "fetch" => payment(w) \in Receives
    /\ pc[w] \in {"find", "apply"} => payment(w) \in Confirmed
    /\ pc[w] = "apply" /\ payment(w) \in Receives => request(w) = payment(w)
    /\ pc[w] = "apply" /\ payment(w) \in Deposits =>
          \/ request(w) = NoRequest
          \/ request(w) \in Requests \ Receives /\ request(w) = MemoOf[payment(w)]

\* A payment row has its one ledger credit, and points at the request it was
\* meant for or at none; only those with a row are acknowledged.
PaymentAt(p) ==
    /\ credits[p] = IF inbound[p] = NotRecorded THEN 0 ELSE 1
    /\ p \in acked => inbound[p] # NotRecorded
    /\ p \in Receives => inbound[p] \in {NotRecorded, p}
    /\ p \in Deposits => inbound[p] \in {NotRecorded, NoRequest} \cup (Requests \ Receives)

IInv ==
    /\ TypeOK
    /\ \A r \in Requests : CreateAt(r)
    /\ \A k \in Cancels : CancelAt(k)
    /\ \A w \in Webhooks : WebhookAt(w)
    /\ \A p \in Payments : PaymentAt(p)
-----------------------------------------------------------------------------
(* What ends a call.                                                       *)

\* Finish frees the row the call held and forgets its locals.
LEMMA FinishDoes ==
    ASSUME TypeOK, NEW c \in Calls, Finish(c)
    PROVE  /\ pc' = [pc EXCEPT ![c] = IF c \in Webhooks THEN "idle" ELSE "done"]
           /\ local' = [local EXCEPT ![c] = NoLocals]
           /\ locked' \in [Requests -> Cancels \cup {NoCall}]
           /\ \A r \in Requests : locked[r] # c => locked'[r] = locked[r]
           /\ NoLocals \in [payment : Payments \cup {NotRecorded},
                            request : Requests \cup {NoRequest}, late : BOOLEAN]
  BY DEF Finish, TypeOK, NoLocals

\* What is left is of the right type.
LEMMA FinishTyped ==
    ASSUME TypeOK, NEW c \in Calls, Finish(c)
    PROVE  /\ pc' \in [Calls -> {"start", "open", "insert", "close", "lock", "partner", "commit",
                                 "idle", "fetch", "find", "apply", "done"}]
           /\ local' \in [Calls -> [payment : Payments \cup {NotRecorded},
                                    request : Requests \cup {NoRequest}, late : BOOLEAN]]
           /\ locked' \in [Requests -> Cancels \cup {NoCall}]
  BY FinishDoes DEF TypeOK

\* The calls of one kind are none of another.
LEMMA Kinds ==
    /\ \A r \in Requests : r \in Calls /\ r \notin Cancels /\ r \notin Webhooks /\ r \notin Deposits
    /\ \A k \in Cancels : k \in Calls /\ k \notin Requests /\ k \notin Webhooks
    /\ \A w \in Webhooks : w \in Calls /\ w \notin Requests /\ w \notin Cancels
    /\ \A r \in Receives : r \in Requests /\ r \in Payments
    /\ \A d \in Deposits : d \in Payments /\ d \notin Receives
    /\ NoRequest \notin Requests /\ NotRecorded \notin Requests /\ NotRecorded # NoRequest
    /\ NoCall \notin Calls
  BY CollectionsAssumption DEF Calls, Payments
-----------------------------------------------------------------------------
\* The invariant holds initially.
LEMMA InitInv == Init => IInv
  BY Kinds DEF Init, IInv, TypeOK, CreateAt, CancelAt, WebhookAt, PaymentAt, NoLocals, Calls,
     Payments, Confirmed, payment, request
-----------------------------------------------------------------------------
(* The steps.                                                              *)

\* Each action preserves the invariant.
LEMMA CreateFindInv ==
    ASSUME IInv, NEW r \in Requests, CreateFind(r)
    PROVE  IInv'
  <1>1. TypeOK'
    <2>1. TypeOK /\ r \in Calls /\ UNCHANGED <<table, partners, acked>>
      BY Kinds DEF CreateFind, IInv
    <2>2. CASE Finish(r)
      BY <2>1, <2>2, FinishTyped DEF TypeOK, table, partners
    <2>3. CASE Go(r, "open")
      BY <2>1, <2>3 DEF Go, TypeOK, table, partners
    <2> QED BY <2>2, <2>3 DEF CreateFind
  <1>2. ASSUME NEW q \in Requests PROVE CreateAt(q)'
    BY Kinds, FinishDoes, SMTT(40) DEF CreateFind, Go, table, partners, IInv, payment, request, TypeOK, CreateAt, WebhookAt, PaymentAt, Confirmed, Calls, Payments
  <1>3. ASSUME NEW q \in Cancels PROVE CancelAt(q)'
    BY Kinds, FinishDoes, SMTT(40) DEF CreateFind, Go, table, partners, IInv, payment, request, TypeOK, CancelAt, CreateAt, WebhookAt, Calls, Payments
  <1>4. ASSUME NEW q \in Webhooks PROVE WebhookAt(q)'
    BY Kinds, FinishDoes, SMTT(40) DEF CreateFind, Go, table, partners, IInv, payment, request, TypeOK, WebhookAt, CreateAt, Confirmed, Calls, Payments
  <1>5. ASSUME NEW q \in Payments PROVE PaymentAt(q)'
    BY Kinds, FinishDoes, SMTT(40) DEF CreateFind, Go, table, partners, IInv, payment, request, TypeOK, PaymentAt, WebhookAt, Calls, Payments
  <1> QED BY <1>1, <1>2, <1>3, <1>4, <1>5 DEF IInv

LEMMA OpenReceiveInv ==
    ASSUME IInv, NEW r \in Requests, OpenReceive(r)
    PROVE  IInv'
  BY Kinds, FinishDoes, SMTT(40) DEF OpenReceive, Go, table, IInv, payment, request, TypeOK, CreateAt, CancelAt, WebhookAt, PaymentAt,
     Confirmed, Calls, Payments

LEMMA OpenWithoutBankInv ==
    ASSUME IInv, NEW r \in Requests, OpenWithoutBank(r)
    PROVE  IInv'
  <1>1. TypeOK'
    BY Kinds, FinishTyped, FinishDoes, SMTT(40) DEF OpenWithoutBank, CloseUnchecked, table, partners, IInv, payment, request, TypeOK, Calls, Payments
  <1>2. ASSUME NEW q \in Requests PROVE CreateAt(q)'
    BY Kinds, FinishDoes, SMTT(40) DEF OpenWithoutBank, CloseUnchecked, table, partners, IInv, payment, request, TypeOK, CreateAt, WebhookAt, PaymentAt, Confirmed, Calls, Payments
  <1>3. ASSUME NEW q \in Cancels PROVE CancelAt(q)'
    BY Kinds, FinishDoes, SMTT(40) DEF OpenWithoutBank, CloseUnchecked, table, partners, IInv, payment, request, TypeOK, CancelAt, CreateAt, WebhookAt, Calls, Payments
  <1>4. ASSUME NEW q \in Webhooks PROVE WebhookAt(q)'
    BY Kinds, FinishDoes, SMTT(40) DEF OpenWithoutBank, CloseUnchecked, table, partners, IInv, payment, request, TypeOK, WebhookAt, CreateAt, Confirmed, Calls, Payments
  <1>5. ASSUME NEW q \in Payments PROVE PaymentAt(q)'
    BY Kinds, FinishDoes, SMTT(40) DEF OpenWithoutBank, CloseUnchecked, table, partners, IInv, payment, request, TypeOK, PaymentAt, WebhookAt, Calls, Payments
  <1> QED BY <1>1, <1>2, <1>3, <1>4, <1>5 DEF IInv

LEMMA OpenBridgeInv ==
    ASSUME IInv, NEW r \in Requests, OpenBridge(r)
    PROVE  IInv'
  <1>1. TypeOK'
    BY Kinds, FinishTyped, FinishDoes, SMTT(40) DEF OpenBridge, Go, table, partners, IInv, payment, request, TypeOK, Calls, Payments
  <1>2. ASSUME NEW q \in Requests PROVE CreateAt(q)'
    BY Kinds, FinishDoes, SMTT(40) DEF OpenBridge, Go, table, partners, IInv, payment, request, TypeOK, CreateAt, WebhookAt, PaymentAt, Confirmed, Calls, Payments
  <1>3. ASSUME NEW q \in Cancels PROVE CancelAt(q)'
    BY Kinds, FinishDoes, SMTT(40) DEF OpenBridge, Go, table, partners, IInv, payment, request, TypeOK, CancelAt, CreateAt, WebhookAt, Calls, Payments
  <1>4. ASSUME NEW q \in Webhooks PROVE WebhookAt(q)'
    BY Kinds, FinishDoes, SMTT(40) DEF OpenBridge, Go, table, partners, IInv, payment, request, TypeOK, WebhookAt, CreateAt, Confirmed, Calls, Payments
  <1>5. ASSUME NEW q \in Payments PROVE PaymentAt(q)'
    BY Kinds, FinishDoes, SMTT(40) DEF OpenBridge, Go, table, partners, IInv, payment, request, TypeOK, PaymentAt, WebhookAt, Calls, Payments
  <1> QED BY <1>1, <1>2, <1>3, <1>4, <1>5 DEF IInv

LEMMA InsertInv ==
    ASSUME IInv, NEW r \in Requests, Insert(r)
    PROVE  IInv'
  <1>1. TypeOK'
    BY Kinds, FinishTyped, SMTT(40) DEF Insert, key_exists, partners, IInv, payment, request, TypeOK, Calls, Payments
  <1>2. ASSUME NEW q \in Requests PROVE CreateAt(q)'
    BY Kinds, FinishDoes, SMTT(40) DEF Insert, key_exists, partners, IInv, payment, request, TypeOK, CreateAt, WebhookAt, PaymentAt, Confirmed, Calls, Payments
  <1>3. ASSUME NEW q \in Cancels PROVE CancelAt(q)'
    BY Kinds, FinishDoes, SMTT(40) DEF Insert, key_exists, partners, IInv, payment, request, TypeOK, CancelAt, CreateAt, WebhookAt, Calls, Payments
  <1>4. ASSUME NEW q \in Webhooks PROVE WebhookAt(q)'
    BY Kinds, FinishDoes, SMTT(40) DEF Insert, key_exists, partners, IInv, payment, request, TypeOK, WebhookAt, CreateAt, Confirmed, Calls, Payments
  <1>5. ASSUME NEW q \in Payments PROVE PaymentAt(q)'
    BY Kinds, FinishDoes, SMTT(40) DEF Insert, key_exists, partners, IInv, payment, request, TypeOK, PaymentAt, WebhookAt, Calls, Payments
  <1> QED BY <1>1, <1>2, <1>3, <1>4, <1>5 DEF IInv

LEMMA InsertConflictsInv ==
    ASSUME IInv, NEW r \in Requests, InsertConflicts(r)
    PROVE  IInv'
  <1>1. TypeOK'
    BY Kinds, FinishTyped, SMTT(40) DEF InsertConflicts, Go, table, partners, IInv, payment, request, TypeOK, Calls, Payments
  <1>2. ASSUME NEW q \in Requests PROVE CreateAt(q)'
    BY Kinds, FinishDoes, SMTT(40) DEF InsertConflicts, Go, table, partners, IInv, payment, request, TypeOK, CreateAt, WebhookAt, PaymentAt, Confirmed, Calls, Payments
  <1>3. ASSUME NEW q \in Cancels PROVE CancelAt(q)'
    BY Kinds, FinishDoes, SMTT(40) DEF InsertConflicts, Go, table, partners, IInv, payment, request, TypeOK, CancelAt, CreateAt, WebhookAt, Calls, Payments
  <1>4. ASSUME NEW q \in Webhooks PROVE WebhookAt(q)'
    BY Kinds, FinishDoes, SMTT(40) DEF InsertConflicts, Go, table, partners, IInv, payment, request, TypeOK, WebhookAt, CreateAt, Confirmed, Calls, Payments
  <1>5. ASSUME NEW q \in Payments PROVE PaymentAt(q)'
    BY Kinds, FinishDoes, SMTT(40) DEF InsertConflicts, Go, table, partners, IInv, payment, request, TypeOK, PaymentAt, WebhookAt, Calls, Payments
  <1> QED BY <1>1, <1>2, <1>3, <1>4, <1>5 DEF IInv

LEMMA CloseReceiveInv ==
    ASSUME IInv, NEW r \in Requests, CloseReceive(r)
    PROVE  IInv'
  <1>1. TypeOK'
    <2>1. receive' \in [Receives -> {"none", "open", "complete", "cancelled"}]
      BY DEF CloseReceive, CloseUnchecked, IInv, TypeOK
    <2>2. Finish(r) /\ UNCHANGED <<table, account, deposited, acked>>
      BY DEF CloseReceive, CloseUnchecked
    <2> QED BY <2>1, <2>2, Kinds, FinishTyped DEF IInv, TypeOK, table
  <1>2. ASSUME NEW q \in Requests PROVE CreateAt(q)'
    BY Kinds, FinishDoes, SMTT(40) DEF CloseReceive, CloseUnchecked, table, IInv, payment, request, TypeOK, CreateAt, WebhookAt, PaymentAt, Confirmed, Calls, Payments
  <1>3. ASSUME NEW q \in Cancels PROVE CancelAt(q)'
    BY Kinds, FinishDoes, SMTT(40) DEF CloseReceive, CloseUnchecked, table, IInv, payment, request, TypeOK, CancelAt, CreateAt, WebhookAt, Calls, Payments
  <1>4. ASSUME NEW q \in Webhooks PROVE WebhookAt(q)'
    BY Kinds, FinishDoes, SMTT(40) DEF CloseReceive, CloseUnchecked, table, IInv, payment, request, TypeOK, WebhookAt, CreateAt, Confirmed, Calls, Payments
  <1>5. ASSUME NEW q \in Payments PROVE PaymentAt(q)'
    BY Kinds, FinishDoes, SMTT(40) DEF CloseReceive, CloseUnchecked, table, IInv, payment, request, TypeOK, PaymentAt, WebhookAt, Calls, Payments
  <1> QED BY <1>1, <1>2, <1>3, <1>4, <1>5 DEF IInv

LEMMA CancelBeginInv ==
    ASSUME IInv, NEW k \in Cancels, NEW r \in Requests, CancelBegin(k, r)
    PROVE  IInv'
  <1>1. local' = [local EXCEPT ![k] = [@ EXCEPT !.request = r, !.late = expired[r]]]
    BY DEF CancelBegin
  <1>2. /\ pc' = [pc EXCEPT ![k] = "lock"] /\ pc[k] = "start" /\ status[r] # "none"
        /\ UNCHANGED <<table, locked, partners, acked>>
    BY DEF CancelBegin
  <1>3. TypeOK'
    <2>1. expired[r] \in BOOLEAN
      BY DEF IInv, TypeOK
    <2>2. local' \in [Calls -> [payment : Payments \cup {NotRecorded},
                               request : Requests \cup {NoRequest}, late : BOOLEAN]]
      <3>1. local \in [Calls -> [payment : Payments \cup {NotRecorded},
                                 request : Requests \cup {NoRequest}, late : BOOLEAN]]
        BY DEF IInv, TypeOK
      <3> QED BY <1>1, <2>1, <3>1
    <2> QED BY <1>2, <2>2 DEF IInv, TypeOK, table, partners
  <1>4. /\ local'[k].request = r
        /\ \A c \in Calls : c # k => local'[c] = local[c]
    BY <1>1, Kinds DEF IInv, TypeOK
  <1>5. ASSUME NEW q \in Requests PROVE CreateAt(q)'
    BY <1>2, Kinds DEF table, partners, IInv, TypeOK, CreateAt, Calls, Payments
  <1>6. ASSUME NEW q \in Cancels PROVE CancelAt(q)'
    BY <1>2, <1>4, Kinds DEF table, partners, IInv, TypeOK, CancelAt, request, Calls
  <1>7. ASSUME NEW q \in Webhooks PROVE WebhookAt(q)'
    BY <1>2, <1>4, Kinds DEF table, partners, IInv, TypeOK, WebhookAt, request, payment, Confirmed, Calls
  <1>8. ASSUME NEW q \in Payments PROVE PaymentAt(q)'
    BY <1>2, Kinds DEF table, partners, IInv, PaymentAt
  <1> QED BY <1>3, <1>5, <1>6, <1>7, <1>8 DEF IInv

LEMMA CancelLockInv ==
    ASSUME IInv, NEW k \in Cancels, CancelLock(k)
    PROVE  IInv'
  BY Kinds, FinishDoes, SMTT(40) DEF CancelLock, RowFree, Open, table, partners, IInv, payment, request, TypeOK, CreateAt, CancelAt, WebhookAt, PaymentAt,
     Confirmed, Calls, Payments

LEMMA CancelNotOpenInv ==
    ASSUME IInv, NEW k \in Cancels, CancelNotOpen(k)
    PROVE  IInv'
  <1>1. TypeOK'
    BY Kinds, FinishTyped, SMTT(40) DEF CancelNotOpen, table, partners, IInv, payment, request, TypeOK, Calls, Payments
  <1>2. ASSUME NEW q \in Requests PROVE CreateAt(q)'
    BY Kinds, FinishDoes, SMTT(40) DEF CancelNotOpen, table, partners, IInv, payment, request, TypeOK, CreateAt, WebhookAt, PaymentAt, Confirmed, Calls, Payments
  <1>3. ASSUME NEW q \in Cancels PROVE CancelAt(q)'
    BY Kinds, FinishDoes, SMTT(40) DEF CancelNotOpen, table, partners, IInv, payment, request, TypeOK, CancelAt, CreateAt, WebhookAt, Calls, Payments
  <1>4. ASSUME NEW q \in Webhooks PROVE WebhookAt(q)'
    BY Kinds, FinishDoes, SMTT(40) DEF CancelNotOpen, table, partners, IInv, payment, request, TypeOK, WebhookAt, CreateAt, Confirmed, Calls, Payments
  <1>5. ASSUME NEW q \in Payments PROVE PaymentAt(q)'
    BY Kinds, FinishDoes, SMTT(40) DEF CancelNotOpen, table, partners, IInv, payment, request, TypeOK, PaymentAt, WebhookAt, Calls, Payments
  <1> QED BY <1>1, <1>2, <1>3, <1>4, <1>5 DEF IInv

LEMMA CancelPartnerInv ==
    ASSUME IInv, NEW k \in Cancels, CancelPartner(k)
    PROVE  IInv'
  BY Kinds, FinishDoes, SMTT(40) DEF CancelPartner, Go, table, IInv, payment, request, TypeOK, CreateAt, CancelAt, WebhookAt, PaymentAt,
     Confirmed, Calls, Payments

LEMMA CancelRefusedInv ==
    ASSUME IInv, NEW k \in Cancels, CancelRefused(k)
    PROVE  IInv'
  <1>1. TypeOK'
    BY Kinds, FinishTyped, SMTT(40) DEF CancelRefused, table, partners, IInv, payment, request, TypeOK, Calls, Payments
  <1>2. ASSUME NEW q \in Requests PROVE CreateAt(q)'
    BY Kinds, FinishDoes, SMTT(40) DEF CancelRefused, table, partners, IInv, payment, request, TypeOK, CreateAt, WebhookAt, PaymentAt, Confirmed, Calls, Payments
  <1>3. ASSUME NEW q \in Cancels PROVE CancelAt(q)'
    BY Kinds, FinishDoes, SMTT(40) DEF CancelRefused, table, partners, IInv, payment, request, TypeOK, CancelAt, CreateAt, WebhookAt, Calls, Payments
  <1>4. ASSUME NEW q \in Webhooks PROVE WebhookAt(q)'
    BY Kinds, FinishDoes, SMTT(40) DEF CancelRefused, table, partners, IInv, payment, request, TypeOK, WebhookAt, CreateAt, Confirmed, Calls, Payments
  <1>5. ASSUME NEW q \in Payments PROVE PaymentAt(q)'
    BY Kinds, FinishDoes, SMTT(40) DEF CancelRefused, table, partners, IInv, payment, request, TypeOK, PaymentAt, WebhookAt, Calls, Payments
  <1> QED BY <1>1, <1>2, <1>3, <1>4, <1>5 DEF IInv

LEMMA CancelCommitInv ==
    ASSUME IInv, NEW k \in Cancels, CancelCommit(k)
    PROVE  IInv'
  <1>1. TypeOK'
    <2>1. status' \in [Requests -> {"none", "PENDING", "PAID", "CANCELLED"}]
      BY DEF CancelCommit, IInv, TypeOK
    <2>2. Finish(k) /\ UNCHANGED <<expired, inbound, credits, partners, acked>>
      BY DEF CancelCommit
    <2> QED BY <2>1, <2>2, Kinds, FinishTyped DEF IInv, TypeOK, partners
  <1>2. ASSUME NEW q \in Requests PROVE CreateAt(q)'
    <2>1. /\ request(k) \in Requests /\ status[request(k)] = "PENDING"
          /\ request(k) \in Receives => receive[request(k)] # "open"
      BY DEF CancelCommit, IInv, CancelAt
    <2>2. /\ status' = [status EXCEPT ![request(k)] = "CANCELLED"]
          /\ UNCHANGED <<inbound, partners>> /\ pc'[q] = pc[q]
      BY Kinds, FinishDoes DEF CancelCommit, IInv, TypeOK, partners
    <2>3. CreateAt(q) /\ status \in [Requests -> {"none", "PENDING", "PAID", "CANCELLED"}]
      BY DEF IInv, TypeOK
    <2> QED BY <2>1, <2>2, <2>3 DEF CreateAt, partners
  <1>3. ASSUME NEW q \in Cancels PROVE CancelAt(q)'
    BY Kinds, FinishDoes, SMTT(40) DEF CancelCommit, partners, IInv, payment, request, TypeOK, CancelAt, CreateAt, WebhookAt, Calls, Payments
  <1>4. ASSUME NEW q \in Webhooks PROVE WebhookAt(q)'
    BY Kinds, FinishDoes, SMTT(40) DEF CancelCommit, partners, IInv, payment, request, TypeOK, WebhookAt, CreateAt, Confirmed, Calls, Payments
  <1>5. ASSUME NEW q \in Payments PROVE PaymentAt(q)'
    BY Kinds, FinishDoes, SMTT(40) DEF CancelCommit, partners, IInv, payment, request, TypeOK, PaymentAt, WebhookAt, Calls, Payments
  <1> QED BY <1>1, <1>2, <1>3, <1>4, <1>5 DEF IInv

LEMMA DeliverInv ==
    ASSUME IInv, NEW w \in Webhooks, NEW p \in Payments, Deliver(w, p)
    PROVE  IInv'
  <1>1. TypeOK'
    <2>1. /\ pc' = [pc EXCEPT ![w] = IF p \in Receives THEN "fetch" ELSE "find"]
          /\ local' = [local EXCEPT ![w].payment = p] /\ UNCHANGED <<table, locked, partners, acked>>
      BY DEF Deliver
    <2>2. local \in [Calls -> [payment : Payments \cup {NotRecorded},
                               request : Requests \cup {NoRequest}, late : BOOLEAN]]
      BY DEF IInv, TypeOK
    <2>3. local' \in [Calls -> [payment : Payments \cup {NotRecorded},
                                request : Requests \cup {NoRequest}, late : BOOLEAN]]
      BY <2>1, <2>2
    <2> QED BY <2>1, <2>3 DEF IInv, TypeOK, table, partners
  <1>2. ASSUME NEW q \in Requests PROVE CreateAt(q)'
    BY Kinds, FinishDoes, SMTT(40) DEF Deliver, Go, table, partners, IInv, payment, request, TypeOK, CreateAt, WebhookAt, PaymentAt, Confirmed, Calls, Payments
  <1>3. ASSUME NEW q \in Cancels PROVE CancelAt(q)'
    BY Kinds, FinishDoes, SMTT(40) DEF Deliver, Go, table, partners, IInv, payment, request, TypeOK, CancelAt, CreateAt, WebhookAt, Calls, Payments
  <1>4. ASSUME NEW q \in Webhooks PROVE WebhookAt(q)'
    BY Kinds, FinishDoes, SMTT(40) DEF Deliver, Go, table, partners, IInv, payment, request, TypeOK, WebhookAt, CreateAt, Confirmed, Calls, Payments
  <1>5. ASSUME NEW q \in Payments PROVE PaymentAt(q)'
    BY Kinds, FinishDoes, SMTT(40) DEF Deliver, Go, table, partners, IInv, payment, request, TypeOK, PaymentAt, WebhookAt, Calls, Payments
  <1> QED BY <1>1, <1>2, <1>3, <1>4, <1>5 DEF IInv

LEMMA GetReceiveInv ==
    ASSUME IInv, NEW w \in Webhooks, GetReceive(w)
    PROVE  IInv'
  <1>1. TypeOK'
    BY Kinds, FinishTyped, SMTT(40) DEF GetReceive, Go, table, partners, IInv, payment, request, TypeOK, Calls, Payments
  <1>2. ASSUME NEW q \in Requests PROVE CreateAt(q)'
    BY Kinds, FinishDoes, SMTT(40) DEF GetReceive, Go, table, partners, IInv, payment, request, TypeOK, CreateAt, WebhookAt, PaymentAt, Confirmed, Calls, Payments
  <1>3. ASSUME NEW q \in Cancels PROVE CancelAt(q)'
    BY Kinds, FinishDoes, SMTT(40) DEF GetReceive, Go, table, partners, IInv, payment, request, TypeOK, CancelAt, CreateAt, WebhookAt, Calls, Payments
  <1>4. ASSUME NEW q \in Webhooks PROVE WebhookAt(q)'
    BY Kinds, FinishDoes, SMTT(40) DEF GetReceive, Go, table, partners, IInv, payment, request, TypeOK, WebhookAt, CreateAt, Confirmed, Calls, Payments
  <1>5. ASSUME NEW q \in Payments PROVE PaymentAt(q)'
    BY Kinds, FinishDoes, SMTT(40) DEF GetReceive, Go, table, partners, IInv, payment, request, TypeOK, PaymentAt, WebhookAt, Calls, Payments
  <1> QED BY <1>1, <1>2, <1>3, <1>4, <1>5 DEF IInv

LEMMA NotFoundInv ==
    ASSUME IInv, NEW w \in Webhooks, NotFound(w)
    PROVE  IInv'
  <1>1. TypeOK'
    BY Kinds, FinishTyped, FinishDoes, SMTT(40) DEF NotFound, table, partners, IInv, payment, request, TypeOK, Calls, Payments
  <1>2. ASSUME NEW q \in Requests PROVE CreateAt(q)'
    BY Kinds, FinishDoes, SMTT(40) DEF NotFound, table, partners, IInv, payment, request, TypeOK, CreateAt, WebhookAt, PaymentAt, Confirmed, Calls, Payments
  <1>3. ASSUME NEW q \in Cancels PROVE CancelAt(q)'
    BY Kinds, FinishDoes, SMTT(40) DEF NotFound, table, partners, IInv, payment, request, TypeOK, CancelAt, CreateAt, WebhookAt, Calls, Payments
  <1>4. ASSUME NEW q \in Webhooks PROVE WebhookAt(q)'
    BY Kinds, FinishDoes, SMTT(40) DEF NotFound, table, partners, IInv, payment, request, TypeOK, WebhookAt, CreateAt, Confirmed, Calls, Payments
  <1>5. ASSUME NEW q \in Payments PROVE PaymentAt(q)'
    BY Kinds, FinishDoes, SMTT(40) DEF NotFound, table, partners, IInv, payment, request, TypeOK, PaymentAt, WebhookAt, Calls, Payments
  <1> QED BY <1>1, <1>2, <1>3, <1>4, <1>5 DEF IInv

LEMMA FindInv ==
    ASSUME IInv, NEW w \in Webhooks, Find(w)
    PROVE  IInv'
  <1> DEFINE m == RequestFor(payment(w))
             late == m \in Requests /\ expired[m]
  <1>a. /\ m \in Requests \cup {NoRequest}
        /\ payment(w) \in Receives => m = payment(w)
        /\ payment(w) \in Deposits =>
              m = NoRequest \/ (m \in Requests \ Receives /\ m = MemoOf[payment(w)])
    BY Kinds DEF Find, RequestFor, Confirmed, IInv, WebhookAt
  <1>b. late \in BOOLEAN
    BY DEF IInv, TypeOK
  <1>c. /\ pc[w] = "find" /\ pc' = [pc EXCEPT ![w] = "apply"]
        /\ local' = [local EXCEPT ![w] = [@ EXCEPT !.request = m, !.late = late]]
        /\ UNCHANGED <<table, locked, partners, acked>>
    BY DEF Find
  <1> HIDE DEF m, late
  <1>1. TypeOK'
    <2>1. local \in [Calls -> [payment : Payments \cup {NotRecorded},
                               request : Requests \cup {NoRequest}, late : BOOLEAN]]
      BY DEF IInv, TypeOK
    <2>2. local' \in [Calls -> [payment : Payments \cup {NotRecorded},
                                request : Requests \cup {NoRequest}, late : BOOLEAN]]
      BY <1>a, <1>b, <1>c, <2>1
    <2> QED BY <1>c, <2>2 DEF IInv, TypeOK, table, partners
  <1>2. ASSUME NEW q \in Requests PROVE CreateAt(q)'
    BY <1>a, <1>b, <1>c, Kinds, SMTT(40) DEF table, partners, IInv, payment, request, TypeOK, CreateAt, WebhookAt, PaymentAt, Confirmed, Calls, Payments
  <1>3. ASSUME NEW q \in Cancels PROVE CancelAt(q)'
    BY <1>a, <1>b, <1>c, Kinds, SMTT(40) DEF table, partners, IInv, payment, request, TypeOK, CancelAt, CreateAt, WebhookAt, Calls, Payments
  <1>4. ASSUME NEW q \in Webhooks PROVE WebhookAt(q)'
    BY <1>a, <1>b, <1>c, Kinds, SMTT(40) DEF table, partners, IInv, payment, request, TypeOK, WebhookAt, CreateAt, Confirmed, Calls, Payments
  <1>5. ASSUME NEW q \in Payments PROVE PaymentAt(q)'
    BY <1>a, <1>b, <1>c, Kinds, SMTT(40) DEF table, partners, IInv, payment, request, TypeOK, PaymentAt, WebhookAt, Calls, Payments
  <1> QED BY <1>1, <1>2, <1>3, <1>4, <1>5 DEF IInv

LEMMA ApplyInv ==
    ASSUME IInv, NEW w \in Webhooks, Apply(w)
    PROVE  IInv'
  <1>1. TypeOK'
    <2>1. payment(w) \in Payments /\ request(w) \in Requests \cup {NoRequest}
      BY Kinds DEF Apply, IInv, TypeOK, WebhookAt, Confirmed, Payments, request, Calls
    <2>2. inbound' \in [Payments -> Requests \cup {NoRequest, NotRecorded}]
      BY <2>1 DEF Apply, IInv, TypeOK
    <2>3. credits' \in [Payments -> Nat] /\ acked' \subseteq Payments
      BY <2>1 DEF Apply, IInv, TypeOK
    <2>4. status' \in [Requests -> {"none", "PENDING", "PAID", "CANCELLED"}]
      BY DEF Apply, IInv, TypeOK
    <2>5. Finish(w) /\ UNCHANGED <<expired, partners>>
      BY DEF Apply
    <2> QED BY <2>2, <2>3, <2>4, <2>5, Kinds, FinishTyped DEF IInv, TypeOK, partners
  <1>2. ASSUME NEW q \in Requests PROVE CreateAt(q)'
    BY Kinds, FinishDoes, SMTT(40) DEF Apply, Settles, RowFree, Open, partners, IInv, payment, request, TypeOK, CreateAt, WebhookAt, PaymentAt, Confirmed, Calls, Payments
  <1>3. ASSUME NEW q \in Cancels PROVE CancelAt(q)'
    BY Kinds, FinishDoes, SMTT(40) DEF Apply, Settles, RowFree, Open, partners, IInv, payment, request, TypeOK, CancelAt, CreateAt, WebhookAt, Calls, Payments
  <1>4. ASSUME NEW q \in Webhooks PROVE WebhookAt(q)'
    BY Kinds, FinishDoes, SMTT(40) DEF Apply, Settles, RowFree, Open, partners, IInv, payment, request, TypeOK, WebhookAt, CreateAt, Confirmed, Calls, Payments
  <1>5. ASSUME NEW q \in Payments PROVE PaymentAt(q)'
    BY Kinds, FinishDoes, SMTT(40) DEF Apply, Settles, RowFree, Open, partners, IInv, payment, request, TypeOK, PaymentAt, WebhookAt, Calls, Payments
  <1> QED BY <1>1, <1>2, <1>3, <1>4, <1>5 DEF IInv

LEMMA ApplyDuplicateInv ==
    ASSUME IInv, NEW w \in Webhooks, ApplyDuplicate(w)
    PROVE  IInv'
  <1>1. TypeOK'
    <2>1. /\ TypeOK /\ w \in Calls /\ payment(w) \in Payments /\ Finish(w)
          /\ acked' = acked \cup {payment(w)} /\ UNCHANGED <<table, partners>>
      <3>1. WebhookAt(w) /\ TypeOK /\ w \in Calls
        BY Kinds DEF IInv
      <3>2. payment(w) \in Confirmed
        BY <3>1 DEF ApplyDuplicate, WebhookAt
      <3>3. payment(w) \in Payments
        BY <3>1, <3>2, Kinds DEF Confirmed, TypeOK
      <3> QED BY <3>1, <3>3 DEF ApplyDuplicate
    <2> HIDE DEF payment
    <2>2. acked' \subseteq Payments
      BY <2>1 DEF TypeOK
    <2> QED BY <2>1, <2>2, FinishTyped DEF TypeOK, table, partners
  <1>2. ASSUME NEW q \in Requests PROVE CreateAt(q)'
    BY Kinds, FinishDoes, SMTT(40) DEF ApplyDuplicate, table, partners, IInv, payment, request, TypeOK, CreateAt, WebhookAt, PaymentAt, Confirmed, Calls, Payments
  <1>3. ASSUME NEW q \in Cancels PROVE CancelAt(q)'
    BY Kinds, FinishDoes, SMTT(40) DEF ApplyDuplicate, table, partners, IInv, payment, request, TypeOK, CancelAt, CreateAt, WebhookAt, Calls, Payments
  <1>4. ASSUME NEW q \in Webhooks PROVE WebhookAt(q)'
    BY Kinds, FinishDoes, SMTT(40) DEF ApplyDuplicate, table, partners, IInv, payment, request, TypeOK, WebhookAt, CreateAt, Confirmed, Calls, Payments
  <1>5. ASSUME NEW q \in Payments PROVE PaymentAt(q)'
    BY Kinds, FinishDoes, SMTT(40) DEF ApplyDuplicate, table, partners, IInv, payment, request, TypeOK, PaymentAt, WebhookAt, Calls, Payments
  <1> QED BY <1>1, <1>2, <1>3, <1>4, <1>5 DEF IInv

LEMMA DroppedInv ==
    ASSUME IInv, NEW c \in Calls, Dropped(c)
    PROVE  IInv'
  <1>1. TypeOK'
    BY Kinds, FinishTyped, SMTT(40) DEF Dropped, table, partners, IInv, payment, request, TypeOK, Calls, Payments
  <1>2. ASSUME NEW q \in Requests PROVE CreateAt(q)'
    BY Kinds, FinishDoes, SMTT(40) DEF Dropped, table, partners, IInv, payment, request, TypeOK, CreateAt, WebhookAt, PaymentAt, Confirmed, Calls, Payments
  <1>3. ASSUME NEW q \in Cancels PROVE CancelAt(q)'
    BY Kinds, FinishDoes, SMTT(40) DEF Dropped, table, partners, IInv, payment, request, TypeOK, CancelAt, CreateAt, WebhookAt, Calls, Payments
  <1>4. ASSUME NEW q \in Webhooks PROVE WebhookAt(q)'
    BY Kinds, FinishDoes, SMTT(40) DEF Dropped, table, partners, IInv, payment, request, TypeOK, WebhookAt, CreateAt, Confirmed, Calls, Payments
  <1>5. ASSUME NEW q \in Payments PROVE PaymentAt(q)'
    BY Kinds, FinishDoes, SMTT(40) DEF Dropped, table, partners, IInv, payment, request, TypeOK, PaymentAt, WebhookAt, Calls, Payments
  <1> QED BY <1>1, <1>2, <1>3, <1>4, <1>5 DEF IInv

LEMMA ExpireInv ==
    ASSUME IInv, NEW r \in Requests, Expire(r)
    PROVE  IInv'
  BY Kinds, FinishDoes, SMTT(40) DEF Expire, calls, partners, IInv, payment, request, TypeOK, CreateAt, CancelAt, WebhookAt, PaymentAt,
     Confirmed, Calls, Payments

LEMMA PayReceiveInv ==
    ASSUME IInv, NEW r \in Receives, PayReceive(r)
    PROVE  IInv'
  BY Kinds, FinishDoes, SMTT(40) DEF PayReceive, calls, table, IInv, payment, request, TypeOK, CreateAt, CancelAt, WebhookAt, PaymentAt,
     Confirmed, Calls, Payments

LEMMA DepositInv ==
    ASSUME IInv, NEW d \in Deposits, Deposit(d)
    PROVE  IInv'
  BY Kinds, FinishDoes, SMTT(40) DEF Deposit, calls, table, IInv, payment, request, TypeOK, CreateAt, CancelAt, WebhookAt, PaymentAt,
     Confirmed, Calls, Payments

LEMMA LinkBridgeInv ==
    ASSUME IInv, LinkBridge
    PROVE  IInv'
  BY Kinds, FinishDoes, SMTT(40) DEF LinkBridge, calls, table, IInv, payment, request, TypeOK, CreateAt, CancelAt, WebhookAt, PaymentAt,
     Confirmed, Calls, Payments

\* IInv is inductive.
LEMMA NextInv == IInv /\ [Next]_vars => IInv'
  <1> SUFFICES ASSUME IInv, [Next]_vars PROVE IInv'
    OBVIOUS
  <1>1. CASE UNCHANGED vars
    BY <1>1 DEF vars, table, calls, partners, IInv, TypeOK, CreateAt, CancelAt, WebhookAt, PaymentAt,
       payment, request, Confirmed
  <1>2. ASSUME NEW r \in Requests, Create(r) PROVE IInv'
    BY <1>2, CreateFindInv, OpenReceiveInv, OpenWithoutBankInv, OpenBridgeInv, InsertInv,
       InsertConflictsInv, CloseReceiveInv DEF Create
  <1>3. ASSUME NEW k \in Cancels, Cancel(k) PROVE IInv'
    BY <1>3, CancelBeginInv, CancelLockInv, CancelNotOpenInv, CancelPartnerInv, CancelRefusedInv,
       CancelCommitInv DEF Cancel
  <1>4. ASSUME NEW w \in Webhooks, Webhook(w) PROVE IInv'
    BY <1>4, DeliverInv, GetReceiveInv, NotFoundInv, FindInv, ApplyInv, ApplyDuplicateInv DEF Webhook
  <1> QED
    BY <1>1, <1>2, <1>3, <1>4, ExpireInv, PayReceiveInv, DroppedInv, DepositInv, LinkBridgeInv DEF Next

\* ... and so it always holds.
LEMMA Invariant == Spec => []IInv
  BY InitInv, NextInv, PTL DEF Spec
-----------------------------------------------------------------------------
(* Collections implement the inbound ledger.                               *)

\* What leaves the webhooks alone leaves alone what is in time.
LEMMA OthersInTime ==
    ASSUME \A w \in Webhooks : pc'[w] = pc[w] /\ local'[w] = local[w]
    PROVE  InTime' = InTime
  <1>1. ASSUME NEW w \in Webhooks, NEW d \in Deposits
        PROVE  AppliesInTime(w, d)' <=> AppliesInTime(w, d)
    BY <1>1 DEF AppliesInTime, payment, request
  <1> QED BY <1>1 DEF InTime

\* A webhook that does not reach the transaction, or ends, changes it for its
\* own deposit at most, which is no longer up for crediting.
LEMMA WebhookInTime ==
    ASSUME TypeOK, NEW w \in Webhooks, pc'[w] # "apply",
           \A v \in Webhooks \ {w} : pc'[v] = pc[v] /\ local'[v] = local[v]
    PROVE  /\ InTime' \in {InTime, InTime \ {payment(w)}}
           /\ pc[w] # "apply" \/ payment(w) \notin Deposits => InTime' = InTime
  <1>1. ASSUME NEW v \in Webhooks \ {w}, NEW d \in Deposits
        PROVE  AppliesInTime(v, d)' <=> AppliesInTime(v, d)
    BY <1>1 DEF AppliesInTime, payment, request
  <1>2. ASSUME NEW d \in Deposits PROVE ~AppliesInTime(w, d)'
    BY DEF AppliesInTime
  <1>3. ASSUME NEW d \in Deposits, AppliesInTime(w, d)
        PROVE  pc[w] = "apply" /\ payment(w) = d
    BY <1>3 DEF AppliesInTime
  <1>4. ASSUME NEW d \in Deposits, d # payment(w) PROVE d \in InTime' <=> d \in InTime
    BY <1>1, <1>2, <1>3, <1>4 DEF InTime
  <1>5. \A d \in InTime' : d \in InTime
    BY <1>1, <1>2 DEF InTime
  <1>6. InTime' \subseteq Deposits /\ InTime \subseteq Deposits
    BY DEF InTime
  <1>7. CASE payment(w) \in InTime'
    BY <1>4, <1>5, <1>6, <1>7
  <1>8. CASE payment(w) \notin InTime'
    <2>1. InTime' = InTime \ {payment(w)}
      BY <1>4, <1>5, <1>6, <1>8
    <2>2. pc[w] # "apply" => payment(w) \notin InTime
      BY <1>1, <1>3, <1>8 DEF InTime
    <2> QED BY <1>6, <2>1, <2>2
  <1> QED BY <1>7, <1>8

\* Finish is such an end.
LEMMA FinishInTime ==
    ASSUME TypeOK, NEW w \in Webhooks, Finish(w)
    PROVE  /\ InTime' \in {InTime, InTime \ {payment(w)}}
           /\ pc[w] # "apply" \/ payment(w) \notin Deposits => InTime' = InTime
  <1>1. w \in Calls /\ Webhooks \subseteq Calls
    BY Kinds
  <1>2. pc'[w] = "idle"
    BY <1>1, FinishDoes DEF TypeOK
  <1>3. \A v \in Webhooks \ {w} : pc'[v] = pc[v] /\ local'[v] = local[v]
    BY <1>1, FinishDoes DEF TypeOK
  <1> QED BY <1>2, <1>3, WebhookInTime

\* The transaction of a deposit that quotes a request begins: in time, or late.
LEMMA FindAdmits ==
    ASSUME IInv, NEW w \in Webhooks, Find(w)
    PROVE  (\E d \in Deposits : Inbound!Admit(d)) \/ UNCHANGED Inbound!vars
  <1> DEFINE p == payment(w)
             r == RequestFor(p)
  <1>1. /\ pc[w] = "find" /\ w \in Calls /\ TypeOK /\ p \in Payments
        /\ UNCHANGED <<table, partners>>
    BY Kinds DEF Find, IInv, WebhookAt, Confirmed, TypeOK
  <1>2. /\ pc' = [pc EXCEPT ![w] = "apply"]
        /\ local' = [local EXCEPT ![w] = [@ EXCEPT !.request = r,
                                                  !.late = r \in Requests /\ expired[r]]]
    BY DEF Find
  <1>3. /\ pc'[w] = "apply" /\ local'[w].payment = p /\ local'[w].request = r
        /\ local'[w].late = (r \in Requests /\ expired[r])
    BY <1>1, <1>2 DEF TypeOK, payment
  <1>4. \A v \in Webhooks \ {w} : pc'[v] = pc[v] /\ local'[v] = local[v]
    BY <1>1, <1>2, Kinds DEF TypeOK
  <1>5. ASSUME NEW v \in Webhooks \ {w}, NEW d \in Deposits
        PROVE  AppliesInTime(v, d)' <=> AppliesInTime(v, d)
    BY <1>4, <1>5 DEF AppliesInTime, payment, request
  <1>6. ASSUME NEW d \in Deposits
        PROVE  /\ ~AppliesInTime(w, d)
               /\ AppliesInTime(w, d)' <=> (d = p /\ r \in Requests /\ ~expired[r])
    BY <1>1, <1>3 DEF AppliesInTime, payment, request
  <1>7. CASE p \in Deposits /\ r \in Requests /\ ~expired[r]
    <2>1. InTime' = InTime \cup {p}
      BY <1>5, <1>6, <1>7 DEF InTime
    <2>2. r = MemoOf[p] /\ MemoOf[p] \in Requests \ Receives /\ status[MemoOf[p]] # "none"
      BY <1>7, Kinds DEF RequestFor
    <2>3. Inbound!Admit(p)
      BY <1>1, <1>7, <2>1, <2>2 DEF Inbound!Admit, table, partners
    <2> QED BY <1>7, <2>3
  <1>8. CASE ~(p \in Deposits /\ r \in Requests /\ ~expired[r])
    <2>1. InTime' = InTime
      BY <1>5, <1>6, <1>8 DEF InTime
    <2> QED BY <1>1, <2>1 DEF Inbound!vars, table, partners
  <1> QED BY <1>7, <1>8

\* A webhook that ends without crediting puts its deposit off.
LEMMA EndPutsOff ==
    ASSUME IInv, NEW w \in Webhooks, Finish(w), UNCHANGED <<table, partners>>
    PROVE  (\E d \in Deposits : Inbound!PutOff(d)) \/ UNCHANGED Inbound!vars
  <1> USE DEF table, partners
  <1>1. CASE InTime' = InTime
    BY <1>1 DEF Inbound!vars
  <1>2. CASE InTime' # InTime
    <2>1. payment(w) \in Deposits /\ InTime' = InTime \ {payment(w)}
      BY <1>2, FinishInTime DEF IInv
    <2> QED BY <2>1 DEF Inbound!PutOff
  <1> QED BY <1>1, <1>2

\* A webhook's steps other than the crediting one.
LEMMA WebhookSteps ==
    ASSUME IInv, NEW w \in Webhooks, Webhook(w), ~Apply(w)
    PROVE  \/ \E d \in Deposits : Inbound!Admit(d) \/ Inbound!PutOff(d)
           \/ UNCHANGED Inbound!vars
  <1>1. CASE Find(w)
    BY <1>1, FindAdmits
  <1>2. CASE Finish(w) /\ UNCHANGED <<table, partners>>
    BY <1>2, EndPutsOff
  <1>3. ASSUME NEW p \in Payments, Deliver(w, p) PROVE UNCHANGED Inbound!vars
    <2>1. /\ pc[w] = "idle" /\ pc'[w] # "apply"
          /\ \A v \in Webhooks \ {w} : pc'[v] = pc[v] /\ local'[v] = local[v]
      BY <1>3, Kinds DEF Deliver, IInv, TypeOK
    <2>2. InTime' = InTime
      BY <2>1, WebhookInTime DEF IInv
    <2> QED BY <1>3, <2>2 DEF Deliver, Inbound!vars, table, partners
  <1>4. CASE GetReceive(w) /\ Go(w, "find")
    <2>1. /\ pc[w] = "fetch" /\ pc'[w] # "apply"
          /\ \A v \in Webhooks \ {w} : pc'[v] = pc[v] /\ local'[v] = local[v]
      BY <1>4, Kinds DEF GetReceive, Go, IInv, TypeOK
    <2>2. InTime' = InTime
      BY <2>1, WebhookInTime DEF IInv
    <2> QED BY <1>4, <2>2 DEF GetReceive, Inbound!vars, table, partners
  <1> QED BY <1>1, <1>2, <1>3, <1>4 DEF Webhook, GetReceive, NotFound, ApplyDuplicate

\* A webhook that finds its payment unrecorded credits it: a receive pays its own
\* request, a deposit the open request it quotes or none.
LEMMA ApplyCredits ==
    ASSUME IInv, NEW w \in Webhooks, Apply(w)
    PROVE  \/ \E r \in Receives : Inbound!CreditReceive(r)
           \/ \E d \in Deposits : Inbound!CreditDeposit(d)
  <1> DEFINE p == payment(w)
             q == request(w)
             to == IF Settles(w) THEN q ELSE NoRequest
  <1>1. /\ p \in Confirmed /\ p \in Payments /\ inbound[p] = NotRecorded
        /\ Confirmed' = Confirmed
    BY Kinds DEF Apply, IInv, WebhookAt, Confirmed, TypeOK, partners
  <1>2. Inbound!Credit(p, to)
    BY <1>1 DEF Apply, Inbound!Credit, Confirmed
  <1>7. /\ InTime' \in {InTime, InTime \ {p}} /\ (p \notin Deposits => InTime' = InTime)
        /\ UNCHANGED expired
    BY FinishInTime DEF Apply, IInv
  <1>3. /\ Settles(w) /\ q \in Requests => status' = [status EXCEPT ![q] = "PAID"]
        /\ ~Settles(w) => status' = status
    BY DEF Apply, IInv, TypeOK
  <1>4. CASE p \in Receives
    <2>1. q = p
      BY <1>4 DEF Apply, IInv, WebhookAt
    <2>2. \A o \in Payments : inbound[o] # p
      BY <1>1, <1>4, Kinds, SMTT(40) DEF IInv, PaymentAt, Payments
    <2>3. Settles(w)
      BY <1>4, <2>1, <2>2, Kinds DEF Settles
    <2>4. receive[p] = "complete"
      BY <1>1, <1>4, Kinds DEF Confirmed, IInv, TypeOK
    <2>5. status[p] \in {"PENDING", "CANCELLED"}
      BY <1>4, <2>2, <2>4, Kinds DEF IInv, TypeOK, CreateAt
    <2>6. Inbound!CreditReceive(p)
      BY <1>2, <1>3, <1>7, <1>4, <2>1, <2>3, <2>5, Kinds DEF Inbound!CreditReceive
    <2> QED BY <1>4, <2>6
  <1>5. CASE p \in Deposits /\ Settles(w)
    <2>1. q \in Requests \ Receives /\ q = MemoOf[p]
      BY <1>5 DEF Apply, IInv, WebhookAt, Settles
    <2>2. status[q] = "PENDING"
      BY <1>5, Kinds DEF Settles, Open
    <2>4. p \in InTime
      <3>1. pc[w] = "apply" /\ request(w) \in Requests /\ ~local[w].late /\ p \in Deposits
        BY <1>5, <2>1, Kinds DEF Apply, Settles, Open
      <3> QED BY <3>1 DEF AppliesInTime, InTime
    <2>3. Inbound!CreditDeposit(p)
      BY <1>2, <1>3, <1>7, <1>5, <2>1, <2>2, <2>4 DEF Inbound!CreditDeposit
    <2> QED BY <1>5, <2>3
  <1>6. CASE p \in Deposits /\ ~Settles(w)
    BY <1>2, <1>3, <1>7, <1>6 DEF Inbound!CreditDeposit
  <1> QED BY <1>1, <1>4, <1>5, <1>6 DEF Payments

\* A create call's steps: only the insert shows, and it finds the key free.
LEMMA CreateSteps ==
    ASSUME IInv, NEW r \in Requests, Create(r)
    PROVE  Inbound!Create(r) \/ UNCHANGED Inbound!vars
  <1> USE DEF Inbound!vars
  <1>0. InTime' = InTime
    <2>1. Finish(r) \/ \E to \in {"open", "insert", "close"} : Go(r, to)
      BY DEF Create, CreateFind, OpenReceive, OpenWithoutBank, OpenBridge, Insert, InsertConflicts,
             CloseReceive, CloseUnchecked
    <2>2. \A w \in Webhooks : pc'[w] = pc[w] /\ local'[w] = local[w]
      BY <2>1, Kinds, FinishDoes DEF Go, IInv, TypeOK
    <2> QED BY <2>2, OthersInTime
  <1>1. CASE Insert(r)
    BY <1>0, <1>1 DEF Insert, key_exists, Inbound!Create, partners
  <1>2. CASE CreateFind(r) \/ OpenBridge(r) \/ InsertConflicts(r)
    BY <1>0, <1>2 DEF CreateFind, OpenBridge, InsertConflicts, table, partners
  <1>3. CASE OpenReceive(r) \/ OpenWithoutBank(r) \/ CloseReceive(r)
    <2>1. r \in Receives => receive[r] # "complete"
      BY <1>3 DEF OpenReceive, OpenWithoutBank, CloseReceive, IInv, CreateAt
    <2>2. /\ \E s \in {"open", "cancelled"} : receive' = [receive EXCEPT ![r] = s]
          /\ UNCHANGED <<table, deposited>>
      BY <1>3 DEF OpenReceive, OpenWithoutBank, CloseReceive, CloseUnchecked
    <2>3. \A o \in Receives : receive'[o] = "complete" <=> receive[o] = "complete"
      BY <2>1, <2>2 DEF IInv, TypeOK
    <2> QED BY <1>0, <2>2, <2>3 DEF table
  <1> QED BY <1>1, <1>2, <1>3 DEF Create

\* A cancel call's steps: only the commit shows.
LEMMA CancelSteps ==
    ASSUME IInv, NEW k \in Cancels, Cancel(k)
    PROVE  (\E r \in Requests : Inbound!Cancel(r)) \/ UNCHANGED Inbound!vars
  <1> USE DEF Inbound!vars
  <1>0. InTime' = InTime
    <2>1. CASE Finish(k) \/ \E to \in {"commit"} : Go(k, to)
      <3>1. \A w \in Webhooks : pc'[w] = pc[w] /\ local'[w] = local[w]
        BY <2>1, Kinds, FinishDoes DEF Go, IInv, TypeOK
      <3> QED BY <3>1, OthersInTime
    <2>2. ASSUME NEW r \in Requests, CancelBegin(k, r) PROVE InTime' = InTime
      <3>1. \A w \in Webhooks : pc'[w] = pc[w] /\ local'[w] = local[w]
        BY <2>2, Kinds DEF CancelBegin, IInv, TypeOK
      <3> QED BY <3>1, OthersInTime
    <2>3. CASE CancelLock(k)
      <3>1. local' = local /\ \E to \in {"partner", "commit"} : pc' = [pc EXCEPT ![k] = to]
        BY <2>3 DEF CancelLock
      <3>2. \A w \in Webhooks : pc'[w] = pc[w] /\ local'[w] = local[w]
        BY <3>1, Kinds DEF IInv, TypeOK
      <3> QED BY <3>2, OthersInTime
    <2> QED BY <2>1, <2>2, <2>3 DEF Cancel, CancelNotOpen, CancelPartner, CancelRefused, CancelCommit
  <1>1. CASE CancelCommit(k)
    BY <1>0, <1>1 DEF CancelCommit, Inbound!Cancel, IInv, CancelAt, partners
  <1>2. CASE CancelPartner(k)
    <2>1. \A o \in Receives : receive'[o] = "complete" <=> receive[o] = "complete"
      BY <1>2 DEF CancelPartner, IInv, TypeOK
    <2> QED BY <1>0, <1>2, <2>1 DEF CancelPartner, table
  <1>3. CASE (\E r \in Requests : CancelBegin(k, r)) \/ CancelLock(k) \/ CancelNotOpen(k)
               \/ CancelRefused(k)
    <2>1. UNCHANGED <<table, partners>>
      BY <1>3 DEF CancelBegin, CancelLock, CancelNotOpen, CancelRefused
    <2> QED BY <1>0, <2>1 DEF table, partners
  <1> QED BY <1>1, <1>2, <1>3 DEF Cancel

\* Every step is one of the inbound ledger's, or a stutter.
LEMMA StepsInbound == IInv /\ [Next]_vars => [Inbound!Next]_(Inbound!vars)
  <1> SUFFICES ASSUME IInv, [Next]_vars PROVE Inbound!Next \/ UNCHANGED Inbound!vars
    OBVIOUS
  <1>0. UNCHANGED calls => InTime' = InTime
    BY OthersInTime DEF calls
  <1>1. CASE UNCHANGED vars
    BY <1>0, <1>1 DEF vars, table, partners, Inbound!vars
  <1>2. CASE \E w \in Webhooks : Webhook(w)
    BY <1>2, ApplyCredits, WebhookSteps DEF Inbound!Next
  <1>3. ASSUME NEW r \in Receives, PayReceive(r) PROVE Inbound!Confirm(r)
    <2>1. \A o \in Receives : receive'[o] = "complete" <=> receive[o] = "complete" \/ o = r
      BY <1>3 DEF PayReceive, IInv, TypeOK
    <2> QED BY <1>0, <1>3, <2>1 DEF PayReceive, table, Inbound!Confirm
  <1>4. ASSUME NEW d \in Deposits, Deposit(d) PROVE Inbound!Confirm(d)
    BY <1>0, <1>4 DEF Deposit, table, Inbound!Confirm
  <1>5. CASE \E r \in Requests : Create(r)
    BY <1>5, CreateSteps DEF Inbound!Next
  <1>6. CASE \E k \in Cancels : Cancel(k)
    BY <1>6, CancelSteps DEF Inbound!Next
  <1>7. ASSUME NEW r \in Requests, Expire(r) PROVE Inbound!Expire(r)
    BY <1>0, <1>7 DEF Expire, partners, Inbound!Expire
  <1>8. CASE LinkBridge
    BY <1>0, <1>8 DEF LinkBridge, table, Inbound!vars
  <1>9. ASSUME NEW c \in Calls, Dropped(c) PROVE Inbound!Next \/ UNCHANGED Inbound!vars
    <2>1. Finish(c) /\ UNCHANGED <<table, partners>>
      BY <1>9 DEF Dropped
    <2>2. CASE c \in Webhooks
      BY <2>1, <2>2, EndPutsOff DEF Inbound!Next
    <2>3. CASE c \notin Webhooks
      <3>1. \A w \in Webhooks : pc'[w] = pc[w] /\ local'[w] = local[w]
        BY <2>1, <2>3, Kinds, FinishDoes DEF IInv, TypeOK
      <3> QED BY <2>1, <3>1, OthersInTime DEF table, partners, Inbound!vars
    <2> QED BY <2>2, <2>3
  <1>10. CASE (\E r \in Receives : PayReceive(r)) \/ (\E d \in Deposits : Deposit(d))
    BY <1>3, <1>4, <1>10, Kinds DEF Inbound!Next, Inbound!Payments
  <1>11. CASE \E r \in Requests : Expire(r)
    BY <1>7, <1>11 DEF Inbound!Next
  <1> QED BY <1>1, <1>2, <1>5, <1>6, <1>8, <1>9, <1>10, <1>11 DEF Next
-----------------------------------------------------------------------------
(* What the collections promise.                                           *)

\* Type correctness of the requests, the payments and the calls.
THEOREM TypeCorrect == Spec => []TypeOK
  <1>1. IInv => TypeOK
    BY DEF IInv
  <1> QED BY <1>1, Invariant, PTL

\* A cancelled request has no receive that still takes money, whatever calls
\* are lost or refused (cancel_collection, open_yellowcard).
THEOREM CancelCloses == Spec => []CancelledIsClosed
  <1>1. IInv => CancelledIsClosed
    BY CollectionsAssumption DEF IInv, CreateAt, CancelledIsClosed
  <1> QED BY <1>1, Invariant, PTL

\* A webhook is acknowledged only once its payment is credited (receive_yellowcard,
\* receive_bridge, apply_inbound).
THEOREM AckMeansCredit == Spec => []AckedIsCredited
  <1>1. IInv => AckedIsCredited
    BY DEF IInv, TypeOK, PaymentAt, AckedIsCredited
  <1> QED BY <1>1, Invariant, PTL

\* Concurrent creates, cancels and webhooks implement the inbound ledger: confirmed
\* money is credited once and only then, a request is settled by one payment meant
\* for it, and a deposit does not reopen a request whose time was up when its
\* transaction began (create_collection, cancel_collection, apply_inbound).
THEOREM ImplementsInboundLedger == Spec => InboundLedgerSpec
  <1>1. ASSUME Init PROVE Inbound!Init
    <2>1. InTime = {}
      BY <1>1, Kinds DEF Init, InTime, AppliesInTime
    <2> QED BY <1>1, <2>1, CollectionsAssumption DEF Init, Inbound!Init, Inbound!Payments, Payments
  <1>2. IInv /\ [Next]_vars => [Inbound!Next]_(Inbound!vars)
    BY StepsInbound
  <1> QED BY <1>1, <1>2, Invariant, PTL DEF Spec, InboundLedgerSpec, Inbound!Spec
=============================================================================
