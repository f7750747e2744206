------------------------- MODULE SettlementFlowProofs -------------------------
(***************************************************************************)
(* Proofs about TransferEngine and about SettlementFlow, which composes it *)
(* with the vault: for every set of transfers, every amount, every account *)
(* and every configuration.  The first part is about the engine's own      *)
(* specification, the second about the composition's, for every choice of  *)
(* the transfers whose operator keeps to the documented order.             *)
(***************************************************************************)
EXTENDS SettlementFlow, TLAPS

(***************************************************************************)
(* Part 1: the engine.                                                     *)
(***************************************************************************)

\* The tables' part of the type invariant.
DataTypeOK ==
    /\ status \in [Transfers -> Statuses \cup {None}]
    /\ history \in [Transfers -> Seq(Rows)]
    /\ posted \in [Transfers -> Ledger]

\* The exact entries of a transfer: how many of each kind.
Entries(p, funded, converted, paid, unconverted, refunded) ==
    /\ p["funded"] = funded
    /\ p["converted"] = converted
    /\ p["paid"] = paid
    /\ p["unconverted"] = unconverted
    /\ p["refunded"] = refunded

\* The three facts about one transfer are stated on a status s, a history h and
\* a ledger p, so that the two transitions of one transaction compose.

\* MoneyFollowsStatus made inductive: the exact entries at every status.
\* REVERSING remembers whether the payout had been made, REJECTED whether the
\* rejection came after funding.
LedgerAt(s, h, p) ==
    /\ s \in {None, "CREATED", "QUOTED", "SCREENED", "AWAITING_FUNDS", "EXPIRED"}
          => Entries(p, 0, 0, 0, 0, 0)
    /\ s \in {"FUNDED", "SETTLING"} => Entries(p, 1, 0, 0, 0, 0)
    /\ s \in {"SETTLED", "PAYING_OUT"} => Entries(p, 1, 1, 0, 0, 0)
    /\ s = "COMPLETED" => Entries(p, 1, 1, 1, 0, 0)
    /\ s = "REVERSING" => Entries(p, 1, 1, 1, 0, 0) \/ Entries(p, 1, 1, 0, 1, 0)
    /\ s = "REVERSED" => Entries(p, 1, 1, 1, 0, 1) \/ Entries(p, 1, 1, 0, 1, 1)
    /\ s = "REJECTED" =>
          IF h[Len(h) - 1].status \in {"FUNDED", "SETTLING"}
            THEN Entries(p, 1, 0, 0, 0, 0) ELSE Entries(p, 0, 0, 0, 0, 0)

\* HistoryIsPath for a row that exists: a nonempty trail that ends in s.
TrailAt(s, h) ==
    /\ Len(h) > 0
    /\ h[1].status = "CREATED"
    /\ h[Len(h)].status = s
    /\ \A i \in 1 .. Len(h) - 1 : h[i + 1].status \in allowed(h[i].status)

\* HoldRespected made inductive for a transfer that screening holds: while
\* SCREENED, the latest row carries the hold.
HoldAt(s, h) ==
    /\ s = "SCREENED" => h[Len(h)].note = "hold"
    /\ \A i \in 1 .. Len(h) : h[i].status = "AWAITING_FUNDS" => h[i].note = "cleared"

DataInv ==
    /\ DataTypeOK
    /\ \A t \in Transfers :
          /\ LedgerAt(status[t], history[t], posted[t])
          /\ status[t] = None => history[t] = <<>>
          /\ status[t] # None => TrailAt(status[t], history[t])
          /\ screen(t) => HoldAt(status[t], history[t])

\* A transaction past the balance check holds its row, so the status stays.
FundingInv ==
    /\ onchain \in BOOLEAN
    /\ driver \in [Transfers -> Drivers]
    /\ seen \in [Transfers -> Statuses \cup {None}]
    /\ funding \in [Transfers -> BOOLEAN]
    /\ \A t \in Transfers : funding[t] => status[t] = "AWAITING_FUNDS"

IInv == DataInv /\ FundingInv
-----------------------------------------------------------------------------
\* What the transition table says: no transition leads back to CREATED, none
\* leaves a closed status, and a status is a string of the table.
LEMMA AllowedFacts ==
    ASSUME NEW from, NEW to \in allowed(from)
    PROVE  /\ from \in Statuses
           /\ to \in Statuses
           /\ to # "CREATED"
           /\ from \notin {None, "REJECTED", "EXPIRED", "REVERSED"}
  BY DEF allowed, Statuses, None

\* The sources of each target status in the transition table.
LEMMA AllowedFrom ==
    ASSUME NEW from, NEW to \in allowed(from)
    PROVE  /\ to = "QUOTED" => from = "CREATED"
           /\ to = "SCREENED" => from = "QUOTED"
           /\ to = "AWAITING_FUNDS" => from = "SCREENED"
           /\ to = "FUNDED" => from = "AWAITING_FUNDS"
           /\ to = "SETTLING" => from = "FUNDED"
           /\ to = "SETTLED" => from = "SETTLING"
           /\ to = "PAYING_OUT" => from = "SETTLED"
           /\ to = "COMPLETED" => from = "PAYING_OUT"
           /\ to = "REJECTED" => from \in {"SCREENED", "AWAITING_FUNDS", "FUNDED", "SETTLING"}
           /\ to = "EXPIRED" => from \in {"CREATED", "QUOTED", "SCREENED", "AWAITING_FUNDS"}
           /\ to = "REVERSING" => from \in {"SETTLED", "PAYING_OUT", "COMPLETED"}
           /\ to = "REVERSED" => from = "REVERSING"
  BY DEF allowed

\* Appending one row keeps the old rows and puts the new one last.
LEMMA AppendFacts ==
    ASSUME NEW h \in Seq(Rows), NEW r \in Rows
    PROVE  /\ Append(h, r) \in Seq(Rows)
           /\ Len(Append(h, r)) = Len(h) + 1
           /\ \A i \in 1 .. Len(h) : Append(h, r)[i] = h[i]
           /\ Append(h, r)[Len(h) + 1] = r
  OBVIOUS

\* Posting one entry adds one to its kind and keeps the others.
LEMMA EntryFacts ==
    ASSUME NEW p \in Ledger, NEW k \in Kinds
    PROVE  /\ Entry(p, k) \in Ledger
           /\ Entry(p, k)[k] = p[k] + 1
           /\ \A j \in Kinds \ {k} : Entry(p, k)[j] = p[j]
  BY DEF Entry, Ledger
-----------------------------------------------------------------------------
\* The postings of one transition, from the exact entries of its source.
LEMMA PostingsFacts ==
    ASSUME NEW p \in Ledger, NEW from, NEW to \in allowed(from)
    PROVE  /\ Postings(p, from, to) \in Ledger
           /\ to = "FUNDED" => Postings(p, from, to) = Entry(p, "funded")
           /\ to = "SETTLED" => Postings(p, from, to) = Entry(p, "converted")
           /\ to = "COMPLETED" => Postings(p, from, to) = Entry(p, "paid")
           /\ to = "REVERSING" /\ from # "COMPLETED"
                => Postings(p, from, to) = Entry(p, "unconverted")
           /\ to = "REVERSED" => Postings(p, from, to) = Entry(p, "refunded")
           /\ to \in {"QUOTED", "SCREENED", "AWAITING_FUNDS", "SETTLING", "PAYING_OUT",
                      "REJECTED", "EXPIRED"} \/ (to = "REVERSING" /\ from = "COMPLETED")
                => Postings(p, from, to) = p
  <1>1. \A k \in Kinds : Entry(p, k) \in Ledger
    BY EntryFacts
  <1>2. {"funded", "converted", "paid", "unconverted", "refunded"} = Kinds
    BY DEF Kinds
  <1>3. to = "REVERSING" => from \in {"SETTLED", "PAYING_OUT", "COMPLETED"}
    BY AllowedFrom
  <1>4. to \in Statuses /\ to # "CREATED"
    BY AllowedFacts
  <1> QED
    BY <1>1, <1>2, <1>3, <1>4 DEF Postings, post_ledger_for, post_send_refund, Statuses
-----------------------------------------------------------------------------
\* The ledger part of one transition.
LEMMA LedgerStep ==
    ASSUME NEW s, NEW h \in Seq(Rows), NEW p \in Ledger,
           NEW to \in allowed(s), NEW n \in Notes,
           LedgerAt(s, h, p), TrailAt(s, h)
    PROVE  LedgerAt(to, Append(h, Row(to, n)), Postings(p, s, to))
  <1> DEFINE q == Postings(p, s, to)
             g == Append(h, Row(to, n))
  <1>1. s \in Statuses /\ to \in Statuses /\ to # "CREATED" /\ to # None
    BY AllowedFacts DEF Statuses, None
  <1>2. \A k \in Kinds : p[k] \in Nat
    BY DEF Ledger
  <1>3. {"funded", "converted", "paid", "unconverted", "refunded"} = Kinds
    BY DEF Kinds
  <1>4. ASSUME NEW k \in Kinds, q = Entry(p, k)
        PROVE  q[k] = p[k] + 1 /\ \A j \in Kinds \ {k} : q[j] = p[j]
    BY <1>4, EntryFacts
  <1>5. g[Len(g) - 1].status = s
    <2>1. Row(to, n) \in Rows
      BY <1>1 DEF Row, Rows
    <2>2. Len(g) = Len(h) + 1 /\ g[Len(h)] = h[Len(h)]
      BY <2>1, AppendFacts DEF TrailAt
    <2>3. h[Len(h)].status = s
      BY DEF TrailAt
    <2>4. Len(g) - 1 = Len(h)
      BY <2>2
    <2> HIDE DEF g
    <2> QED BY <2>2, <2>3, <2>4
  <1>6. CASE to = "FUNDED"
    <2>1. Entries(p, 0, 0, 0, 0, 0)
      BY <1>6, AllowedFrom DEF LedgerAt
    <2>2. q = Entry(p, "funded")
      BY <1>6, PostingsFacts
    <2>3. Entries(q, 1, 0, 0, 0, 0)
      BY <2>1, <2>2, <1>2, <1>3, <1>4 DEF Entries
    <2> QED BY <2>3, <1>6 DEF LedgerAt, None
  <1>7. CASE to = "SETTLED"
    <2>1. Entries(p, 1, 0, 0, 0, 0)
      BY <1>7, AllowedFrom DEF LedgerAt
    <2>2. q = Entry(p, "converted")
      BY <1>7, PostingsFacts
    <2>3. Entries(q, 1, 1, 0, 0, 0)
      BY <2>1, <2>2, <1>2, <1>3, <1>4 DEF Entries
    <2> QED BY <2>3, <1>7 DEF LedgerAt, None
  <1>8. CASE to = "COMPLETED"
    <2>1. Entries(p, 1, 1, 0, 0, 0)
      BY <1>8, AllowedFrom DEF LedgerAt
    <2>2. q = Entry(p, "paid")
      BY <1>8, PostingsFacts
    <2>3. Entries(q, 1, 1, 1, 0, 0)
      BY <2>1, <2>2, <1>2, <1>3, <1>4 DEF Entries
    <2> QED BY <2>3, <1>8 DEF LedgerAt, None
  <1>9. CASE to = "REVERSING" /\ s = "COMPLETED"
    <2>1. Entries(p, 1, 1, 1, 0, 0)
      BY <1>9 DEF LedgerAt
    <2>2. q = p
      BY <1>9, PostingsFacts
    <2> QED BY <2>1, <2>2, <1>9 DEF LedgerAt, None
  <1>10. CASE to = "REVERSING" /\ s # "COMPLETED"
    <2>1. Entries(p, 1, 1, 0, 0, 0)
      BY <1>10, AllowedFrom DEF LedgerAt
    <2>2. q = Entry(p, "unconverted")
      BY <1>10, PostingsFacts
    <2>3. Entries(q, 1, 1, 0, 1, 0)
      BY <2>1, <2>2, <1>2, <1>3, <1>4 DEF Entries
    <2> QED BY <2>3, <1>10 DEF LedgerAt, None
  <1>11. CASE to = "REVERSED"
    <2>1. Entries(p, 1, 1, 1, 0, 0) \/ Entries(p, 1, 1, 0, 1, 0)
      BY <1>11, AllowedFrom DEF LedgerAt
    <2>2. q = Entry(p, "refunded")
      BY <1>11, PostingsFacts
    <2>3. Entries(q, 1, 1, 1, 0, 1) \/ Entries(q, 1, 1, 0, 1, 1)
      BY <2>1, <2>2, <1>2, <1>3, <1>4 DEF Entries
    <2> QED BY <2>3, <1>11 DEF LedgerAt, None
  <1>12. CASE to \in {"QUOTED", "SCREENED", "AWAITING_FUNDS", "EXPIRED"}
    <2>1. Entries(p, 0, 0, 0, 0, 0)
      BY <1>12, AllowedFrom DEF LedgerAt
    <2>2. q = p
      BY <1>12, PostingsFacts
    <2> QED BY <2>1, <2>2, <1>12 DEF LedgerAt, None
  <1>13. CASE to = "SETTLING"
    <2>1. Entries(p, 1, 0, 0, 0, 0)
      BY <1>13, AllowedFrom DEF LedgerAt
    <2>2. q = p
      BY <1>13, PostingsFacts
    <2> QED BY <2>1, <2>2, <1>13 DEF LedgerAt, None
  <1>14. CASE to = "PAYING_OUT"
    <2>1. Entries(p, 1, 1, 0, 0, 0)
      BY <1>14, AllowedFrom DEF LedgerAt
    <2>2. q = p
      BY <1>14, PostingsFacts
    <2> QED BY <2>1, <2>2, <1>14 DEF LedgerAt, None
  <1>15. CASE to = "REJECTED"
    <2>1. /\ s \in {"SCREENED", "AWAITING_FUNDS"} => Entries(p, 0, 0, 0, 0, 0)
          /\ s \in {"FUNDED", "SETTLING"} => Entries(p, 1, 0, 0, 0, 0)
          /\ s \in {"SCREENED", "AWAITING_FUNDS", "FUNDED", "SETTLING"}
      BY <1>15, AllowedFrom DEF LedgerAt
    <2>2. q = p
      BY <1>15, PostingsFacts
    <2> QED BY <2>1, <2>2, <1>5, <1>15 DEF LedgerAt, None
  <1> QED
    BY <1>1, <1>6, <1>7, <1>8, <1>9, <1>10, <1>11, <1>12, <1>13, <1>14, <1>15
       DEF Statuses

\* The trail part of one transition.
LEMMA TrailStep ==
    ASSUME NEW s, NEW h \in Seq(Rows), NEW to \in allowed(s), NEW n \in Notes,
           TrailAt(s, h)
    PROVE  TrailAt(to, Append(h, Row(to, n)))
  <1> DEFINE g == Append(h, Row(to, n))
  <1>1. Row(to, n) \in Rows /\ Row(to, n).status = to
    BY AllowedFacts DEF Row, Rows
  <1>2. /\ Len(g) = Len(h) + 1
        /\ \A i \in 1 .. Len(h) : g[i] = h[i]
        /\ g[Len(h) + 1] = Row(to, n)
    BY <1>1, AppendFacts
  <1>3. Len(h) \in Nat
    OBVIOUS
  <1>4. ASSUME NEW i \in 1 .. Len(g) - 1
        PROVE  g[i + 1].status \in allowed(g[i].status)
    <2>1. CASE i = Len(h)
      BY <2>1, <1>1, <1>2, <1>3 DEF TrailAt
    <2>2. CASE i \in 1 .. Len(h) - 1
      <3>1. g[i] = h[i] /\ g[i + 1] = h[i + 1]
        BY <2>2, <1>2, <1>3
      <3> QED BY <2>2, <3>1 DEF TrailAt
    <2> QED BY <2>1, <2>2, <1>2, <1>3
  <1> QED BY <1>1, <1>2, <1>3, <1>4 DEF TrailAt

\* The hold part of one transition, for a transfer that screening holds.
LEMMA HoldStep ==
    ASSUME NEW s, NEW h \in Seq(Rows), NEW to \in allowed(s), NEW n \in Notes,
           HoldAt(s, h),
           to = "SCREENED" => n = "hold",
           to = "AWAITING_FUNDS" => n = "cleared"
    PROVE  HoldAt(to, Append(h, Row(to, n)))
  <1> DEFINE g == Append(h, Row(to, n))
  <1>1. Row(to, n) \in Rows /\ Row(to, n).status = to /\ Row(to, n).note = n
    BY AllowedFacts DEF Row, Rows
  <1>2. /\ Len(g) = Len(h) + 1
        /\ \A i \in 1 .. Len(h) : g[i] = h[i]
        /\ g[Len(h) + 1] = Row(to, n)
    BY <1>1, AppendFacts
  <1>3. Len(h) \in Nat
    OBVIOUS
  <1>4. ASSUME NEW i \in 1 .. Len(g), g[i].status = "AWAITING_FUNDS"
        PROVE  g[i].note = "cleared"
    <2>1. CASE i = Len(h) + 1
      BY <2>1, <1>1, <1>2, <1>4
    <2>2. CASE i \in 1 .. Len(h)
      BY <2>2, <1>2, <1>4 DEF HoldAt
    <2> QED BY <2>1, <2>2, <1>2, <1>3
  <1> QED BY <1>1, <1>2, <1>4 DEF HoldAt
-----------------------------------------------------------------------------
\* apply keeps the data invariant when its payload says what screening decided.
LEMMA ApplyInv ==
    ASSUME DataInv, NEW t \in Transfers, NEW to, NEW n \in Notes, apply(t, to, n),
           screen(t) /\ to = "SCREENED" => n = "hold",
           screen(t) /\ to = "AWAITING_FUNDS" => n = "cleared"
    PROVE  DataInv'
  <1> DEFINE s == status[t]
             h == history[t]
             p == posted[t]
             g == Append(h, Row(to, n))
             q == Postings(p, s, to)
  <1>1. /\ to \in allowed(s)
        /\ h \in Seq(Rows) /\ p \in Ledger
        /\ s # None /\ to \in Statuses /\ to # None
        /\ LedgerAt(s, h, p) /\ TrailAt(s, h)
        /\ screen(t) => HoldAt(s, h)
    BY AllowedFacts DEF apply, DataInv, DataTypeOK, Statuses, None
  <1>2. g \in Seq(Rows) /\ q \in Ledger
    BY <1>1, AppendFacts, PostingsFacts DEF Row, Rows
  <1>3. LedgerAt(to, g, q) /\ TrailAt(to, g)
    BY <1>1, LedgerStep, TrailStep
  <1>4. screen(t) => HoldAt(to, g)
    BY <1>1, HoldStep
  <1>5. /\ status' = [status EXCEPT ![t] = to]
        /\ history' = [history EXCEPT ![t] = g]
        /\ posted' = [posted EXCEPT ![t] = q]
    BY DEF apply
  <1> HIDE DEF g, q
  <1>6. DataTypeOK'
    BY <1>1, <1>2, <1>5 DEF DataInv, DataTypeOK
  <1>7. /\ status'[t] = to /\ history'[t] = g /\ posted'[t] = q
        /\ \A u \in Transfers \ {t} :
              status'[u] = status[u] /\ history'[u] = history[u] /\ posted'[u] = posted[u]
    BY <1>5 DEF DataInv, DataTypeOK
  <1>8. ASSUME NEW u \in Transfers
        PROVE  /\ LedgerAt(status'[u], history'[u], posted'[u])
               /\ status'[u] = None => history'[u] = <<>>
               /\ status'[u] # None => TrailAt(status'[u], history'[u])
               /\ screen(u) => HoldAt(status'[u], history'[u])
    <2>1. CASE u = t
      BY <2>1, <1>1, <1>3, <1>4, <1>7
    <2>2. CASE u # t
      BY <2>2, <1>7 DEF DataInv
    <2> QED BY <2>1, <2>2
  <1> QED BY <1>6, <1>8 DEF DataInv, LedgerAt, TrailAt, HoldAt, screen, Entries

\* apply_both, which never writes a SCREENED or an AWAITING_FUNDS row, keeps it.
LEMMA ApplyBothInv ==
    ASSUME DataInv, NEW t \in Transfers, NEW mid, NEW to, apply_both(t, mid, to),
           {mid, to} \cap {"SCREENED", "AWAITING_FUNDS"} = {}
    PROVE  DataInv'
  <1> DEFINE s == status[t]
             h == history[t]
             p == posted[t]
             hm == Append(h, Row(mid, "none"))
             pm == Postings(p, s, mid)
             g == Append(hm, Row(to, "none"))
             q == Postings(pm, mid, to)
  <1>1. /\ mid \in allowed(s) /\ to \in allowed(mid)
        /\ h \in Seq(Rows) /\ p \in Ledger
        /\ s # None /\ to \in Statuses /\ to # None
        /\ LedgerAt(s, h, p) /\ TrailAt(s, h)
        /\ screen(t) => HoldAt(s, h)
    BY AllowedFacts DEF apply_both, DataInv, DataTypeOK, Statuses, None
  <1>2. Row(mid, "none") \in Rows /\ Row(to, "none") \in Rows /\ "none" \in Notes
    BY <1>1, AllowedFacts DEF Row, Rows, Notes
  <1>3. hm \in Seq(Rows) /\ pm \in Ledger
    BY <1>1, <1>2, AppendFacts, PostingsFacts
  <1>4. LedgerAt(mid, hm, pm) /\ TrailAt(mid, hm) /\ (screen(t) => HoldAt(mid, hm))
    BY <1>1, <1>2, LedgerStep, TrailStep, HoldStep
  <1>5. /\ status' = [status EXCEPT ![t] = to]
        /\ history' = [history EXCEPT ![t] = g]
        /\ posted' = [posted EXCEPT ![t] = q]
    <2>1. h \o <<Row(mid, "none"), Row(to, "none")>> = g
      BY <1>1, <1>2
    <2> QED BY <2>1 DEF apply_both, DataInv, DataTypeOK
  <1> HIDE DEF hm, pm
  <1>6. g \in Seq(Rows) /\ q \in Ledger
    BY <1>1, <1>2, <1>3, AppendFacts, PostingsFacts
  <1>7. LedgerAt(to, g, q) /\ TrailAt(to, g) /\ (screen(t) => HoldAt(to, g))
    BY <1>1, <1>2, <1>3, <1>4, LedgerStep, TrailStep, HoldStep
  <1> HIDE DEF g, q
  <1>8. DataTypeOK'
    BY <1>1, <1>5, <1>6 DEF DataInv, DataTypeOK
  <1>9. /\ status'[t] = to /\ history'[t] = g /\ posted'[t] = q
        /\ \A u \in Transfers \ {t} :
              status'[u] = status[u] /\ history'[u] = history[u] /\ posted'[u] = posted[u]
    BY <1>5 DEF DataInv, DataTypeOK
  <1>10. ASSUME NEW u \in Transfers
        PROVE  /\ LedgerAt(status'[u], history'[u], posted'[u])
               /\ status'[u] = None => history'[u] = <<>>
               /\ status'[u] # None => TrailAt(status'[u], history'[u])
               /\ screen(u) => HoldAt(status'[u], history'[u])
    <2>1. CASE u = t
      BY <2>1, <1>1, <1>7, <1>9
    <2>2. CASE u # t
      BY <2>2, <1>9 DEF DataInv
    <2> QED BY <2>1, <2>2
  <1> QED BY <1>8, <1>10 DEF DataInv, LedgerAt, TrailAt, HoldAt, screen, Entries
-----------------------------------------------------------------------------
\* The driver loop only moves its own local state, within its type.
LEMMA LoopTypes ==
    ASSUME FundingInv, NEW t \in Transfers, NEW next \in Statuses \cup {None},
           LoopWith(t, next)
    PROVE  /\ driver' \in [Transfers -> Drivers]
           /\ seen' \in [Transfers -> Statuses \cup {None}]
  BY DEF FundingInv, LoopWith, LeaveLoop, Drivers

\* A transition of a row that is not locked, or of the row the funding step is
\* about to release, keeps the other funding transactions' rows where they are.
LEMMA FundingKept ==
    ASSUME IInv, NEW t \in Transfers, NEW to, status' = [status EXCEPT ![t] = to],
           \/ ~funding[t] /\ UNCHANGED funding
           \/ funding' = [funding EXCEPT ![t] = FALSE]
    PROVE  /\ funding' \in [Transfers -> BOOLEAN]
           /\ \A u \in Transfers : funding'[u] => status'[u] = "AWAITING_FUNDS"
  <1>1. ASSUME NEW u \in Transfers, funding'[u]
        PROVE  status'[u] = "AWAITING_FUNDS"
    <2>1. u # t
      BY <1>1 DEF IInv, FundingInv
    <2> QED BY <2>1, <1>1 DEF IInv, FundingInv, DataInv, DataTypeOK
  <1>2. funding' \in [Transfers -> BOOLEAN]
    BY DEF IInv, FundingInv
  <1> QED BY <1>1, <1>2

\* The same for a step that leaves the status column alone.
LEMMA DataUnchanged ==
    ASSUME DataInv, UNCHANGED <<status, history, posted>>
    PROVE  DataInv'
  BY DEF DataInv, DataTypeOK, LedgerAt, TrailAt, HoldAt, screen, Entries

\* The engine starts in the inductive invariant: no rows, no entries.
LEMMA InitInv == Init => IInv
  <1> SUFFICES ASSUME Init PROVE IInv
    OBVIOUS
  <1>1. DataTypeOK
    BY DEF Init, DataTypeOK, Ledger, Kinds
  <1>2. ASSUME NEW t \in Transfers
        PROVE  /\ LedgerAt(status[t], history[t], posted[t])
               /\ status[t] = None => history[t] = <<>>
               /\ status[t] # None => TrailAt(status[t], history[t])
               /\ screen(t) => HoldAt(status[t], history[t])
    <2>1. status[t] = None /\ history[t] = <<>> /\ posted[t] = [k \in Kinds |-> 0]
      BY DEF Init
    <2>2. Entries(posted[t], 0, 0, 0, 0, 0)
      BY <2>1 DEF Entries, Kinds
    <2> QED BY <2>1, <2>2 DEF LedgerAt, HoldAt, None
  <1>3. FundingInv
    BY DEF Init, FundingInv, Drivers
  <1> QED BY <1>1, <1>2, <1>3 DEF IInv, DataInv

\* Creating the row writes the first trail and posts nothing.
LEMMA CreateInv ==
    ASSUME IInv, NEW t \in Transfers, CreateTransfer(t)
    PROVE  IInv'
  <1> DEFINE g == <<Row("CREATED", "none")>>
  <1>1. Row("CREATED", "none") \in Rows /\ Row("CREATED", "none").status = "CREATED"
    BY DEF Row, Rows, Statuses, Notes
  <1>2. g \in Seq(Rows) /\ Len(g) = 1 /\ g[1] = Row("CREATED", "none")
    BY <1>1
  <1>3. Entries(posted[t], 0, 0, 0, 0, 0)
    BY DEF IInv, DataInv, LedgerAt, CreateTransfer
  <1>4. /\ LedgerAt("CREATED", g, posted[t])
        /\ TrailAt("CREATED", g)
        /\ HoldAt("CREATED", g)
    BY <1>1, <1>2, <1>3 DEF LedgerAt, TrailAt, HoldAt, None
  <1>5. /\ status' = [status EXCEPT ![t] = "CREATED"]
        /\ history' = [history EXCEPT ![t] = g]
        /\ UNCHANGED posted
    BY DEF CreateTransfer
  <1> HIDE DEF g
  <1>6. DataTypeOK'
    BY <1>2, <1>5 DEF IInv, DataInv, DataTypeOK, Statuses
  <1>7. /\ status'[t] = "CREATED" /\ history'[t] = g
        /\ \A u \in Transfers \ {t} : status'[u] = status[u] /\ history'[u] = history[u]
    BY <1>5 DEF IInv, DataInv, DataTypeOK
  <1>8. ASSUME NEW u \in Transfers
        PROVE  /\ LedgerAt(status'[u], history'[u], posted'[u])
               /\ status'[u] = None => history'[u] = <<>>
               /\ status'[u] # None => TrailAt(status'[u], history'[u])
               /\ screen(u) => HoldAt(status'[u], history'[u])
    <2>1. CASE u = t
      BY <2>1, <1>4, <1>5, <1>7 DEF None
    <2>2. CASE u # t
      BY <2>2, <1>5, <1>7 DEF IInv, DataInv
    <2> QED BY <2>1, <2>2
  <1>9. DataInv'
    BY <1>6, <1>8 DEF DataInv, LedgerAt, TrailAt, HoldAt, screen, Entries
  <1>10. FundingInv'
    <2>1. ~funding[t]
      BY DEF IInv, FundingInv, CreateTransfer, None
    <2>2. UNCHANGED <<onchain, funding, seen>>
      BY DEF CreateTransfer
    <2>3. driver' \in [Transfers -> Drivers]
      BY DEF IInv, FundingInv, CreateTransfer, Drivers
    <2> QED BY <2>1, <2>2, <2>3, <1>5, FundingKept DEF IInv, FundingInv
  <1> QED BY <1>9, <1>10 DEF IInv
-----------------------------------------------------------------------------
\* A driver step that applies one transition.
LEMMA DriveApplyInv ==
    ASSUME IInv, NEW t \in Transfers, NEW to, NEW n \in Notes,
           apply(t, to, n), LoopWith(t, to), UNCHANGED onchain,
           screen(t) /\ to = "SCREENED" => n = "hold",
           to # "AWAITING_FUNDS" \/ ~screen(t),
           \/ ~funding[t] /\ UNCHANGED funding
           \/ funding' = [funding EXCEPT ![t] = FALSE]
    PROVE  IInv'
  <1>1. DataInv'
    BY ApplyInv DEF IInv
  <1>2. status' = [status EXCEPT ![t] = to] /\ to \in Statuses
    BY AllowedFacts DEF apply
  <1>3. /\ funding' \in [Transfers -> BOOLEAN]
        /\ \A u \in Transfers : funding'[u] => status'[u] = "AWAITING_FUNDS"
    BY <1>2, FundingKept
  <1>4. /\ driver' \in [Transfers -> Drivers]
        /\ seen' \in [Transfers -> Statuses \cup {None}]
    BY <1>2, LoopTypes DEF IInv
  <1> QED BY <1>1, <1>3, <1>4 DEF IInv, FundingInv

\* Every step of a driver keeps the invariant.
LEMMA DriveInv ==
    ASSUME IInv, NEW t \in Transfers, Drive(t)
    PROVE  IInv'
  <1>0. UNCHANGED onchain
    BY DEF Drive
  <1>1. CASE status_of(t)
    <2>1. UNCHANGED <<status, history, posted, funding>> /\ LoopWith(t, status[t])
      BY <1>1 DEF status_of
    <2>2. status[t] \in Statuses \cup {None}
      BY DEF IInv, FundingInv, DataInv, DataTypeOK
    <2>3. DataInv'
      BY <2>1, DataUnchanged DEF IInv
    <2> QED BY <2>1, <2>2, <2>3, <1>0, LoopTypes DEF IInv, FundingInv
  <1>2. CASE AdvanceHeld(t)
    <2>1. UNCHANGED <<status, history, posted, funding>> /\ LoopWith(t, seen[t])
      BY <1>2 DEF AdvanceHeld
    <2>2. seen[t] \in Statuses \cup {None}
      BY DEF IInv, FundingInv, DataInv, DataTypeOK
    <2>3. DataInv'
      BY <2>1, DataUnchanged DEF IInv
    <2> QED BY <2>1, <2>2, <2>3, <1>0, LoopTypes DEF IInv, FundingInv
  <1>3. CASE AdvanceBlocked(t)
    <2>1. UNCHANGED <<status, history, posted, funding>> /\ LoopWith(t, status[t])
      BY <1>3 DEF AdvanceBlocked
    <2>2. status[t] \in Statuses \cup {None}
      BY DEF IInv, FundingInv, DataInv, DataTypeOK
    <2>3. DataInv'
      BY <2>1, DataUnchanged DEF IInv
    <2> QED BY <2>1, <2>2, <2>3, <1>0, LoopTypes DEF IInv, FundingInv
  <1>4. CASE AdvanceInsufficient(t)
    <2>1. apply(t, "REJECTED", "none") /\ LoopWith(t, "REJECTED")
      BY <1>4 DEF AdvanceInsufficient
    <2>2. ~funding[t] /\ UNCHANGED funding /\ "none" \in Notes
      BY <1>4 DEF AdvanceInsufficient, Advancing, Locked, Notes
    <2> QED BY <2>1, <2>2, <1>0, DriveApplyInv
  <1>5. CASE AdvanceFundsChecked(t)
    <2>1. /\ UNCHANGED <<onchain, status, history, posted, driver, seen>>
          /\ funding' = [funding EXCEPT ![t] = TRUE]
          /\ status[t] = "AWAITING_FUNDS"
      BY <1>5, <1>0 DEF AdvanceFundsChecked
    <2>2. DataInv'
      BY <2>1, DataUnchanged DEF IInv
    <2> QED BY <2>1, <2>2 DEF IInv, FundingInv
  <1>6. CASE AdvanceFunded(t)
    <2>1. apply(t, "FUNDED", "none") /\ LoopWith(t, "FUNDED")
      BY <1>6 DEF AdvanceFunded
    <2>2. funding' = [funding EXCEPT ![t] = FALSE] /\ "none" \in Notes
      BY <1>6 DEF AdvanceFunded, Notes
    <2> QED BY <2>1, <2>2, <1>0, DriveApplyInv
  <1>7. CASE AdvanceForward(t)
    <2> DEFINE to == forward_step(status[t])
               n == payload_for(t, to)
    <2>1. apply(t, to, n) /\ LoopWith(t, to)
      BY <1>7 DEF AdvanceForward
    <2>2. ~funding[t] /\ UNCHANGED funding
      BY <1>7 DEF AdvanceForward, Advancing, Locked
    <2>3. n \in Notes /\ (screen(t) /\ to = "SCREENED" => n = "hold")
      BY DEF payload_for, Notes
    <2>4. to # "AWAITING_FUNDS" \/ ~screen(t)
      <3>1. SUFFICES ASSUME to = "AWAITING_FUNDS", screen(t) PROVE FALSE
        OBVIOUS
      <3>2. to \in allowed(status[t])
        BY <2>1 DEF apply
      <3>3. status[t] = "SCREENED"
        BY <3>1, <3>2, AllowedFrom
      <3>4. is_held(t)
        BY <3>1, <3>3 DEF IInv, DataInv, HoldAt, is_held
      <3> QED BY <3>3, <3>4, <1>7 DEF AdvanceForward, HeldForReview
    <2> HIDE DEF to, n
    <2> QED BY <2>1, <2>2, <2>3, <2>4, <1>0, DriveApplyInv
  <1> QED BY <1>1, <1>2, <1>3, <1>4, <1>5, <1>6, <1>7 DEF Drive

\* A step of the compliance desk, of operations or of the listener: the data
\* part is given, the drivers are untouched and the row was not locked.
LEMMA OutsideInv ==
    ASSUME IInv, NEW t \in Transfers, NEW to, DataInv',
           status' = [status EXCEPT ![t] = to], ~Locked(t),
           UNCHANGED <<onchain, driver, seen, funding>>
    PROVE  IInv'
  <1>1. \A u \in Transfers : funding'[u] => status'[u] = "AWAITING_FUNDS"
    BY FundingKept DEF Locked
  <1> QED BY <1>1 DEF IInv, FundingInv

\* An analyst's decision keeps the invariant.
LEMMA ResolveInv ==
    ASSUME IInv, NEW t \in Transfers, NEW decision \in {"clear", "reject"},
           resolve_screening_hold(t, decision)
    PROVE  IInv'
  <1> DEFINE to == IF decision = "clear" THEN "AWAITING_FUNDS" ELSE "REJECTED"
             n == IF decision = "clear" THEN "cleared" ELSE "none"
  <1>1. apply(t, to, n) /\ ~Locked(t) /\ UNCHANGED <<onchain, driver, seen, funding>>
    BY DEF resolve_screening_hold
  <1>2. n \in Notes /\ (to = "AWAITING_FUNDS" => n = "cleared") /\ to # "SCREENED"
    BY DEF Notes
  <1> HIDE DEF to, n
  <1>3. DataInv'
    BY <1>1, <1>2, ApplyInv DEF IInv
  <1> QED BY <1>1, <1>3, OutsideInv DEF apply

\* The pre-funding timeout keeps the invariant.
LEMMA ExpireInv ==
    ASSUME IInv, NEW t \in Transfers, expire_transfer(t)
    PROVE  IInv'
  <1>1. apply(t, "EXPIRED", "none") /\ ~Locked(t) /\ UNCHANGED <<onchain, driver, seen, funding>>
    BY DEF expire_transfer
  <1>2. DataInv'
    BY <1>1, ApplyInv DEF IInv, Notes
  <1> QED BY <1>1, <1>2, OutsideInv DEF apply

\* An ops reversal keeps the invariant.
LEMMA ReverseInv ==
    ASSUME IInv, NEW t \in Transfers, reverse_transfer(t)
    PROVE  IInv'
  <1>1. /\ apply_both(t, "REVERSING", "REVERSED")
        /\ ~Locked(t) /\ UNCHANGED <<onchain, driver, seen, funding>>
    BY DEF reverse_transfer
  <1>2. DataInv'
    BY <1>1, ApplyBothInv DEF IInv
  <1> QED BY <1>1, <1>2, OutsideInv DEF apply_both

\* The path of an event never writes a SCREENED or an AWAITING_FUNDS row.
LEMMA PathFacts ==
    ASSUME NEW target \in OnchainTargets, NEW from
    PROVE  LET path == OnchainPath(target, from) IN
           \A i \in 1 .. Len(path) : path[i] \notin {"SCREENED", "AWAITING_FUNDS"}
  BY DEF OnchainPath, OnchainTargets

\* An event asks for at most two transitions.
LEMMA LenPath ==
    ASSUME NEW target, NEW from
    PROVE  LET path == OnchainPath(target, from) IN
           path = <<>> \/ Len(path) = 1 \/ Len(path) = 2
  BY DEF OnchainPath

\* A confirmed vault event keeps the invariant.
LEMMA OnchainInv ==
    ASSUME IInv, NEW t \in Transfers, NEW target \in OnchainTargets,
           apply_onchain(t, target)
    PROVE  IInv'
  <1> DEFINE path == OnchainPath(target, status[t])
  <1>1. ~Locked(t) /\ UNCHANGED <<onchain, driver, seen, funding>>
    BY DEF apply_onchain, ForListener
  <1>2. \/ Len(path) = 1 /\ apply(t, path[1], "none")
        \/ Len(path) = 2 /\ apply_both(t, path[1], path[2])
    BY LenPath DEF apply_onchain, OnchainOutcome
  <1>3. \A i \in 1 .. Len(path) : path[i] \notin {"SCREENED", "AWAITING_FUNDS"}
    BY PathFacts
  <1> HIDE DEF path
  <1>4. CASE Len(path) = 1 /\ apply(t, path[1], "none")
    <2>1. path[1] \notin {"SCREENED", "AWAITING_FUNDS"}
      BY <1>3, <1>4
    <2>2. DataInv'
      BY <2>1, <1>4, ApplyInv DEF IInv, Notes
    <2> QED BY <2>2, <1>1, <1>4, OutsideInv DEF apply
  <1>5. CASE Len(path) = 2 /\ apply_both(t, path[1], path[2])
    <2>1. path[1] \notin {"SCREENED", "AWAITING_FUNDS"} /\ path[2] \notin {"SCREENED", "AWAITING_FUNDS"}
      BY <1>3, <1>5
    <2>2. DataInv'
      BY <2>1, <1>5, ApplyBothInv DEF IInv
    <2> QED BY <2>2, <1>1, <1>5, OutsideInv DEF apply_both
  <1> QED BY <1>2, <1>4, <1>5

\* Losing a driver keeps the invariant: an open funding transaction rolls back.
LEMMA LostInv ==
    ASSUME IInv, NEW t \in Transfers, DriverLost(t)
    PROVE  IInv'
  <1>1. DataInv'
    BY DataUnchanged DEF DriverLost, IInv
  <1> QED BY <1>1 DEF DriverLost, IInv, FundingInv, Drivers

\* The invariant is inductive.
LEMMA NextInv == IInv /\ [Next]_vars => IInv'
  <1> SUFFICES ASSUME IInv, [Next]_vars PROVE IInv'
    OBVIOUS
  <1>1. CASE UNCHANGED vars
    BY <1>1, DataUnchanged DEF vars, IInv, FundingInv
  <1>2. ASSUME NEW t \in Transfers,
               \/ Backend(t)
               \/ \E target \in OnchainTargets : apply_onchain(t, target)
        PROVE  IInv'
    BY <1>2, CreateInv, DriveInv, LostInv, ResolveInv, ExpireInv, ReverseInv, OnchainInv
       DEF Backend
  <1> QED BY <1>1, <1>2 DEF Next
-----------------------------------------------------------------------------
\* The inductive invariant gives the properties the runs check.
LEMMA InvGivesMoney == IInv => MoneyFollowsStatus
  <1> SUFFICES ASSUME IInv, NEW t \in Transfers
               PROVE  /\ \A k \in Kinds : posted[t][k] \in {0, 1}
                      /\ SendDue(t) = 1 <=>
                            \/ status[t] \in {"FUNDED", "SETTLING", "SETTLED", "PAYING_OUT",
                                              "COMPLETED", "REVERSING"}
                            \/ RejectedAfterFunding(t)
                      /\ SendDue(t) \in {0, 1}
                      /\ RecvHeld(t) = IF status[t] \in {"SETTLED", "PAYING_OUT"} THEN 1 ELSE 0
    BY DEF MoneyFollowsStatus
  <1>1. LedgerAt(status[t], history[t], posted[t])
    BY DEF IInv, DataInv
  <1>2. status[t] \in Statuses \cup {None}
    BY DEF IInv, DataInv, DataTypeOK
  <1> QED
    BY <1>1, <1>2 DEF LedgerAt, Entries, Kinds, SendDue, RecvHeld, RejectedAfterFunding,
                      Statuses, None

\* The path part of the invariant is the property itself.
LEMMA InvGivesPath == IInv => HistoryIsPath
  BY DEF IInv, DataInv, HistoryIsPath, TrailAt

\* The hold part of the invariant gives the property.
LEMMA InvGivesHold == IInv => HoldRespected
  BY DEF IInv, DataInv, HoldRespected, HoldAt

\* The inductive invariant holds in every reachable state.
THEOREM EngineInvariant == Spec => []IInv
  BY InitInv, NextInv, PTL DEF Spec

\* Type correctness of the engine's tables and its drivers' local state.
THEOREM TypeCorrect == Spec => []TypeOK
  <1>1. IInv => TypeOK
    BY DEF IInv, DataInv, DataTypeOK, FundingInv, TypeOK
  <1> QED BY <1>1, EngineInvariant, PTL

\* The ledger entries of a transfer always agree with its status (post_ledger_for,
\* post_send_refund and their callers).
THEOREM LedgerAgrees == Spec => []MoneyFollowsStatus
  BY InvGivesMoney, EngineInvariant, PTL

\* transfer_state_history is always a path of the transition table that ends in
\* current_status (apply, apply_onchain, reverse_transfer).
THEOREM TrailIsPath == Spec => []HistoryIsPath
  BY InvGivesPath, EngineInvariant, PTL

\* A held transfer reaches AWAITING_FUNDS only through an analyst's clearance
\* (advance_once, resolve_screening_hold, apply_onchain).
THEOREM HoldsAreRespected == Spec => []HoldRespected
  BY InvGivesHold, EngineInvariant, PTL
-----------------------------------------------------------------------------
\* The two transitions of one on-chain transaction.
LEMMA PathPairs ==
    ASSUME NEW target \in OnchainTargets, NEW from, Len(OnchainPath(target, from)) = 2
    PROVE  LET path == OnchainPath(target, from) IN
           \/ path[1] = "SETTLING" /\ path[2] = "SETTLED"
           \/ path[1] = "REVERSING" /\ path[2] = "REVERSED"
  BY DEF OnchainPath, OnchainTargets

\* What a step of the engine can do to the tables.
Changes ==
    \/ UNCHANGED <<status, history, posted>>
    \/ \E t \in Transfers : CreateTransfer(t)
    \/ \E t \in Transfers, n \in Notes : \E to \in Statuses : apply(t, to, n)
    \/ \E t \in Transfers : apply_both(t, "SETTLING", "SETTLED")
    \/ \E t \in Transfers : apply_both(t, "REVERSING", "REVERSED")

\* Every step creates a row, applies one transition, applies one of the two
\* pairs, or leaves the tables alone.
LEMMA StepChanges == [Next]_vars => Changes
  <1> SUFFICES ASSUME [Next]_vars PROVE Changes
    OBVIOUS
  <1>a. {"none", "hold", "cleared"} = Notes
    BY DEF Notes
  <1>b. \A t \in Transfers, n \in Notes : \A to : apply(t, to, n) => Changes
    BY AllowedFacts DEF apply, Changes
  <1>1. CASE UNCHANGED vars
    BY <1>1 DEF vars, Changes
  <1>2. ASSUME NEW t \in Transfers, Drive(t) PROVE Changes
    <2>1. CASE status_of(t) \/ AdvanceHeld(t) \/ AdvanceBlocked(t) \/ AdvanceFundsChecked(t)
      BY <2>1 DEF status_of, AdvanceHeld, AdvanceBlocked, AdvanceFundsChecked, Changes
    <2>2. CASE AdvanceInsufficient(t) \/ AdvanceFunded(t)
      BY <2>2, <1>a, <1>b DEF AdvanceInsufficient, AdvanceFunded
    <2>3. CASE AdvanceForward(t)
      <3>1. payload_for(t, forward_step(status[t])) \in Notes
        BY <1>a DEF payload_for
      <3> QED BY <2>3, <3>1, <1>b DEF AdvanceForward
    <2> QED BY <1>2, <2>1, <2>2, <2>3 DEF Drive
  <1>3. ASSUME NEW t \in Transfers, NEW decision \in {"clear", "reject"},
               resolve_screening_hold(t, decision)
        PROVE  Changes
    BY <1>3, <1>a, <1>b DEF resolve_screening_hold
  <1>4. ASSUME NEW t \in Transfers, NEW target \in OnchainTargets, apply_onchain(t, target)
        PROVE  Changes
    <2> DEFINE path == OnchainPath(target, status[t])
    <2>1. CASE Len(path) = 1 /\ apply(t, path[1], "none")
      BY <2>1, <1>a, <1>b
    <2>2. CASE Len(path) = 2 /\ apply_both(t, path[1], path[2])
      <3>1. \/ path[1] = "SETTLING" /\ path[2] = "SETTLED"
            \/ path[1] = "REVERSING" /\ path[2] = "REVERSED"
        BY <2>2, PathPairs
      <3> HIDE DEF path
      <3> QED BY <2>2, <3>1 DEF Changes
    <2>3. path # <<>>
      BY <1>4 DEF apply_onchain, OnchainOutcome
    <2> QED BY <1>4, <2>1, <2>2, <2>3, LenPath DEF apply_onchain
  <1>5. ASSUME NEW t \in Transfers, expire_transfer(t) PROVE Changes
    BY <1>5, <1>a, <1>b DEF expire_transfer
  <1>6. ASSUME NEW t \in Transfers, reverse_transfer(t) PROVE Changes
    BY <1>6 DEF reverse_transfer, Changes
  <1>7. ASSUME NEW t \in Transfers, CreateTransfer(t) PROVE Changes
    BY <1>7 DEF Changes
  <1>8. ASSUME NEW t \in Transfers, DriverLost(t) PROVE Changes
    BY <1>8 DEF DriverLost, Changes
  <1> QED BY <1>1, <1>2, <1>3, <1>4, <1>5, <1>6, <1>7, <1>8 DEF Next, Backend

\* A closed transfer's row, trail and entries are never touched again.
THEOREM ClosedStaysClosed == Spec => ClosedIsFinal
  <1>1. IInv /\ [Next]_vars =>
          [\A t \in Transfers :
              status[t] \in {"REJECTED", "EXPIRED", "REVERSED"} =>
                  /\ status'[t] = status[t]
                  /\ history'[t] = history[t]
                  /\ posted'[t] = posted[t]]_vars
    <2> SUFFICES ASSUME IInv, Changes, NEW u \in Transfers,
                        status[u] \in {"REJECTED", "EXPIRED", "REVERSED"}
                 PROVE  status'[u] = status[u] /\ history'[u] = history[u] /\ posted'[u] = posted[u]
      BY StepChanges
    <2>0. DataTypeOK
      BY DEF IInv, DataInv
    <2>1. CASE \E t \in Transfers : CreateTransfer(t)
      BY <2>0, <2>1 DEF CreateTransfer, DataTypeOK, None
    <2>2. CASE \E t \in Transfers, n \in Notes : \E to \in Statuses : apply(t, to, n)
      <3>1. PICK t \in Transfers, n \in Notes : \E to \in Statuses : apply(t, to, n)
        BY <2>2
      <3>2. t # u
        BY <3>1, AllowedFacts DEF apply
      <3> QED BY <2>0, <3>1, <3>2 DEF apply, DataTypeOK
    <2>3. CASE \E t \in Transfers : apply_both(t, "SETTLING", "SETTLED")
      <3>1. PICK t \in Transfers : apply_both(t, "SETTLING", "SETTLED")
        BY <2>3
      <3>2. t # u
        BY <3>1, AllowedFacts DEF apply_both
      <3> QED BY <2>0, <3>1, <3>2 DEF apply_both, DataTypeOK
    <2>4. CASE \E t \in Transfers : apply_both(t, "REVERSING", "REVERSED")
      <3>1. PICK t \in Transfers : apply_both(t, "REVERSING", "REVERSED")
        BY <2>4
      <3>2. t # u
        BY <3>1, AllowedFacts DEF apply_both
      <3> QED BY <2>0, <3>1, <3>2 DEF apply_both, DataTypeOK
    <2> QED BY <2>1, <2>2, <2>3, <2>4 DEF Changes
  <1> QED BY <1>1, EngineInvariant, PTL DEF Spec, ClosedIsFinal
-----------------------------------------------------------------------------
\* The place the exact entries of a status stand for.
LEMMA PlaceAt ==
    ASSUME NEW s \in Statuses \cup {None}, NEW h, NEW p, LedgerAt(s, h, p)
    PROVE  /\ s \in {None, "CREATED", "QUOTED", "SCREENED", "AWAITING_FUNDS", "EXPIRED"}
                => Place(p) = "customer"
           /\ s \in {"FUNDED", "SETTLING"} => Place(p) = "platform"
           /\ s \in {"SETTLED", "PAYING_OUT"} => Place(p) = "converted"
           /\ s = "COMPLETED" => Place(p) = "beneficiary"
           /\ s = "REVERSING" => Place(p) \in {"beneficiary", "returned"}
           /\ s = "REVERSED" => Place(p) = "refunded"
           /\ s = "REJECTED" => Place(p) \in {"customer", "platform"}
  BY DEF LedgerAt, Entries, Place, Statuses, None

\* One transition moves the money along Flow or leaves it where it is.
LEMMA PlaceStep ==
    ASSUME NEW s \in Statuses, NEW h \in Seq(Rows), NEW p \in Ledger,
           NEW to \in allowed(s), NEW n \in Notes, LedgerAt(s, h, p), TrailAt(s, h),
           NEW q, q = Postings(p, s, to)
    PROVE  Place(q) = Place(p) \/ <<Place(p), Place(q)>> \in Money!Flow
  <1>1. PICK g : to \in Statuses /\ LedgerAt(to, g, q)
    BY AllowedFacts, LedgerStep
  <1>2. CASE q = p
    BY <1>2
  <1>3. CASE to \in {"FUNDED", "SETTLED", "COMPLETED"}
    <2>1. /\ to = "FUNDED" => s = "AWAITING_FUNDS"
          /\ to = "SETTLED" => s = "SETTLING"
          /\ to = "COMPLETED" => s = "PAYING_OUT"
      BY AllowedFrom
    <2>2. /\ to = "FUNDED" => Place(p) = "customer" /\ Place(q) = "platform"
          /\ to = "SETTLED" => Place(p) = "platform" /\ Place(q) = "converted"
          /\ to = "COMPLETED" => Place(p) = "converted" /\ Place(q) = "beneficiary"
      BY <1>1, <2>1, PlaceAt
    <2> QED BY <1>3, <2>2 DEF Money!Flow
  <1>4. CASE to = "REVERSING" /\ s # "COMPLETED"
    <2>1. q = Entry(p, "unconverted") /\ s \in {"SETTLED", "PAYING_OUT"}
      BY <1>4, PostingsFacts, AllowedFrom
    <2>2. Place(p) = "converted"
      BY <2>1, PlaceAt
    <2>3. q["unconverted"] = 1 /\ q["refunded"] = 0
      <3>1. Entries(p, 1, 1, 0, 0, 0)
        BY <2>1 DEF LedgerAt
      <3> QED BY <2>1, <3>1, EntryFacts DEF Entries, Kinds
    <2>4. Place(q) = "returned"
      BY <2>3 DEF Place
    <2> QED BY <2>2, <2>4 DEF Money!Flow
  <1>5. CASE to = "REVERSED"
    <2>1. s = "REVERSING"
      BY <1>5, AllowedFrom
    <2>2. Place(p) \in {"beneficiary", "returned"} /\ Place(q) = "refunded"
      BY <1>1, <1>5, <2>1, PlaceAt
    <2> QED BY <2>2 DEF Money!Flow
  <1>6. \/ to \in {"FUNDED", "SETTLED", "COMPLETED", "REVERSED"}
        \/ to = "REVERSING" /\ s # "COMPLETED"
        \/ q = p
    BY <1>1, AllowedFacts, PostingsFacts DEF Statuses
  <1> QED BY <1>2, <1>3, <1>4, <1>5, <1>6

\* The two pairs of transitions move it along Flow as well.
LEMMA PlacePair ==
    ASSUME IInv, NEW t \in Transfers, NEW mid, NEW to, apply_both(t, mid, to),
           <<mid, to>> \in {<<"SETTLING", "SETTLED">>, <<"REVERSING", "REVERSED">>}
    PROVE  <<Place(posted[t]), Place(posted'[t])>> \in Money!Flow
  <1>1. /\ status[t] \in Statuses /\ mid \in allowed(status[t])
        /\ LedgerAt(status[t], history[t], posted[t])
    BY AllowedFacts DEF IInv, DataInv, apply_both
  <1>2. DataInv'
    BY ApplyBothInv DEF IInv
  <1>3. LedgerAt(status'[t], history'[t], posted'[t]) /\ status'[t] \in Statuses \cup {None}
    BY <1>2 DEF DataInv, DataTypeOK, LedgerAt, Entries
  <1>4. status'[t] = to
    BY DEF apply_both, IInv, DataInv, DataTypeOK
  <1>5. CASE mid = "SETTLING" /\ to = "SETTLED"
    <2>1. status[t] = "FUNDED"
      BY <1>1, <1>5, AllowedFrom
    <2>2. Place(posted[t]) = "platform" /\ Place(posted'[t]) = "converted"
      BY <1>1, <1>3, <1>4, <1>5, <2>1, PlaceAt
    <2> QED BY <2>2 DEF Money!Flow
  <1>6. CASE mid = "REVERSING" /\ to = "REVERSED"
    <2>1. status[t] \in {"SETTLED", "PAYING_OUT", "COMPLETED"}
      BY <1>1, <1>6, AllowedFrom
    <2>2. Place(posted[t]) \in {"converted", "beneficiary"} /\ Place(posted'[t]) = "refunded"
      BY <1>1, <1>3, <1>4, <1>6, <2>1, PlaceAt
    <2> QED BY <2>2 DEF Money!Flow
  <1> QED BY <1>5, <1>6

\* A change of one transfer's entries along Flow is a step of the promise.
LEMMA MoneyMove ==
    ASSUME NEW t \in Transfers, NEW q, DataTypeOK, posted' = [posted EXCEPT ![t] = q],
           Place(q) = Place(posted[t]) \/ <<Place(posted[t]), Place(q)>> \in Money!Flow
    PROVE  [Money!Next]_([u \in Transfers |-> Place(posted[u])])
  <1> DEFINE before == [u \in Transfers |-> Place(posted[u])]
             after == [u \in Transfers |-> Place(posted'[u])]
  <1>1. posted'[t] = q /\ \A u \in Transfers \ {t} : posted'[u] = posted[u]
    BY DEF DataTypeOK
  <1>2. after = [before EXCEPT ![t] = Place(q)]
    <2>1. ASSUME NEW u \in Transfers
          PROVE  Place(posted'[u]) = IF u = t THEN Place(q) ELSE Place(posted[u])
      BY <1>1
    <2> QED BY <2>1
  <1>3. CASE Place(q) = Place(posted[t])
    <2>1. after = before
      BY <1>1, <1>3
    <2> QED BY <2>1
  <1>4. CASE <<Place(posted[t]), Place(q)>> \in Money!Flow
    <2>1. Place(q) \in Money!Places
      BY <1>4 DEF Money!Flow, Money!Places
    <2>2. Money!Move(t, Place(q))
      BY <1>2, <1>4 DEF Money!Move
    <2> QED BY <2>1, <2>2 DEF Money!Next
  <1> QED BY <1>3, <1>4

\* The engine's ledger implements the money-flow promise: no debit twice, no
\* refund twice or without a debit, no payout after a return.
THEOREM EngineImplementsMoneyFlow == Spec => MoneyFlowSpec
  <1> DEFINE places == [t \in Transfers |-> Place(posted[t])]
  <1>1. Init => Money!Init
    <2> SUFFICES ASSUME Init PROVE places = [t \in Transfers |-> "customer"]
      BY DEF Money!Init
    <2>1. \A t \in Transfers : Place(posted[t]) = "customer"
      BY DEF Init, Place, Kinds
    <2> QED BY <2>1
  <1>2. IInv /\ [Next]_vars => [Money!Next]_places
    <2> SUFFICES ASSUME IInv, Changes PROVE [Money!Next]_places
      BY StepChanges
    <2>0. DataTypeOK
      BY DEF IInv, DataInv
    <2>1. CASE UNCHANGED posted
      BY <2>1
    <2>2. CASE \E t \in Transfers, n \in Notes : \E to \in Statuses : apply(t, to, n)
      <3>1. PICK t \in Transfers, n \in Notes, to \in Statuses : apply(t, to, n)
        BY <2>2
      <3>2. /\ status[t] \in Statuses /\ to \in allowed(status[t])
            /\ history[t] \in Seq(Rows) /\ posted[t] \in Ledger
            /\ LedgerAt(status[t], history[t], posted[t]) /\ TrailAt(status[t], history[t])
        BY <3>1, AllowedFacts DEF apply, IInv, DataInv, DataTypeOK, Statuses, None
      <3> DEFINE q == Postings(posted[t], status[t], to)
      <3>3. Place(q) = Place(posted[t]) \/ <<Place(posted[t]), Place(q)>> \in Money!Flow
        BY <3>2, PlaceStep
      <3>4. posted' = [posted EXCEPT ![t] = q]
        BY <3>1 DEF apply
      <3> HIDE DEF q
      <3> QED BY <2>0, <3>3, <3>4, MoneyMove
    <2>3. ASSUME NEW t \in Transfers, NEW mid, NEW to, apply_both(t, mid, to),
                 <<mid, to>> \in {<<"SETTLING", "SETTLED">>, <<"REVERSING", "REVERSED">>}
          PROVE  [Money!Next]_places
      <3>1. <<Place(posted[t]), Place(posted'[t])>> \in Money!Flow
        BY <2>3, PlacePair
      <3>2. posted' = [posted EXCEPT ![t] = posted'[t]]
        BY <2>0, <2>3 DEF apply_both, DataTypeOK
      <3> QED BY <2>0, <3>1, <3>2, MoneyMove
    <2>4. CASE \E t \in Transfers : CreateTransfer(t)
      BY <2>1, <2>4 DEF CreateTransfer
    <2> QED BY <2>1, <2>2, <2>3, <2>4 DEF Changes
  <1> QED BY <1>1, <1>2, EngineInvariant, PTL DEF Spec, MoneyFlowSpec, Money!Spec
-----------------------------------------------------------------------------
(* Where the drivers leave a transfer.                                     *)

\* Every transition of the table leads to a higher rank.
Rank(s) ==
    CASE s = "CREATED"        -> 1
      [] s = "QUOTED"         -> 2
      [] s = "SCREENED"       -> 3
      [] s = "AWAITING_FUNDS" -> 4
      [] s = "FUNDED"         -> 5
      [] s = "SETTLING"       -> 6
      [] s = "SETTLED"        -> 7
      [] s = "PAYING_OUT"     -> 8
      [] s = "COMPLETED"      -> 9
      [] s = "REVERSING"      -> 10
      [] s \in {"REJECTED", "EXPIRED", "REVERSED"} -> 11
      [] OTHER                -> 0

Active(t) == driver[t] \in {"request", "task"}
Closed == {"COMPLETED", "REJECTED", "EXPIRED", "REVERSED", "REVERSING"}

\* ParkedKnown of one transfer.
Parked(t) ==
    \/ status[t] \in Closed
    \/ screen(t) /\ status[t] \in {"SCREENED", "AWAITING_FUNDS"}
    \/ ~AutoAdvance /\ status[t] = "AWAITING_FUNDS"
    \/ ~AutoAdvance /\ screen(t) /\ status[t] = "FUNDED"
    \/ onchain /\ status[t] \in {"SETTLING", "SETTLED"}

\* A driver's local status is never ahead of the row; the request's loop only
\* meets AWAITING_FUNDS when an analyst has cleared a hold under it; a hold is
\* screening's.
DriverAt(t) ==
    /\ seen[t] # None => Active(t) /\ Rank(seen[t]) <= Rank(status[t])
    /\ Active(t) => status[t] # None
    /\ driver[t] = "request" =>
          /\ status[t] \in {"CREATED", "QUOTED", "SCREENED", "AWAITING_FUNDS", "REJECTED", "EXPIRED"}
          /\ status[t] = "AWAITING_FUNDS" => screen(t)
    /\ driver[t] = "done" => Parked(t)
    /\ funding[t] => seen[t] # None
    /\ status[t] # None /\ is_held(t) => screen(t)

DriverInv == \A t \in Transfers : DriverAt(t)

\* What the table says of ranks.
LEMMA RankFacts ==
    ASSUME NEW s, NEW to \in allowed(s)
    PROVE  Rank(s) < Rank(to) /\ to # None /\ to \in Statuses
  BY DEF allowed, Rank, Statuses, None

LEMMA RankType == \A s : Rank(s) \in Nat
  BY DEF Rank

\* Closed statuses are those without a forward step.
LEMMA ClosedFacts ==
    ASSUME NEW s \in Statuses
    PROVE  /\ forward_step(s) = None => s \in Closed
           /\ s \in Closed => forward_step(s) = None
           /\ is_terminal(s) => s \in Closed
  BY DEF forward_step, Closed, is_terminal, Statuses, None

\* A transfer that a step leaves alone.
LEMMA OtherDriver ==
    ASSUME NEW u \in Transfers, DriverAt(u), UNCHANGED onchain,
           status'[u] = status[u], history'[u] = history[u], driver'[u] = driver[u],
           seen'[u] = seen[u], funding'[u] = funding[u]
    PROVE  DriverAt(u)'
  BY DEF DriverAt, Active, Parked, is_held, screen

\* A transfer that another party than its driver moves.
LEMMA OutsideDriver ==
    ASSUME IInv, NEW t \in Transfers, DriverAt(t), NEW to, status'[t] = to,
           Rank(status[t]) <= Rank(to), to # None, ~funding[t], ~is_held(t)',
           UNCHANGED <<onchain, driver, seen, funding>>,
           \/ to \in {"EXPIRED", "REJECTED"}
           \/ status[t] \in {"SETTLED", "PAYING_OUT", "COMPLETED", "REVERSING"} /\ to \in Closed
           \/ status[t] \in {"FUNDED", "SETTLING"} /\ to = "SETTLED" /\ onchain
           \/ to = "AWAITING_FUNDS" /\ screen(t)
    PROVE  DriverAt(t)'
  <1>1. Rank(seen[t]) \in Nat /\ Rank(status[t]) \in Nat /\ Rank(to) \in Nat
    BY RankType
  <1>2. seen'[t] # None => Active(t)' /\ Rank(seen'[t]) <= Rank(to)
    BY <1>1 DEF DriverAt, Active
  <1>3. screen(t)' = screen(t)
    BY DEF screen
  <1>4. driver[t] = "done" => Parked(t)'
    BY <1>3 DEF DriverAt, Parked, Closed
  <1>5. driver[t] = "request" =>
          /\ to \in {"CREATED", "QUOTED", "SCREENED", "AWAITING_FUNDS", "REJECTED", "EXPIRED"}
          /\ to = "AWAITING_FUNDS" => screen(t)'
    BY <1>3 DEF DriverAt
  <1> QED BY <1>2, <1>3, <1>4, <1>5 DEF DriverAt, Active

\* A driver that has moved the row, or found it, at next.
LEMMA LoopDriver ==
    ASSUME IInv, NEW t \in Transfers, DriverAt(t), Active(t), NEW next \in Statuses,
           LoopWith(t, next), status'[t] = next, UNCHANGED onchain,
           ~funding'[t], is_held(t)' => screen(t)',
           next = seen[t] => next \in Closed \/ (next = "SETTLING" /\ onchain),
           driver[t] = "request" =>
               \/ next \in {"CREATED", "QUOTED", "SCREENED", "AWAITING_FUNDS", "REJECTED", "EXPIRED"}
               \/ next = "FUNDED" /\ screen(t)
    PROVE  DriverAt(t)'
  <1>1. driver[t] \in Drivers /\ driver \in [Transfers -> Drivers] /\ seen \in [Transfers -> Statuses \cup {None}]
    BY DEF IInv, FundingInv
  <1>2. screen(t)' = screen(t) /\ next # None /\ Rank(next) \in Nat
    BY RankType DEF screen, Statuses, None
  <1>3. CASE next = seen[t] \/ is_terminal(next) \/ ~Loops(driver[t], next)
    <2>1. seen'[t] = None /\ driver'[t] = IF driver[t] = "request" /\ AutoAdvance THEN "task" ELSE "done"
      BY <1>1, <1>3 DEF LoopWith, LeaveLoop
    <2>2. driver'[t] = "done" => Parked(t)'
      <3>1. SUFFICES ASSUME driver'[t] = "done" PROVE Parked(t)'
        OBVIOUS
      <3>2. CASE next \in Closed
        BY <3>2 DEF Parked
      <3>3. CASE next \notin Closed
        <4>1. ~is_terminal(next) /\ forward_step(next) # None
          BY <3>3, ClosedFacts
        <4>2. CASE driver[t] = "task"
          BY <1>3, <4>1, <4>2, <3>3 DEF Loops, Parked
        <4>3. CASE driver[t] = "request"
          BY <1>2, <1>3, <2>1, <3>1, <3>3, <4>1, <4>3 DEF Loops, Parked, Closed
        <4> QED BY <4>2, <4>3 DEF Active
      <3> QED BY <3>2, <3>3
    <2> QED BY <1>2, <2>1, <2>2 DEF DriverAt, Active
  <1>4. CASE ~(next = seen[t] \/ is_terminal(next) \/ ~Loops(driver[t], next))
    <2>1. seen'[t] = next /\ driver' = driver
      BY <1>1, <1>4 DEF LoopWith
    <2>2. driver[t] = "request" => next \in {"CREATED", "QUOTED", "SCREENED"}
      BY <1>4 DEF Loops
    <2> QED BY <1>2, <2>1, <2>2 DEF DriverAt, Active
  <1> QED BY <1>3, <1>4

\* What a transition, or two, leave in the row and in the latest history row.
LEMMA AppliedRow ==
    ASSUME IInv, NEW t \in Transfers, NEW to, NEW n, apply(t, to, n)
    PROVE  /\ status'[t] = to /\ (is_held(t)' => n = "hold")
           /\ Rank(status[t]) < Rank(to) /\ to # None /\ to \in Statuses
           /\ \A u \in Transfers \ {t} : status'[u] = status[u] /\ history'[u] = history[u]
  <1>1. /\ status' = [status EXCEPT ![t] = to]
        /\ history' = [history EXCEPT ![t] = Append(@, Row(to, n))]
        /\ to \in allowed(status[t])
    BY DEF apply
  <1>2. /\ status \in [Transfers -> Statuses \cup {None}] /\ history \in [Transfers -> Seq(Rows)]
        /\ history[t] \in Seq(Rows)
    BY DEF IInv, DataInv, DataTypeOK
  <1>3. history'[t] = Append(history[t], Row(to, n))
    BY <1>1, <1>2
  <1>4. history'[t][Len(history'[t])] = Row(to, n)
    BY <1>2, <1>3
  <1>5. is_held(t)' => n = "hold"
    BY <1>4 DEF is_held, Row
  <1> QED BY <1>1, <1>2, <1>5, RankFacts

LEMMA AppliedBoth ==
    ASSUME IInv, NEW t \in Transfers, NEW mid, NEW to, apply_both(t, mid, to)
    PROVE  /\ status'[t] = to /\ ~is_held(t)'
           /\ Rank(status[t]) < Rank(to) /\ to # None /\ to \in Statuses
           /\ \A u \in Transfers \ {t} : status'[u] = status[u] /\ history'[u] = history[u]
  <1>1. /\ status' = [status EXCEPT ![t] = to]
        /\ history' = [history EXCEPT ![t] = @ \o <<Row(mid, "none"), Row(to, "none")>>]
        /\ mid \in allowed(status[t]) /\ to \in allowed(mid)
    BY DEF apply_both
  <1>2. /\ status \in [Transfers -> Statuses \cup {None}] /\ history \in [Transfers -> Seq(Rows)]
        /\ history[t] \in Seq(Rows)
    BY DEF IInv, DataInv, DataTypeOK
  <1>3. history'[t] = history[t] \o <<Row(mid, "none"), Row(to, "none")>>
    BY <1>1, <1>2
  <1>4. history'[t][Len(history'[t])] = Row(to, "none")
    BY <1>2, <1>3
  <1>5. ~is_held(t)'
    BY <1>4 DEF is_held, Row
  <1>6. Rank(status[t]) < Rank(mid) /\ Rank(mid) < Rank(to) /\ to # None /\ to \in Statuses
    BY <1>1, RankFacts
  <1> QED BY <1>1, <1>2, <1>5, <1>6, RankType

\* A driver's own steps.
LEMMA DriveDriver ==
    ASSUME IInv, NEW t \in Transfers, DriverAt(t), Drive(t)
    PROVE  DriverAt(t)'
  <1>0. UNCHANGED onchain /\ status[t] \in Statuses \cup {None} /\ funding \in [Transfers -> BOOLEAN]
    BY DEF Drive, IInv, DataInv, DataTypeOK, FundingInv
  <1>1. screen(t)' = screen(t)
    BY DEF screen
  <1>2. CASE status_of(t)
    <2>1. /\ Active(t) /\ seen[t] = None /\ LoopWith(t, status[t])
          /\ UNCHANGED <<status, history, funding>>
      BY <1>2 DEF status_of, Active
    <2>2. status[t] \in Statuses /\ status[t] # None /\ ~funding'[t] /\ (is_held(t)' => screen(t)')
      BY <1>0, <1>1, <2>1 DEF DriverAt, is_held
    <2> QED BY <1>0, <2>1, <2>2, LoopDriver DEF DriverAt
  <1>3. CASE AdvanceHeld(t)
    <2>1. /\ Active(t) /\ seen[t] # None /\ ~funding[t] /\ LoopWith(t, seen[t])
          /\ UNCHANGED <<status, history, funding>>
          /\ status[t] = "SCREENED" /\ is_held(t)
      BY <1>3 DEF AdvanceHeld, Advancing, Active, Locked, HeldForReview
    <2>2. screen(t) /\ screen(t)'
      BY <1>1, <2>1 DEF DriverAt, None
    <2>3. seen'[t] = None /\ driver'[t] \in {"task", "done"}
      BY <2>1 DEF LoopWith, LeaveLoop, IInv, FundingInv, Active
    <2> QED BY <1>0, <2>1, <2>2, <2>3 DEF DriverAt, Active, Parked, None
  <1>4. CASE AdvanceBlocked(t)
    <2>1. /\ Active(t) /\ seen[t] # None /\ ~funding[t] /\ LoopWith(t, status[t])
          /\ UNCHANGED <<status, history, funding>> /\ Blocked(t)
      BY <1>4 DEF AdvanceBlocked, Advancing, Active, Locked
    <2>2. status[t] \in Statuses /\ status[t] # None /\ (is_held(t)' => screen(t)')
      BY <1>0, <1>1, <2>1 DEF DriverAt, is_held
    <2>3. status[t] \in Closed \/ (status[t] = "SETTLING" /\ onchain)
      <3>1. CASE onchain_hold(t)
        BY <3>1 DEF onchain_hold
      <3>2. CASE forward_step(status[t]) = None
        BY <2>2, <3>2, ClosedFacts
      <3> QED BY <2>1, <3>1, <3>2 DEF Blocked
    <2> QED BY <1>0, <2>1, <2>2, <2>3, LoopDriver DEF DriverAt
  <1>5. CASE AdvanceInsufficient(t)
    <2>1. /\ Active(t) /\ seen[t] # None /\ ~funding[t] /\ apply(t, "REJECTED", "none")
          /\ LoopWith(t, "REJECTED") /\ UNCHANGED funding
      BY <1>5 DEF AdvanceInsufficient, Advancing, Active, Locked
    <2>2. status'[t] = "REJECTED" /\ ~is_held(t)' /\ "REJECTED" \in Statuses
      BY <2>1, AppliedRow
    <2>3. "REJECTED" \in Closed /\ ~funding'[t] /\ (is_held(t)' => screen(t)')
      BY <2>1, <2>2 DEF Closed
    <2>4. LoopWith(t, "REJECTED") /\ Active(t) /\ UNCHANGED onchain
      BY <1>0, <2>1
    <2> QED BY <2>2, <2>3, <2>4, LoopDriver
  <1>6. CASE AdvanceFundsChecked(t)
    BY <1>0, <1>1, <1>6 DEF AdvanceFundsChecked, Advancing, DriverAt, Active, Parked, is_held
  <1>7. CASE AdvanceFunded(t)
    <2>1. /\ funding[t] /\ apply(t, "FUNDED", "none") /\ LoopWith(t, "FUNDED")
          /\ funding' = [funding EXCEPT ![t] = FALSE]
      BY <1>7 DEF AdvanceFunded
    <2>2. /\ status'[t] = "FUNDED" /\ ~is_held(t)' /\ "FUNDED" \in Statuses
          /\ Rank(status[t]) < Rank("FUNDED")
      BY <2>1, AppliedRow
    <2>3. status[t] = "AWAITING_FUNDS" /\ seen[t] # None /\ Active(t) /\ ~funding'[t]
      BY <1>0, <2>1 DEF IInv, FundingInv, DriverAt
    <2>4. "FUNDED" # seen[t]
      BY <2>2, <2>3, RankType DEF DriverAt
    <2>5. driver[t] = "request" => screen(t)
      BY <2>3 DEF DriverAt
    <2> QED BY <1>0, <2>1, <2>2, <2>3, <2>4, <2>5, LoopDriver
  <1>8. CASE AdvanceForward(t)
    <2> DEFINE to == forward_step(status[t])
               n == payload_for(t, to)
    <2>1. /\ Active(t) /\ seen[t] # None /\ ~funding[t] /\ apply(t, to, n)
          /\ LoopWith(t, to) /\ UNCHANGED funding /\ status[t] # "AWAITING_FUNDS"
      BY <1>8 DEF AdvanceForward, Advancing, Active, Locked
    <2>2. n = "hold" => screen(t)
      BY DEF payload_for
    <2>3. driver[t] = "request" =>
              to \in {"CREATED", "QUOTED", "SCREENED", "AWAITING_FUNDS", "REJECTED", "EXPIRED", None}
      BY <2>1 DEF DriverAt, forward_step
    <2> HIDE DEF to, n
    <2>4. /\ status'[t] = to /\ (is_held(t)' => n = "hold") /\ to \in Statuses /\ to # None
          /\ Rank(status[t]) < Rank(to)
      BY <2>1, AppliedRow
    <2>5. to # seen[t]
      BY <2>1, <2>4, RankType DEF DriverAt
    <2> QED BY <1>0, <1>1, <2>1, <2>2, <2>3, <2>4, <2>5, LoopDriver
  <1> QED BY <1>2, <1>3, <1>4, <1>5, <1>6, <1>7, <1>8 DEF Drive

\* The desks and the chain's events, which move a row under its driver.
LEMMA DeskDriver ==
    ASSUME IInv, NEW t \in Transfers, DriverAt(t),
           \/ \E decision \in {"clear", "reject"} : resolve_screening_hold(t, decision)
           \/ expire_transfer(t)
           \/ reverse_transfer(t)
    PROVE  DriverAt(t)'
  <1>1. ASSUME NEW decision \in {"clear", "reject"}, resolve_screening_hold(t, decision)
        PROVE  DriverAt(t)'
    <2> DEFINE to == IF decision = "clear" THEN "AWAITING_FUNDS" ELSE "REJECTED"
               n == IF decision = "clear" THEN "cleared" ELSE "none"
    <2>1. /\ apply(t, to, n) /\ ~funding[t] /\ screen(t)
          /\ UNCHANGED <<onchain, driver, seen, funding>>
      BY <1>1 DEF resolve_screening_hold, Locked, HeldForReview, DriverAt, None
    <2>2. n # "hold" /\ to \in {"AWAITING_FUNDS", "REJECTED"}
      OBVIOUS
    <2> HIDE DEF to, n
    <2>3. status'[t] = to /\ ~is_held(t)' /\ Rank(status[t]) < Rank(to) /\ to # None
      BY <2>1, <2>2, AppliedRow
    <2>4. Rank(status[t]) <= Rank(to)
      BY <2>3, RankType
    <2> QED BY <2>1, <2>2, <2>3, <2>4, OutsideDriver
  <1>2. CASE expire_transfer(t)
    <2>1. apply(t, "EXPIRED", "none") /\ ~funding[t] /\ UNCHANGED <<onchain, driver, seen, funding>>
      BY <1>2 DEF expire_transfer, Locked
    <2>2. status'[t] = "EXPIRED" /\ ~is_held(t)' /\ Rank(status[t]) < Rank("EXPIRED") /\ "EXPIRED" # None
      BY <2>1, AppliedRow
    <2>3. Rank(status[t]) <= Rank("EXPIRED")
      BY <2>2, RankType
    <2> QED BY <2>1, <2>2, <2>3, OutsideDriver
  <1>3. CASE reverse_transfer(t)
    <2>1. /\ apply_both(t, "REVERSING", "REVERSED") /\ ~funding[t]
          /\ UNCHANGED <<onchain, driver, seen, funding>>
      BY <1>3 DEF reverse_transfer, Locked
    <2>2. /\ status'[t] = "REVERSED" /\ ~is_held(t)' /\ Rank(status[t]) < Rank("REVERSED")
          /\ "REVERSED" # None
      BY <2>1, AppliedBoth
    <2>3. status[t] \in {"SETTLED", "PAYING_OUT", "COMPLETED"} /\ "REVERSED" \in Closed
      BY <2>1 DEF apply_both, allowed, Closed
    <2>4. Rank(status[t]) <= Rank("REVERSED")
      BY <2>2, RankType
    <2> QED BY <2>1, <2>2, <2>3, <2>4, OutsideDriver
  <1> QED BY <1>1, <1>2, <1>3

\* The single transitions an event asks for.
LEMMA PathSingles ==
    ASSUME NEW target \in OnchainTargets, NEW from, Len(OnchainPath(target, from)) = 1
    PROVE  OnchainPath(target, from)[1] \in
               {"SETTLED", "REVERSING", "REVERSED", "REJECTED", "EXPIRED"}
  BY DEF OnchainPath, OnchainTargets

LEMMA EventDriver ==
    ASSUME IInv, NEW t \in Transfers, DriverAt(t), NEW target \in OnchainTargets,
           apply_onchain(t, target)
    PROVE  DriverAt(t)'
  <1> DEFINE path == OnchainPath(target, status[t])
  <1>1. onchain /\ ~funding[t] /\ UNCHANGED <<onchain, driver, seen, funding>>
    BY DEF apply_onchain, ForListener, Locked
  <1>2. \/ Len(path) = 1 /\ apply(t, path[1], "none")
        \/ Len(path) = 2 /\ apply_both(t, path[1], path[2])
    BY LenPath DEF apply_onchain, OnchainOutcome
  <1>3. CASE Len(path) = 1 /\ apply(t, path[1], "none")
    <2>1. path[1] \in {"SETTLED", "REVERSING", "REVERSED", "REJECTED", "EXPIRED"}
      BY <1>3, PathSingles
    <2> DEFINE to == path[1]
    <2>2. apply(t, to, "none") /\ to \in {"SETTLED", "REVERSING", "REVERSED", "REJECTED", "EXPIRED"}
      BY <1>3, <2>1
    <2> HIDE DEF to, path
    <2>3. status'[t] = to /\ ~is_held(t)' /\ Rank(status[t]) < Rank(to) /\ to # None
      BY <2>2, AppliedRow
    <2>4. \/ to \in {"EXPIRED", "REJECTED"}
          \/ status[t] \in {"SETTLED", "PAYING_OUT", "COMPLETED", "REVERSING"} /\ to \in Closed
          \/ status[t] \in {"FUNDED", "SETTLING"} /\ to = "SETTLED"
      BY <2>2 DEF apply, allowed, Closed
    <2>5. Rank(status[t]) <= Rank(to)
      BY <2>3, RankType
    <2> QED BY <1>1, <2>3, <2>4, <2>5, OutsideDriver
  <1>4. CASE Len(path) = 2 /\ apply_both(t, path[1], path[2])
    <2>1. \/ path[1] = "SETTLING" /\ path[2] = "SETTLED"
          \/ path[1] = "REVERSING" /\ path[2] = "REVERSED"
      BY <1>4, PathPairs
    <2> DEFINE mid == path[1]
               to == path[2]
    <2>2. /\ apply_both(t, mid, to)
          /\ \/ mid = "SETTLING" /\ to = "SETTLED"
             \/ mid = "REVERSING" /\ to = "REVERSED"
      BY <1>4, <2>1
    <2> HIDE DEF mid, to, path
    <2>3. status'[t] = to /\ ~is_held(t)' /\ Rank(status[t]) < Rank(to) /\ to # None
      BY <2>2, AppliedBoth
    <2>4. \/ status[t] \in {"SETTLED", "PAYING_OUT", "COMPLETED", "REVERSING"} /\ to \in Closed
          \/ status[t] \in {"FUNDED", "SETTLING"} /\ to = "SETTLED"
      BY <2>2 DEF apply_both, allowed, Closed
    <2>5. Rank(status[t]) <= Rank(to)
      BY <2>3, RankType
    <2> QED BY <1>1, <2>3, <2>4, <2>5, OutsideDriver
  <1> QED BY <1>2, <1>3, <1>4

\* A step of one transfer leaves the row and the driver of the others alone.
LEMMA OneTransfer ==
    ASSUME IInv, NEW t \in Transfers, NEW u \in Transfers \ {t},
           \/ Backend(t)
           \/ \E target \in OnchainTargets : apply_onchain(t, target)
    PROVE  /\ status'[u] = status[u] /\ history'[u] = history[u] /\ driver'[u] = driver[u]
           /\ seen'[u] = seen[u] /\ funding'[u] = funding[u] /\ UNCHANGED onchain
  <1>1. /\ status \in [Transfers -> Statuses \cup {None}]
        /\ history \in [Transfers -> Seq(Rows)]
        /\ driver \in [Transfers -> Drivers]
        /\ seen \in [Transfers -> Statuses \cup {None}]
        /\ funding \in [Transfers -> BOOLEAN]
    BY DEF IInv, DataInv, DataTypeOK, FundingInv
  <1>2. CASE CreateTransfer(t)
    BY <1>1, <1>2 DEF CreateTransfer
  <1>3. CASE Drive(t)
    <2>1. ASSUME NEW next, LoopWith(t, next)
          PROVE  driver'[u] = driver[u] /\ seen'[u] = seen[u]
      BY <1>1, <2>1 DEF LoopWith, LeaveLoop
    <2>2. ASSUME NEW to, NEW n, apply(t, to, n)
          PROVE  status'[u] = status[u] /\ history'[u] = history[u]
      BY <2>2, AppliedRow
    <2> QED BY <1>1, <1>3, <2>1, <2>2
            DEF Drive, status_of, AdvanceHeld, AdvanceBlocked, AdvanceInsufficient,
                AdvanceFundsChecked, AdvanceFunded, AdvanceForward
  <1>4. CASE DriverLost(t)
    BY <1>1, <1>4 DEF DriverLost
  <1>5. ASSUME NEW decision \in {"clear", "reject"}, resolve_screening_hold(t, decision)
        PROVE  /\ status'[u] = status[u] /\ history'[u] = history[u]
               /\ UNCHANGED <<onchain, driver, seen, funding>>
    BY <1>5, AppliedRow DEF resolve_screening_hold
  <1>6. CASE expire_transfer(t)
    BY <1>6, AppliedRow DEF expire_transfer
  <1>7. CASE reverse_transfer(t)
    BY <1>7, AppliedBoth DEF reverse_transfer
  <1>8. ASSUME NEW target \in OnchainTargets, apply_onchain(t, target)
        PROVE  /\ status'[u] = status[u] /\ history'[u] = history[u]
               /\ UNCHANGED <<onchain, driver, seen, funding>>
    <2>1. /\ UNCHANGED <<onchain, driver, seen, funding>>
          /\ \/ apply(t, OnchainPath(target, status[t])[1], "none")
             \/ apply_both(t, OnchainPath(target, status[t])[1], OnchainPath(target, status[t])[2])
      BY <1>8 DEF apply_onchain
    <2> QED BY <2>1, AppliedRow, AppliedBoth
  <1> QED BY <1>2, <1>3, <1>4, <1>5, <1>6, <1>7, <1>8 DEF Backend

LEMMA NextDriver == IInv /\ DriverInv /\ [Next]_vars => DriverInv'
  <1> SUFFICES ASSUME IInv, DriverInv, [Next]_vars, NEW u \in Transfers PROVE DriverAt(u)'
    BY DEF DriverInv
  <1>1. DriverAt(u)
    BY DEF DriverInv
  <1>2. CASE UNCHANGED vars
    BY <1>1, <1>2, OtherDriver DEF vars
  <1>3. ASSUME NEW t \in Transfers,
               \/ Backend(t)
               \/ \E target \in OnchainTargets : apply_onchain(t, target)
        PROVE  DriverAt(u)'
    <2>1. CASE u # t
      BY <1>1, <1>3, <2>1, OneTransfer, OtherDriver
    <2>2. CASE u = t
      <3>1. CASE CreateTransfer(t)
        <4>1. /\ status'[t] = "CREATED" /\ history'[t] = <<Row("CREATED", "none")>>
              /\ driver'[t] = "request" /\ status[t] = None
              /\ UNCHANGED <<onchain, seen, funding>>
          BY <3>1 DEF CreateTransfer, IInv, DataInv, DataTypeOK, FundingInv
        <4>2. seen[t] = None /\ ~funding[t]
          BY <1>1, <2>2, <4>1 DEF DriverAt, IInv, FundingInv, None
        <4>3. ~is_held(t)'
          BY <4>1 DEF is_held, Row
        <4> QED BY <2>2, <4>1, <4>2, <4>3 DEF DriverAt, Active, Rank, None
      <3>2. CASE Drive(t)
        BY <1>1, <2>2, <3>2, DriveDriver
      <3>3. CASE DriverLost(t)
        <4>1. /\ driver'[t] = "lost" /\ seen'[t] = None /\ ~funding'[t]
              /\ UNCHANGED <<onchain, status, history>>
          BY <3>3 DEF DriverLost, IInv, FundingInv
        <4> QED BY <1>1, <2>2, <4>1 DEF DriverAt, Active, is_held, screen
      <3>4. CASE \/ \E decision \in {"clear", "reject"} : resolve_screening_hold(t, decision)
                 \/ expire_transfer(t)
                 \/ reverse_transfer(t)
        BY <1>1, <2>2, <3>4, DeskDriver
      <3>5. CASE \E target \in OnchainTargets : apply_onchain(t, target)
        BY <1>1, <2>2, <3>5, EventDriver
      <3> QED BY <1>3, <3>1, <3>2, <3>3, <3>4, <3>5 DEF Backend
    <2> QED BY <2>1, <2>2
  <1> QED BY <1>2, <1>3 DEF Next

\* A driver that ends its loop, the request's advance_to_awaiting_funds or the
\* task's advance_to_completion, leaves the transfer at one of the known parking
\* places, whatever the desks and the chain did to the row under it.
THEOREM ParkingIsKnown == Spec => []ParkedKnown
  <1>1. Init => DriverInv
    BY DEF Init, DriverInv, DriverAt, Active
  <1>2. IInv /\ DriverInv => ParkedKnown
    BY DEF DriverInv, DriverAt, Parked, ParkedKnown, Closed, is_terminal
  <1> QED BY <1>1, <1>2, EngineInvariant, NextDriver, PTL DEF Spec

(***************************************************************************)
(* Part 2: the engine and the vault.                                       *)
(***************************************************************************)

Cancels == {"QuoteCancelled", "ExpiredQuoteCancelled"}

\* The order in which the vault lets the events of one ref follow each other.
LogAt(l) ==
    /\ Len(l) <= 4
    /\ Len(l) >= 1 => l[1] = "QuoteLocked"
    /\ Len(l) >= 2 => l[2] \in Cancels \cup {"SettlementInitiated"}
    /\ Len(l) >= 3 => l[2] = "SettlementInitiated" /\ l[3] = "SettlementReturned"
    /\ Len(l) = 4 => l[4] = "SettlementRefunded"

\* Nothing of the kind happened before the vault settled it.
Unsettled == Statuses \ {"SETTLED", "PAYING_OUT", "COMPLETED", "REVERSING", "REVERSED"}

\* BooksFollowChain made inductive: where a transfer with status s and trail h
\* can be when the vault has logged l for it and n of those events are delivered.
BookAt(l, n, s, h) ==
    /\ s = None => Len(l) = 0
    /\ Len(l) < 2 => s \in Unsettled \cup {None}
    /\ Len(l) >= 2 /\ l[2] \in Cancels => s \in {"EXPIRED", "REJECTED"}
    /\ Len(l) >= 2 /\ l[2] = "SettlementInitiated" =>
          /\ n < 2 => s \in {"FUNDED", "SETTLING"}
          /\ n = 2 => s \in {"SETTLED", "PAYING_OUT", "COMPLETED", "REVERSED"}
          /\ n = 3 => s \in {"REVERSING", "REVERSED"}
          /\ n = 4 => s = "REVERSED"
    /\ s = "REJECTED" => h[Len(h) - 1].status \notin {"FUNDED", "SETTLING"}

NoneIgnored(r) == \A i \in 1 .. Len(r) : r[i] # "Ignored"

FlowInv ==
    /\ log \in [Transfers -> Seq(VaultEvents)]
    /\ rows \in [Transfers -> Seq(Outcomes)]
    /\ \A t \in Transfers : LogAt(log[t]) /\ Len(rows[t]) <= Len(log[t])
    /\ \A t \in Ordered :
          /\ NoneIgnored(rows[t])
          /\ onchain => BookAt(log[t], Len(rows[t]), status[t], history[t])
-----------------------------------------------------------------------------
(* The vault: which logs it makes.                                         *)

\* The numbers of events a ref can have.
LEMMA UpToFour ==
    ASSUME NEW n \in Nat, n <= 4
    PROVE  n = 0 \/ n = 1 \/ n = 2 \/ n = 3 \/ n = 4
  OBVIOUS

\* ... and of which fewer than three is two.
LEMMA ExactlyTwo ==
    ASSUME NEW n, n = 2 \/ n = 3 \/ n = 4, ~(n >= 3)
    PROVE  n = 2
  OBVIOUS

\* Appending one event keeps the old ones and puts the new one last.
LEMMA AppendEvent ==
    ASSUME NEW l \in Seq(VaultEvents), NEW event \in VaultEvents
    PROVE  /\ Append(l, event) \in Seq(VaultEvents)
           /\ Len(Append(l, event)) = Len(l) + 1
           /\ \A i \in 1 .. Len(l) : Append(l, event)[i] = l[i]
           /\ Append(l, event)[Len(l) + 1] = event
  OBVIOUS

\* One accepted event keeps the vault's order.
LEMMA LogStep ==
    ASSUME NEW l \in Seq(VaultEvents), LogAt(l), NEW event \in VaultEvents,
           NEW last, last = IF l = <<>> THEN "none" ELSE l[Len(l)],
           VaultAccepts(last, event)
    PROVE  /\ LogAt(Append(l, event))
           /\ Len(Append(l, event)) = Len(l) + 1
           /\ \A i \in 1 .. Len(l) : Append(l, event)[i] = l[i]
           /\ Append(l, event)[Len(l) + 1] = event
           /\ event = "QuoteLocked" => Len(l) = 0
           /\ event \in Cancels \cup {"SettlementInitiated"} => Len(l) = 1
           /\ event = "SettlementReturned" => Len(l) = 2 /\ l[2] = "SettlementInitiated"
           /\ event = "SettlementRefunded" => Len(l) = 3
  <1> DEFINE g == Append(l, event)
  <1>1. Len(l) \in Nat /\ Len(l) <= 4
    BY DEF LogAt
  <1>2. /\ g \in Seq(VaultEvents)
        /\ Len(g) = Len(l) + 1
        /\ \A i \in 1 .. Len(l) : g[i] = l[i]
        /\ g[Len(l) + 1] = event
    BY AppendEvent
  <1>3. /\ Len(l) = 0 => last = "none"
        /\ Len(l) = 1 => last = "QuoteLocked"
        /\ Len(l) = 2 => last = l[2] /\ l[2] \in Cancels \cup {"SettlementInitiated"}
        /\ Len(l) = 3 => last = "SettlementReturned" /\ l[2] = "SettlementInitiated"
        /\ Len(l) = 4 => last = "SettlementRefunded"
    <2>1. l = <<>> <=> Len(l) = 0
      OBVIOUS
    <2> QED BY <1>1, <2>1, SMTT(20) DEF LogAt
  <1>4. /\ event = "QuoteLocked" => Len(l) = 0
        /\ event \in Cancels \cup {"SettlementInitiated"} => Len(l) = 1
        /\ event = "SettlementReturned" => Len(l) = 2 /\ l[2] = "SettlementInitiated"
        /\ event = "SettlementRefunded" => Len(l) = 3
    <2>1. \/ Len(l) = 0 \/ Len(l) = 1 \/ Len(l) = 2 \/ Len(l) = 3 \/ Len(l) = 4
      BY <1>1, UpToFour
    <2>2. \/ last = "none" /\ event = "QuoteLocked"
          \/ last = "QuoteLocked" /\ event \in Cancels \cup {"SettlementInitiated"}
          \/ last = "SettlementInitiated" /\ event = "SettlementReturned"
          \/ last = "SettlementReturned" /\ event = "SettlementRefunded"
      BY DEF VaultAccepts, Cancels
    <2>3. "QuoteLocked" \notin Cancels /\ "SettlementInitiated" \notin Cancels
      BY DEF Cancels
    <2>4. "SettlementReturned" \notin Cancels /\ "SettlementRefunded" \notin Cancels
      BY DEF Cancels
    <2>5. CASE Len(l) = 2
      <3>1. last = l[2] /\ l[2] \in {"QuoteCancelled", "ExpiredQuoteCancelled", "SettlementInitiated"}
        BY <1>3, <2>5 DEF Cancels
      <3>2. event = "SettlementReturned" /\ last = "SettlementInitiated"
        BY <2>2, <3>1
      <3> QED BY <2>4, <2>5, <3>1, <3>2
    <2>6. CASE Len(l) = 0
      <3>1. event = "QuoteLocked"
        BY <1>3, <2>2, <2>6
      <3> QED BY <2>3, <2>6, <3>1
    <2>7. CASE Len(l) = 1
      <3>1. event \in Cancels \cup {"SettlementInitiated"}
        BY <1>3, <2>2, <2>7
      <3> QED BY <2>3, <2>4, <2>7, <3>1
    <2>8. CASE Len(l) = 3
      <3>1. event = "SettlementRefunded"
        BY <1>3, <2>2, <2>8
      <3> QED BY <2>4, <2>8, <3>1
    <2>9. Len(l) # 4
      BY <1>3, <2>2
    <2> QED BY <2>1, <2>5, <2>6, <2>7, <2>8, <2>9
  <1> HIDE DEF g
  <1>5. LogAt(g)
    BY <1>1, <1>2, <1>3, <1>4 DEF LogAt, VaultEvents, Cancels
  <1> QED BY <1>2, <1>4, <1>5 DEF g

\* An event the operator sends in order keeps the books where they may be.
LEMMA BookEmit ==
    ASSUME NEW l \in Seq(VaultEvents), LogAt(l), NEW n \in 0 .. Len(l), NEW s, NEW h, s # None,
           BookAt(l, n, s, h), NEW event \in VaultEvents,
           NEW last, last = IF l = <<>> THEN "none" ELSE l[Len(l)],
           VaultAccepts(last, event),
           event = "SettlementInitiated" => s \in {"FUNDED", "SETTLING"},
           event \in Cancels => s \in {"EXPIRED", "REJECTED"}
    PROVE  BookAt(Append(l, event), n, s, h)
  <1> DEFINE g == Append(l, event)
  <1>1. Len(l) \in Nat /\ Len(l) <= 4
    BY DEF LogAt
  <1>2. /\ Len(g) = Len(l) + 1
        /\ \A i \in 1 .. Len(l) : g[i] = l[i]
        /\ g[Len(l) + 1] = event
        /\ event = "QuoteLocked" => Len(l) = 0
        /\ event \in Cancels \cup {"SettlementInitiated"} => Len(l) = 1
        /\ event = "SettlementReturned" => Len(l) = 2 /\ l[2] = "SettlementInitiated"
        /\ event = "SettlementRefunded" => Len(l) = 3
    BY LogStep
  <1> HIDE DEF g
  <1>3. CASE Len(l) = 0
    BY <1>2, <1>3 DEF BookAt, VaultEvents, Cancels
  <1>4. CASE Len(l) = 1
    <2>1. event \in Cancels \cup {"SettlementInitiated"}
      BY <1>2, <1>4 DEF VaultEvents, Cancels
    <2>2. Len(g) = 2 /\ g[2] = event /\ n \in {0, 1}
      BY <1>2, <1>4
    <2>3. s = "REJECTED" => h[Len(h) - 1].status \notin {"FUNDED", "SETTLING"}
      BY DEF BookAt
    <2> QED BY <2>1, <2>2, <2>3 DEF BookAt, Cancels
  <1>5. CASE Len(l) >= 2
    <2>1. g[2] = l[2]
      BY <1>1, <1>2, <1>5
    <2> QED BY <1>1, <1>2, <1>5, <2>1 DEF BookAt
  <1> QED BY <1>1, <1>3, <1>4, <1>5 DEF g
-----------------------------------------------------------------------------
(* The backend: what its steps can do to a transfer that the chain settles. *)

\* The drivers stop at SETTLING, only a reversal leaves the settled statuses
\* backwards, and only an event rejects a funded transfer.
BackendMove(from, to) ==
    \/ from = None /\ to = "CREATED"
    \/ /\ to \in allowed(from)
       /\ to \notin {"SETTLED", "REVERSING", "REVERSED"}
       /\ to = "REJECTED" => from \notin {"FUNDED", "SETTLING"}
    \/ from \in {"SETTLED", "PAYING_OUT", "COMPLETED"} /\ to = "REVERSED"

\* The trail of a transfer that was moved from one status: the row before the last.
CameFrom(from, h) == h[Len(h) - 1].status = from

\* One transition leaves the old status in the row before the last.
LEMMA AppendedFrom ==
    ASSUME NEW h \in Seq(Rows), NEW r \in Rows, Len(h) > 0
    PROVE  CameFrom(h[Len(h)].status, Append(h, r))
  <1> DEFINE g == Append(h, r)
  <1>1. Len(g) = Len(h) + 1 /\ g[Len(h)] = h[Len(h)]
    BY AppendFacts
  <1>2. Len(g) - 1 = Len(h)
    BY <1>1
  <1> HIDE DEF g
  <1>3. CameFrom(h[Len(h)].status, g)
    BY <1>1, <1>2 DEF CameFrom
  <1> QED BY <1>3 DEF g

\* A transfer that a step leaves alone, and one that it moves.
Kept(t) == status'[t] = status[t] /\ history'[t] = history[t]
Moved(t) ==
    /\ BackendMove(status[t], status'[t])
    /\ status'[t] = "REJECTED" => CameFrom(status[t], history'[t])

\* One transition moves its transfer and leaves the others alone.
LEMMA ApplyMoves ==
    ASSUME IInv, NEW t \in Transfers, NEW to, NEW n \in Notes, apply(t, to, n),
           BackendMove(status[t], to)
    PROVE  \A u \in Transfers : Kept(u) \/ Moved(u)
  <1>1. /\ to \in allowed(status[t]) /\ to \in Statuses /\ status[t] # None
        /\ status \in [Transfers -> Statuses \cup {None}]
        /\ history \in [Transfers -> Seq(Rows)]
        /\ status' = [status EXCEPT ![t] = to]
        /\ history' = [history EXCEPT ![t] = Append(@, Row(to, n))]
    BY AllowedFacts DEF apply, IInv, DataInv, DataTypeOK
  <1>2. TrailAt(status[t], history[t]) /\ Row(to, n) \in Rows
    BY <1>1 DEF IInv, DataInv, Row, Rows
  <1>3. CameFrom(status[t], Append(history[t], Row(to, n)))
    BY <1>1, <1>2, AppendedFrom DEF TrailAt
  <1>4. status'[t] = to /\ history'[t] = Append(history[t], Row(to, n))
    BY <1>1
  <1>5. Moved(t)
    BY <1>3, <1>4 DEF Moved
  <1>6. \A u \in Transfers \ {t} : Kept(u)
    BY <1>1 DEF Kept
  <1> QED BY <1>5, <1>6

\* Every step of the backend moves one transfer as BackendMove says.
LEMMA BackendMoves ==
    ASSUME IInv, onchain, NEW t \in Transfers, Backend(t)
    PROVE  \A u \in Transfers : Kept(u) \/ Moved(u)
  <1>0. status \in [Transfers -> Statuses \cup {None}] /\ history \in [Transfers -> Seq(Rows)]
    BY DEF IInv, DataInv, DataTypeOK
  <1>a. {"none", "hold", "cleared"} = Notes
    BY DEF Notes
  <1>1. CASE UNCHANGED <<status, history>>
    BY <1>1 DEF Kept
  <1>2. CASE CreateTransfer(t)
    <2>1. /\ status[t] = None /\ status' = [status EXCEPT ![t] = "CREATED"]
          /\ history' = [history EXCEPT ![t] = <<Row("CREATED", "none")>>]
      BY <1>2 DEF CreateTransfer
    <2>2. Moved(t)
      BY <1>0, <2>1 DEF Moved, BackendMove
    <2>3. \A u \in Transfers \ {t} : Kept(u)
      BY <1>0, <2>1 DEF Kept
    <2> QED BY <2>2, <2>3
  <1>3. CASE Drive(t)
    <2>1. CASE status_of(t) \/ AdvanceHeld(t) \/ AdvanceBlocked(t) \/ AdvanceFundsChecked(t)
      BY <1>1, <2>1 DEF status_of, AdvanceHeld, AdvanceBlocked, AdvanceFundsChecked
    <2>2. CASE AdvanceInsufficient(t)
      <3>1. apply(t, "REJECTED", "none") /\ status[t] = "AWAITING_FUNDS"
        BY <2>2 DEF AdvanceInsufficient
      <3>2. BackendMove(status[t], "REJECTED")
        BY <3>1 DEF apply, BackendMove
      <3> QED BY <3>1, <3>2, <1>a, ApplyMoves
    <2>3. CASE AdvanceFunded(t)
      <3>1. apply(t, "FUNDED", "none")
        BY <2>3 DEF AdvanceFunded
      <3>2. BackendMove(status[t], "FUNDED")
        BY <3>1 DEF apply, BackendMove
      <3> QED BY <3>1, <3>2, <1>a, ApplyMoves
    <2>4. CASE AdvanceForward(t)
      <3> DEFINE to == forward_step(status[t])
                 n == payload_for(t, to)
      <3>1. apply(t, to, n) /\ status[t] # "SETTLING"
        BY <2>4 DEF AdvanceForward, Blocked, onchain_hold
      <3>2. n \in Notes
        BY <1>a DEF payload_for
      <3>3. to \notin {"SETTLED", "REVERSING", "REVERSED", "REJECTED"}
        BY <3>1 DEF forward_step, None
      <3> HIDE DEF to, n
      <3>4. BackendMove(status[t], to)
        BY <3>1, <3>3 DEF apply, BackendMove
      <3> QED BY <3>1, <3>2, <3>4, ApplyMoves
    <2> QED BY <1>3, <2>1, <2>2, <2>3, <2>4 DEF Drive
  <1>4. CASE DriverLost(t)
    BY <1>1, <1>4 DEF DriverLost
  <1>5. ASSUME NEW decision \in {"clear", "reject"}, resolve_screening_hold(t, decision)
        PROVE  \A u \in Transfers : Kept(u) \/ Moved(u)
    <2>1. /\ status[t] = "SCREENED"
          /\ apply(t, "AWAITING_FUNDS", "cleared") \/ apply(t, "REJECTED", "none")
      BY <1>5 DEF resolve_screening_hold, HeldForReview
    <2>2. /\ apply(t, "AWAITING_FUNDS", "cleared") => BackendMove(status[t], "AWAITING_FUNDS")
          /\ apply(t, "REJECTED", "none") => BackendMove(status[t], "REJECTED")
      BY <2>1 DEF apply, BackendMove
    <2> QED BY <2>1, <2>2, <1>a, ApplyMoves
  <1>6. CASE expire_transfer(t)
    <2>1. apply(t, "EXPIRED", "none")
      BY <1>6 DEF expire_transfer
    <2>2. BackendMove(status[t], "EXPIRED")
      BY <2>1 DEF apply, BackendMove
    <2> QED BY <2>1, <2>2, <1>a, ApplyMoves
  <1>7. CASE reverse_transfer(t)
    <2>1. apply_both(t, "REVERSING", "REVERSED")
      BY <1>7 DEF reverse_transfer
    <2>2. /\ status[t] \in {"SETTLED", "PAYING_OUT", "COMPLETED"}
          /\ status' = [status EXCEPT ![t] = "REVERSED"]
          /\ \A u \in Transfers \ {t} : history'[u] = history[u]
      BY <1>0, <2>1, AllowedFrom DEF apply_both
    <2>3. Moved(t)
      BY <1>0, <2>2 DEF Moved, BackendMove
    <2>4. \A u \in Transfers \ {t} : Kept(u)
      BY <1>0, <2>2 DEF Kept
    <2> QED BY <2>3, <2>4
  <1> QED BY <1>2, <1>3, <1>4, <1>5, <1>6, <1>7 DEF Backend

\* A move of the backend keeps the books where they may be.
LEMMA BookMove ==
    ASSUME NEW l \in Seq(VaultEvents), LogAt(l), NEW n \in Nat, n <= Len(l),
           NEW s \in Statuses \cup {None}, NEW h, NEW to, NEW g,
           BookAt(l, n, s, h), BackendMove(s, to),
           to = "REJECTED" => CameFrom(s, g)
    PROVE  BookAt(l, n, to, g)
  <1>1. Len(l) \in Nat /\ Len(l) <= 4
    BY DEF LogAt
  <1>2. to \in Statuses /\ to # None
    BY AllowedFacts DEF BackendMove, Statuses, None
  <1>3. to = "REJECTED" => g[Len(g) - 1].status \notin {"FUNDED", "SETTLING"}
    BY DEF BackendMove, CameFrom
  <1>4. CASE Len(l) < 2
    <2>1. s \in Unsettled \cup {None}
      BY <1>4 DEF BookAt
    <2>2. to \in Unsettled
      <3>1. CASE s = None
        <4>1. to = "CREATED"
          BY <3>1, AllowedFacts DEF BackendMove, None
        <4> QED BY <4>1 DEF Unsettled, Statuses
      <3>2. CASE to \in allowed(s)
        BY <2>1, <3>2, <1>2, AllowedFrom DEF BackendMove, Unsettled, None
      <3>3. CASE s \in {"SETTLED", "PAYING_OUT", "COMPLETED"}
        BY <2>1, <3>3 DEF Unsettled, None
      <3> QED BY <3>1, <3>2, <3>3 DEF BackendMove
    <2> QED BY <1>1, <1>2, <1>3, <1>4, <2>2 DEF BookAt
  <1>5. CASE Len(l) >= 2 /\ l[2] \in Cancels
    <2>1. s \in {"EXPIRED", "REJECTED"}
      BY <1>5 DEF BookAt
    <2> QED BY <2>1, AllowedFacts DEF BackendMove, None
  <1>6. CASE Len(l) >= 2 /\ l[2] = "SettlementInitiated"
    <2>1. CASE n < 2
      <3>1. s \in {"FUNDED", "SETTLING"}
        BY <1>6, <2>1 DEF BookAt
      <3>2. to = "SETTLING"
        BY <3>1 DEF BackendMove, allowed, None
      <3> QED BY <1>2, <1>6, <2>1, <3>2 DEF BookAt, Cancels
    <2>2. CASE n = 2
      <3>1. s \in {"SETTLED", "PAYING_OUT", "COMPLETED", "REVERSED"}
        BY <1>6, <2>2 DEF BookAt
      <3>2. to \in {"PAYING_OUT", "COMPLETED", "REVERSED"}
        BY <3>1 DEF BackendMove, allowed, None
      <3> QED BY <1>2, <1>6, <2>2, <3>2 DEF BookAt, Cancels
    <2>3. CASE n >= 3
      <3>1. s \in {"REVERSING", "REVERSED"}
        BY <1>1, <1>6, <2>3, UpToFour DEF BookAt
      <3> QED BY <3>1 DEF BackendMove, allowed, None
    <2> QED BY <2>1, <2>2, <2>3
  <1> QED BY <1>1, <1>4, <1>5, <1>6 DEF LogAt

\* What each vault event asks of the engine.
LEMMA Targets ==
    /\ target_of("SettlementInitiated") = "Settled"
    /\ target_of("SettlementReturned") = "Reversing"
    /\ target_of("SettlementRefunded") = "Reversed"
    /\ \A event \in Cancels : target_of(event) \in {"Cancelled", "CancelledExpired"}
  BY DEF target_of, Cancels

\* A closed transfer has nothing left for a cancellation to do.
LEMMA CancelSeen ==
    ASSUME NEW target \in {"Cancelled", "CancelledExpired"},
           NEW s \in {"EXPIRED", "REJECTED"}
    PROVE  OnchainPath(target, s) = <<>>
  <1>1. CASE target = "Cancelled"
    BY <1>1 DEF OnchainPath
  <1>2. CASE target = "CancelledExpired"
    <2>1. "EXPIRED" \notin allowed(s)
      BY AllowedFacts
    <2> QED BY <1>2, <2>1 DEF OnchainPath
  <1> QED BY <1>1, <1>2

\* The last transition of a path.
LEMMA LastOfPath ==
    ASSUME NEW a, NEW b
    PROVE  <<a>>[Len(<<a>>)] = a /\ <<a, b>>[Len(<<a, b>>)] = b
  OBVIOUS

\* What the next event of a transfer that may be here asks for: nothing that is
\* ignored, and a status the books may have afterwards.
LEMMA NextEvent ==
    ASSUME NEW l \in Seq(VaultEvents), LogAt(l), NEW n \in Nat, n < Len(l),
           NEW s, NEW h, BookAt(l, n, s, h), l[n + 1] # "QuoteLocked"
    PROVE  LET target == target_of(l[n + 1])
               outcome == OnchainOutcome(target, s)
               path == OnchainPath(target, s)
           IN  /\ outcome \in {"Applied", "AlreadyApplied"}
               /\ outcome = "AlreadyApplied" => BookAt(l, n + 1, s, h)
               /\ outcome = "Applied" =>
                     \A g : BookAt(l, n + 1, path[Len(path)], g)
  <1>1. Len(l) \in Nat /\ Len(l) <= 4 /\ n # 0
    BY DEF LogAt
  <1>2. n = 1 \/ n = 2 \/ n = 3
    BY <1>1
  <1>a. Len(l) # 0 /\ Len(l) # 1 /\ (n = 3 => Len(l) # 2 /\ Len(l) # 3)
    BY <1>1, <1>2, SMTT(20)
  <1>b. Len(l) = 2 \/ Len(l) = 3 \/ Len(l) = 4
    BY <1>1, <1>a, UpToFour
  <1>3. CASE l[2] \in Cancels
    <2>0. l[2] # "SettlementInitiated"
      BY <1>3 DEF Cancels
    <2>a. Len(l) = 2
      <3>1. ~(Len(l) >= 3)
        BY <2>0 DEF LogAt
      <3> QED BY <1>b, <3>1, ExactlyTwo
    <2>1. n = 1 /\ Len(l) = 2 /\ s \in {"EXPIRED", "REJECTED"}
      BY <1>2, <1>3, <2>a DEF BookAt
    <2>2. target_of(l[2]) \in {"Cancelled", "CancelledExpired"}
      BY <1>3, Targets
    <2>3. OnchainPath(target_of(l[2]), s) = <<>>
      BY <2>1, <2>2, CancelSeen
    <2>4. OnchainOutcome(target_of(l[2]), s) = "AlreadyApplied"
      BY <2>3 DEF OnchainOutcome
    <2>5. BookAt(l, 2, s, h)
      BY <1>3, <2>1 DEF BookAt, Cancels
    <2> QED BY <2>1, <2>4, <2>5
  <1>4. CASE l[2] = "SettlementInitiated" /\ n = 1
    <2>1. s \in {"FUNDED", "SETTLING"} /\ target_of(l[2]) = "Settled"
      BY <1>1, <1>4, Targets DEF BookAt
    <2>2. OnchainPath("Settled", s) =
             IF s = "FUNDED" THEN <<"SETTLING", "SETTLED">> ELSE <<"SETTLED">>
      BY <2>1 DEF OnchainPath
    <2>3. OnchainOutcome("Settled", s) = "Applied"
      BY <2>1, <2>2 DEF OnchainOutcome, allowed
    <2>4. LET path == OnchainPath("Settled", s) IN path[Len(path)] = "SETTLED"
      <3>1. CASE s = "FUNDED"
        <4>1. OnchainPath("Settled", s) = <<"SETTLING", "SETTLED">>
          BY <2>2, <3>1
        <4>2. <<"SETTLING", "SETTLED">>[Len(<<"SETTLING", "SETTLED">>)] = "SETTLED"
          OBVIOUS
        <4> QED BY <4>1, <4>2
      <3>2. CASE s # "FUNDED"
        BY <2>2, <3>2, LastOfPath
      <3> QED BY <3>1, <3>2
    <2>5. \A g : BookAt(l, 2, "SETTLED", g)
      BY <1>1, <1>4 DEF BookAt, Cancels, None
    <2> QED BY <1>4, <2>1, <2>3, <2>4, <2>5
  <1>5. CASE l[2] = "SettlementInitiated" /\ n = 2
    <2>1. /\ s \in {"SETTLED", "PAYING_OUT", "COMPLETED", "REVERSED"}
          /\ target_of(l[3]) = "Reversing"
      BY <1>1, <1>5, Targets DEF BookAt, LogAt
    <2>2. OnchainPath("Reversing", s) = IF s = "REVERSED" THEN <<>> ELSE <<"REVERSING">>
      BY <2>1 DEF OnchainPath
    <2>3. OnchainOutcome("Reversing", s) = IF s = "REVERSED" THEN "AlreadyApplied" ELSE "Applied"
      BY <2>1, <2>2 DEF OnchainOutcome, allowed
    <2>4. s # "REVERSED" =>
            LET path == OnchainPath("Reversing", s) IN path[Len(path)] = "REVERSING"
      BY <2>2, LastOfPath
    <2>5. \A g : BookAt(l, 3, "REVERSING", g) /\ (s = "REVERSED" => BookAt(l, 3, s, g))
      BY <1>1, <1>5 DEF BookAt, Cancels, None
    <2> QED BY <1>5, <2>1, <2>3, <2>4, <2>5
  <1>6. CASE l[2] = "SettlementInitiated" /\ n = 3
    <2>0. Len(l) = 4
      BY <1>a, <1>b, <1>6
    <2>1. s \in {"REVERSING", "REVERSED"} /\ target_of(l[4]) = "Reversed"
      BY <2>0, <1>6, Targets DEF BookAt, LogAt
    <2>2. OnchainPath("Reversed", s) = IF s = "REVERSED" THEN <<>> ELSE <<"REVERSED">>
      BY <2>1 DEF OnchainPath
    <2>3. OnchainOutcome("Reversed", s) = IF s = "REVERSED" THEN "AlreadyApplied" ELSE "Applied"
      BY <2>1, <2>2 DEF OnchainOutcome, allowed
    <2>4. s # "REVERSED" =>
            LET path == OnchainPath("Reversed", s) IN path[Len(path)] = "REVERSED"
      BY <2>2, LastOfPath
    <2>5. \A g : BookAt(l, 4, "REVERSED", g)
      BY <1>1, <1>6 DEF BookAt, Cancels, None
    <2> QED BY <1>6, <2>1, <2>3, <2>4, <2>5
  <1> QED BY <1>1, <1>2, <1>3, <1>4, <1>5, <1>6 DEF LogAt
-----------------------------------------------------------------------------
(* The flow keeps FlowInv.                                                 *)

\* Before the first transfer nothing is locked, delivered or ignored.
LEMMA FlowInitInv == FlowInit => FlowInv
  <1> SUFFICES ASSUME FlowInit PROVE FlowInv
    OBVIOUS
  <1>1. \A t \in Transfers : log[t] = <<>> /\ rows[t] = <<>> /\ status[t] = None
    BY DEF FlowInit, Init
  <1>2. LogAt(<<>>) /\ NoneIgnored(<<>>)
    BY DEF LogAt, NoneIgnored
  <1>3. \A h : BookAt(<<>>, 0, None, h)
    BY DEF BookAt, None
  <1>4. log \in [Transfers -> Seq(VaultEvents)] /\ rows \in [Transfers -> Seq(Outcomes)]
    BY DEF FlowInit
  <1>5. \A t \in Ordered : t \in Transfers
    BY OrderedAssumption
  <1>6. Len(<<>>) = 0
    OBVIOUS
  <1> QED BY <1>1, <1>2, <1>3, <1>4, <1>5, <1>6 DEF FlowInv

\* A step of the backend: the log and the rows stay, the books move with it.
LEMMA FlowBackendInv ==
    ASSUME IInv, FlowInv, NEW t \in Transfers, FlowBackend(t)
    PROVE  FlowInv'
  <1>1. UNCHANGED <<log, rows, onchain>>
    BY DEF FlowBackend, Backend, CreateTransfer, Drive, DriverLost, resolve_screening_hold,
           expire_transfer, reverse_transfer
  <1>2. ASSUME onchain, NEW u \in Ordered
        PROVE  BookAt(log[u], Len(rows[u]), status'[u], history'[u])
    <2>1. u \in Transfers
      BY OrderedAssumption
    <2>2. /\ log[u] \in Seq(VaultEvents) /\ LogAt(log[u])
          /\ Len(rows[u]) \in Nat /\ Len(rows[u]) <= Len(log[u])
          /\ BookAt(log[u], Len(rows[u]), status[u], history[u])
      BY <1>2, <2>1 DEF FlowInv
    <2>3. status[u] \in Statuses \cup {None}
      BY <2>1 DEF IInv, DataInv, DataTypeOK
    <2>4. Kept(u) \/ Moved(u)
      BY <1>2, <2>1, BackendMoves DEF FlowBackend
    <2>5. CASE Kept(u)
      BY <2>2, <2>5 DEF Kept
    <2>6. CASE Moved(u)
      BY <2>2, <2>3, <2>6, BookMove DEF Moved
    <2> QED BY <2>4, <2>5, <2>6
  <1>3. /\ log' \in [Transfers -> Seq(VaultEvents)]
        /\ rows' \in [Transfers -> Seq(Outcomes)]
        /\ \A u \in Transfers : LogAt(log'[u]) /\ Len(rows'[u]) <= Len(log'[u])
        /\ \A u \in Ordered : NoneIgnored(rows'[u])
    BY <1>1 DEF FlowInv
  <1>4. \A u \in Ordered : onchain' => BookAt(log'[u], Len(rows'[u]), status'[u], history'[u])
    BY <1>1, <1>2
  <1> QED BY <1>3, <1>4 DEF FlowInv, LogAt, NoneIgnored, BookAt

\* A call of the operator or the partner that the vault accepts.
LEMMA EmitInv ==
    ASSUME IInv, FlowInv, NEW t \in Transfers, NEW event \in VaultEvents, Emit(t, event),
           event = "SettlementInitiated" => InOrder(t, {"FUNDED", "SETTLING"}),
           event \in Cancels => InOrder(t, {"EXPIRED", "REJECTED"})
    PROVE  FlowInv'
  <1> DEFINE g == Append(log[t], event)
  <1>1. /\ log' = [log EXCEPT ![t] = g] /\ UNCHANGED <<rows, onchain, status, history>>
        /\ status[t] # None /\ VaultAccepts(LastEvent(t), event)
    BY DEF Emit, vars
  <1>2. log[t] \in Seq(VaultEvents) /\ LogAt(log[t]) /\ Len(rows[t]) <= Len(log[t])
    BY DEF FlowInv
  <1>3. LogAt(g) /\ Len(g) = Len(log[t]) + 1 /\ g \in Seq(VaultEvents)
    BY <1>1, <1>2, LogStep, AppendEvent DEF LastEvent
  <1>4. Len(rows[t]) \in Nat /\ Len(log[t]) \in Nat
    BY <1>2 DEF FlowInv
  <1>5. Len(rows[t]) <= Len(g)
    BY <1>2, <1>3, <1>4
  <1>6. ASSUME onchain, t \in Ordered
        PROVE  BookAt(g, Len(rows[t]), status[t], history[t])
    <2>1. BookAt(log[t], Len(rows[t]), status[t], history[t])
      BY <1>6 DEF FlowInv
    <2>2. /\ event = "SettlementInitiated" => status[t] \in {"FUNDED", "SETTLING"}
          /\ event \in Cancels => status[t] \in {"EXPIRED", "REJECTED"}
      BY <1>6 DEF InOrder
    <2>3. Len(rows[t]) \in 0 .. Len(log[t])
      BY <1>2, <1>4
    <2> QED BY <1>1, <1>2, <2>1, <2>2, <2>3, BookEmit DEF LastEvent
  <1> HIDE DEF g
  <1>7. log'[t] = g /\ \A u \in Transfers \ {t} : log'[u] = log[u]
    BY <1>1 DEF FlowInv
  <1>8. log' \in [Transfers -> Seq(VaultEvents)]
    BY <1>1, <1>3 DEF FlowInv
  <1>9. ASSUME NEW u \in Transfers
        PROVE  /\ LogAt(log'[u]) /\ Len(rows'[u]) <= Len(log'[u])
               /\ u \in Ordered /\ onchain' => BookAt(log'[u], Len(rows'[u]), status'[u], history'[u])
    <2>1. CASE u = t
      BY <2>1, <1>1, <1>3, <1>5, <1>6, <1>7
    <2>2. CASE u # t
      BY <2>2, <1>1, <1>7 DEF FlowInv
    <2> QED BY <2>1, <2>2
  <1> QED BY <1>1, <1>8, <1>9, OrderedAssumption DEF FlowInv, LogAt, NoneIgnored, BookAt

\* Every call of the operator and the partner.
LEMMA ChainInv ==
    ASSUME IInv, FlowInv, NEW t \in Transfers, Chain(t)
    PROVE  FlowInv'
  <1>1. CASE lock_quote(t) \/ returnSettlement(t) \/ refund(t)
    BY <1>1, EmitInv DEF lock_quote, returnSettlement, refund, VaultEvents, Cancels
  <1>2. CASE settle(t)
    BY <1>2, EmitInv DEF settle, VaultEvents, Cancels
  <1>3. CASE cancel_quote(t)
    <2>1. PICK event \in Cancels : Emit(t, event)
      BY <1>3 DEF cancel_quote, Cancels
    <2>2. event \in VaultEvents /\ event # "SettlementInitiated"
      BY DEF Cancels, VaultEvents
    <2>3. InOrder(t, {"EXPIRED", "REJECTED"})
      BY <1>3 DEF cancel_quote
    <2> QED BY <2>1, <2>2, <2>3, EmitInv
  <1> QED BY <1>1, <1>2, <1>3 DEF Chain

\* The status an applied event leaves, and the other transfers it leaves alone.
LEMMA OnchainMoves ==
    ASSUME IInv, NEW t \in Transfers, NEW target \in OnchainTargets, apply_onchain(t, target)
    PROVE  LET path == OnchainPath(target, status[t])
           IN  /\ status'[t] = path[Len(path)]
               /\ \A u \in Transfers \ {t} : Kept(u)
  <1> DEFINE path == OnchainPath(target, status[t])
  <1>1. \/ Len(path) = 1 /\ apply(t, path[1], "none")
        \/ Len(path) = 2 /\ apply_both(t, path[1], path[2])
    BY LenPath DEF apply_onchain, OnchainOutcome
  <1>2. status \in [Transfers -> Statuses \cup {None}] /\ history \in [Transfers -> Seq(Rows)]
    BY DEF IInv, DataInv, DataTypeOK
  <1> HIDE DEF path
  <1>3. ASSUME Len(path) = 1, apply(t, path[1], "none")
        PROVE  status'[t] = path[Len(path)] /\ \A u \in Transfers \ {t} : Kept(u)
    BY <1>2, <1>3 DEF apply, Kept
  <1>4. ASSUME Len(path) = 2, apply_both(t, path[1], path[2])
        PROVE  status'[t] = path[Len(path)] /\ \A u \in Transfers \ {t} : Kept(u)
    BY <1>2, <1>4 DEF apply_both, Kept
  <1>5. status'[t] = path[Len(path)] /\ \A u \in Transfers \ {t} : Kept(u)
    BY <1>1, <1>3, <1>4
  <1> QED BY <1>5 DEF path

\* A locked quote is the first event of its ref and no other.
LEMMA LockedFirst ==
    ASSUME NEW l \in Seq(VaultEvents), LogAt(l), NEW n \in Nat, n < Len(l),
           l[n + 1] = "QuoteLocked"
    PROVE  n = 0
  <1>1. Len(l) \in Nat /\ Len(l) <= 4
    BY DEF LogAt
  <1>2. n = 0 \/ n = 1 \/ n = 2 \/ n = 3
    BY <1>1
  <1>3. n = 1 => Len(l) >= 2
    BY <1>1
  <1>4. n = 2 => Len(l) >= 3
    BY <1>1
  <1>5. n = 3 => Len(l) = 4
    <2>1. n = 3 => Len(l) # 0 /\ Len(l) # 1 /\ Len(l) # 2 /\ Len(l) # 3
      BY <1>1
    <2> QED BY <1>1, <2>1, UpToFour
  <1> QED BY <1>2, <1>3, <1>4, <1>5 DEF LogAt, Cancels

\* Appending one outcome keeps the old ones and puts the new one last.
LEMMA AppendOutcome ==
    ASSUME NEW r \in Seq(Outcomes), NEW outcome \in Outcomes, NoneIgnored(r)
    PROVE  /\ Append(r, outcome) \in Seq(Outcomes)
           /\ Len(Append(r, outcome)) = Len(r) + 1
           /\ outcome # "Ignored" => NoneIgnored(Append(r, outcome))
  BY DEF NoneIgnored

\* The same without the question what was ignored.
LEMMA AppendAnyOutcome ==
    ASSUME NEW r \in Seq(Outcomes), NEW outcome \in Outcomes
    PROVE  /\ Append(r, outcome) \in Seq(Outcomes)
           /\ Len(Append(r, outcome)) = Len(r) + 1
  OBVIOUS

\* The next final event, and the outcome its row records.
Delivered(t) == log[t][Len(rows[t]) + 1]
OutcomeOf(t) == IF Delivered(t) = "QuoteLocked" THEN "recorded"
                ELSE OnchainOutcome(target_of(Delivered(t)), status[t])

\* What a delivery does, said with the two definitions above.
LEMMA HandleDoes ==
    ASSUME FlowInv, NEW t \in Transfers, handle(t)
    PROVE  /\ Len(rows[t]) < Len(log[t])
           /\ Delivered(t) \in VaultEvents
           /\ OutcomeOf(t) \in Outcomes
           /\ UNCHANGED <<log, onchain>>
           /\ rows' = [rows EXCEPT ![t] = Append(@, OutcomeOf(t))]
           /\ \/ Delivered(t) = "QuoteLocked" /\ UNCHANGED vars
              \/ /\ Delivered(t) # "QuoteLocked"
                 /\ target_of(Delivered(t)) \in OnchainTargets
                 /\ apply_onchain(t, target_of(Delivered(t)))
                 /\ OutcomeOf(t) = "Applied"
              \/ /\ Delivered(t) # "QuoteLocked"
                 /\ OutcomeOf(t) # "Applied"
                 /\ UNCHANGED vars
  <1>1. Len(rows[t]) < Len(log[t]) /\ UNCHANGED log
    BY DEF handle, InTransit
  <1>2. Delivered(t) \in VaultEvents
    <2>1. log[t] \in Seq(VaultEvents) /\ rows[t] \in Seq(Outcomes)
      BY DEF FlowInv
    <2>2. Len(rows[t]) \in Nat /\ Len(log[t]) \in Nat
      BY <2>1
    <2>3. Len(rows[t]) + 1 \in 1 .. Len(log[t])
      BY <1>1, <2>2
    <2> QED BY <2>1, <2>3 DEF Delivered
  <1>3. OutcomeOf(t) \in Outcomes
    BY DEF OutcomeOf, Outcomes, OnchainOutcome
  <1>4. CASE Delivered(t) = "QuoteLocked"
    BY <1>1, <1>2, <1>3, <1>4 DEF handle, Delivered, OutcomeOf, vars
  <1>5. CASE Delivered(t) # "QuoteLocked"
    <2>1. target_of(Delivered(t)) \in OnchainTargets
      BY <1>2, <1>5 DEF target_of, VaultEvents, OnchainTargets
    <2>2. rows' = [rows EXCEPT ![t] = Append(@, OutcomeOf(t))]
      BY <1>5 DEF handle, Delivered, OutcomeOf
    <2>3. \/ apply_onchain(t, target_of(Delivered(t)))
          \/ OutcomeOf(t) # "Applied" /\ UNCHANGED vars
      BY <1>5 DEF handle, Delivered, OutcomeOf
    <2>4. apply_onchain(t, target_of(Delivered(t))) =>
             OutcomeOf(t) = "Applied" /\ UNCHANGED onchain
      BY <1>5 DEF apply_onchain, OutcomeOf
    <2>5. UNCHANGED onchain
      BY <2>3, <2>4 DEF vars
    <2> QED BY <1>1, <1>2, <1>3, <1>5, <2>1, <2>2, <2>3, <2>4, <2>5
  <1> QED BY <1>4, <1>5

\* A delivery keeps the log, records no ignored event of an ordered transfer, and
\* leaves its books where they may be with one event more.
LEMMA HandleInv ==
    ASSUME IInv, FlowInv, NEW t \in Transfers, handle(t)
    PROVE  FlowInv'
  <1> DEFINE r == Append(rows[t], OutcomeOf(t))
             n == Len(rows[t])
  <1>1. /\ n < Len(log[t]) /\ UNCHANGED <<log, onchain>>
        /\ rows' = [rows EXCEPT ![t] = r] /\ OutcomeOf(t) \in Outcomes
    BY HandleDoes
  <1>2. /\ log \in [Transfers -> Seq(VaultEvents)] /\ rows \in [Transfers -> Seq(Outcomes)]
        /\ rows[t] \in Seq(Outcomes) /\ log[t] \in Seq(VaultEvents) /\ LogAt(log[t])
    BY DEF FlowInv
  <1>3. n \in Nat /\ Len(log[t]) \in Nat
    BY <1>2
  <1>4. r \in Seq(Outcomes) /\ Len(r) = n + 1
    BY <1>1, <1>2, AppendAnyOutcome
  <1>5. \A u \in Transfers \ {t} : Kept(u)
    <2>1. CASE UNCHANGED vars
      BY <2>1 DEF Kept, vars
    <2>2. ASSUME target_of(Delivered(t)) \in OnchainTargets,
                 apply_onchain(t, target_of(Delivered(t)))
          PROVE  \A u \in Transfers \ {t} : Kept(u)
      BY <2>2, OnchainMoves
    <2> QED BY <2>1, <2>2, HandleDoes
  <1>6. ASSUME t \in Ordered
        PROVE  OutcomeOf(t) # "Ignored" /\ (onchain => BookAt(log[t], n + 1, status'[t], history'[t]))
    <2>1. CASE Delivered(t) = "QuoteLocked"
      <3>1. OutcomeOf(t) = "recorded" /\ UNCHANGED <<status, history>>
        BY <2>1, HandleDoes DEF OutcomeOf, vars
      <3>2. ASSUME onchain PROVE BookAt(log[t], n + 1, status[t], history[t])
        <4>1. BookAt(log[t], n, status[t], history[t])
          BY <1>6, <3>2 DEF FlowInv
        <4>2. n = 0
          BY <2>1, <1>1, <1>2, <1>3, LockedFirst DEF Delivered
        <4> QED BY <4>1, <4>2 DEF BookAt
      <3> QED BY <3>1, <3>2
    <2>2. CASE Delivered(t) # "QuoteLocked"
      <3>1. onchain
        BY <2>2 DEF handle, Delivered, apply_onchain, ForListener
      <3>2. BookAt(log[t], n, status[t], history[t])
        BY <1>6, <3>1 DEF FlowInv
      <3> DEFINE path == OnchainPath(target_of(Delivered(t)), status[t])
      <3>3. /\ OutcomeOf(t) \in {"Applied", "AlreadyApplied"}
            /\ OutcomeOf(t) = "AlreadyApplied" => BookAt(log[t], n + 1, status[t], history[t])
            /\ OutcomeOf(t) = "Applied" => \A g : BookAt(log[t], n + 1, path[Len(path)], g)
        BY <2>2, <3>2, <1>1, <1>2, <1>3, NextEvent DEF Delivered, OutcomeOf
      <3>4. CASE OutcomeOf(t) = "Applied"
        <4>1. status'[t] = path[Len(path)]
          BY <2>2, <3>4, HandleDoes, OnchainMoves
        <4> QED BY <3>3, <3>4, <4>1
      <3>5. CASE OutcomeOf(t) = "AlreadyApplied"
        <4>1. UNCHANGED <<status, history>>
          BY <2>2, <3>5, HandleDoes DEF vars
        <4> QED BY <3>3, <3>5, <4>1
      <3> QED BY <3>3, <3>4, <3>5
    <2> QED BY <2>1, <2>2
  <1>7. t \in Ordered => NoneIgnored(r)
    BY <1>1, <1>2, <1>6, AppendOutcome DEF FlowInv
  <1> HIDE DEF r
  <1>8. rows'[t] = r /\ \A u \in Transfers \ {t} : rows'[u] = rows[u]
    BY <1>1, <1>2
  <1>9. log' \in [Transfers -> Seq(VaultEvents)] /\ rows' \in [Transfers -> Seq(Outcomes)]
    BY <1>1, <1>2, <1>4
  <1>10. Len(r) <= Len(log[t])
    BY <1>1, <1>3, <1>4
  <1>11. ASSUME NEW u \in Transfers
         PROVE  /\ LogAt(log'[u]) /\ Len(rows'[u]) <= Len(log'[u])
                /\ u \in Ordered => NoneIgnored(rows'[u])
                /\ u \in Ordered /\ onchain' => BookAt(log'[u], Len(rows'[u]), status'[u], history'[u])
    <2>1. CASE u = t
      BY <2>1, <1>1, <1>2, <1>4, <1>6, <1>7, <1>8, <1>10
    <2>2. CASE u # t
      BY <2>2, <1>1, <1>5, <1>8 DEF FlowInv, Kept
    <2> QED BY <2>1, <2>2
  <1> QED BY <1>9, <1>11, OrderedAssumption DEF FlowInv, LogAt, NoneIgnored, BookAt

\* FlowInv is inductive.
LEMMA FlowNextInv == IInv /\ FlowInv /\ [FlowNext]_flowVars => FlowInv'
  <1> SUFFICES ASSUME IInv, FlowInv, [FlowNext]_flowVars PROVE FlowInv'
    OBVIOUS
  <1>1. CASE UNCHANGED flowVars
    BY <1>1 DEF flowVars, vars, FlowInv, LogAt, NoneIgnored, BookAt
  <1>2. CASE FlowNext
    BY <1>2, FlowBackendInv, ChainInv, HandleInv DEF FlowNext
  <1> QED BY <1>1, <1>2

\* Every step of the flow is a step of the engine, or leaves the engine alone.
LEMMA FlowStepsEngine == FlowInv /\ [FlowNext]_flowVars => [Next]_vars
  <1> SUFFICES ASSUME FlowInv, [FlowNext]_flowVars PROVE [Next]_vars
    OBVIOUS
  <1>1. CASE UNCHANGED flowVars
    BY <1>1 DEF flowVars
  <1>2. ASSUME NEW t \in Transfers, FlowBackend(t) PROVE Next
    BY <1>2 DEF FlowBackend, Next
  <1>3. ASSUME NEW t \in Transfers, Chain(t) PROVE UNCHANGED vars
    BY <1>3 DEF Chain, lock_quote, settle, cancel_quote, returnSettlement, refund, Emit
  <1>4. ASSUME NEW t \in Transfers, handle(t) PROVE [Next]_vars
    <2>1. \/ UNCHANGED vars
          \/ \E target \in OnchainTargets : apply_onchain(t, target)
      BY <1>4, HandleDoes
    <2> QED BY <2>1 DEF Next
  <1> QED BY <1>1, <1>2, <1>3, <1>4 DEF FlowNext
-----------------------------------------------------------------------------
\* The engine's and the flow's inductive invariants hold together.
LEMMA FlowInvariant == FlowSpec => [](IInv /\ FlowInv)
  <1>1. FlowInit => IInv /\ FlowInv
    BY InitInv, FlowInitInv DEF FlowInit
  <1>2. IInv /\ FlowInv /\ [FlowNext]_flowVars => (IInv /\ FlowInv)'
    BY FlowNextInv, FlowStepsEngine, NextInv
  <1> QED BY <1>1, <1>2, PTL DEF FlowSpec

\* Type correctness of the flow: the engine's tables, the vault's log and the
\* settlement_events rows, of which there are never more than logs.
THEOREM FlowTypeCorrect == FlowSpec => []FlowTypeOK
  <1>1. IInv /\ FlowInv => FlowTypeOK
    BY DEF IInv, DataInv, DataTypeOK, FundingInv, TypeOK, FlowInv, FlowTypeOK
  <1> QED BY <1>1, FlowInvariant, PTL

\* Settlement with the vault implements the engine's specification, so all that is
\* proved of the engine (the ledger, the trail, the holds, finality, the money's
\* flow) holds of the composition of engine, operator, vault and listener.
THEOREM FlowImplementsEngine == FlowSpec => EngineSpec
  <1>1. FlowInit => Init
    BY DEF FlowInit
  <1>2. FlowInv /\ [FlowNext]_flowVars => [Next]_vars
    BY FlowStepsEngine
  <1> QED BY <1>1, <1>2, FlowInvariant, PTL DEF FlowSpec, EngineSpec, Spec

\* With an operator who keeps to the documented order the listener never records
\* an event as ignored (apply_onchain, Left for ops), whatever the engine's
\* drivers, the desks and the delays in delivery do.
THEOREM OrderedIsNeverIgnored == FlowSpec => []OrderedNeverIgnored
  <1>1. FlowInv => OrderedNeverIgnored
    BY DEF FlowInv, OrderedNeverIgnored, NoneIgnored
  <1> QED BY <1>1, FlowInvariant, PTL

\* What agrees with the last event when all the events are delivered.
LEMMA BooksAgree ==
    ASSUME NEW l \in Seq(VaultEvents), LogAt(l), NEW n, n = Len(l),
           NEW s \in Statuses, NEW h, BookAt(l, n, s, h),
           NEW last, last = IF l = <<>> THEN "none" ELSE l[Len(l)]
    PROVE  s \in AgreesWith(last)
  <1>1. Len(l) \in Nat /\ Len(l) <= 4
    BY DEF LogAt
  <1>2. CASE Len(l) = 0 \/ Len(l) = 1
    <2>1. last = "none" \/ last = "QuoteLocked"
      BY <1>1, <1>2 DEF LogAt
    <2>2. s \in Unsettled
      BY <1>1, <1>2 DEF BookAt, Statuses, None
    <2> QED BY <2>1, <2>2 DEF AgreesWith, Unsettled
  <1>3. CASE Len(l) = 2 /\ l[2] \in Cancels
    <2>1. last \in Cancels /\ s \in {"EXPIRED", "REJECTED"}
      <3>1. last = l[2]
        <4>1. Len(l) = 2
          BY <1>3
        <4>2. l # <<>>
          BY <4>1
        <4> QED BY <4>1, <4>2
      <3>2. Len(l) >= 2 /\ l[2] \in Cancels => s \in {"EXPIRED", "REJECTED"}
        BY DEF BookAt
      <3>3. Len(l) >= 2
        BY <1>3
      <3> QED BY <1>3, <3>1, <3>2, <3>3
    <2> QED BY <2>1 DEF AgreesWith, Cancels
  <1>4. CASE Len(l) = 2 /\ l[2] = "SettlementInitiated"
    <2>1. last = "SettlementInitiated" /\ s \in {"SETTLED", "PAYING_OUT", "COMPLETED", "REVERSED"}
      BY <1>4 DEF BookAt
    <2> QED BY <2>1 DEF AgreesWith
  <1>5. CASE Len(l) = 3
    <2>1. last = "SettlementReturned" /\ s \in {"REVERSING", "REVERSED"}
      BY <1>5 DEF BookAt, LogAt
    <2> QED BY <2>1 DEF AgreesWith
  <1>6. CASE Len(l) = 4
    <2>1. last = "SettlementRefunded" /\ s = "REVERSED"
      BY <1>6 DEF BookAt, LogAt
    <2> QED BY <2>1 DEF AgreesWith
  <1>7. Len(l) = 2 => l[2] \in Cancels \cup {"SettlementInitiated"}
    BY DEF LogAt
  <1> QED BY <1>1, <1>2, <1>3, <1>4, <1>5, <1>6, <1>7, UpToFour

\* Once its events are delivered, a transfer whose operator keeps to the order has
\* the status its last vault event stands for, and was not rejected after funding
\* (handle, apply_onchain, advance_once).
THEOREM BooksAgreeWithChain == FlowSpec => []BooksFollowChain
  <1>1. IInv /\ FlowInv => BooksFollowChain
    <2> SUFFICES ASSUME IInv, FlowInv, NEW t \in Ordered,
                        onchain, status[t] # None, ~InTransit(t)
                 PROVE  status[t] \in AgreesWith(LastEvent(t)) /\ ~RejectedAfterFunding(t)
      BY DEF BooksFollowChain
    <2>1. /\ t \in Transfers /\ log[t] \in Seq(VaultEvents) /\ rows[t] \in Seq(Outcomes)
          /\ LogAt(log[t]) /\ Len(rows[t]) <= Len(log[t])
          /\ BookAt(log[t], Len(rows[t]), status[t], history[t])
      BY OrderedAssumption DEF FlowInv
    <2>2. Len(rows[t]) = Len(log[t])
      BY <2>1 DEF InTransit
    <2>3. status[t] \in Statuses
      BY <2>1 DEF IInv, DataInv, DataTypeOK
    <2>4. status[t] \in AgreesWith(LastEvent(t))
      BY <2>1, <2>2, <2>3, BooksAgree DEF LastEvent
    <2>5. ~RejectedAfterFunding(t)
      BY <2>1 DEF BookAt, RejectedAfterFunding
    <2> QED BY <2>4, <2>5
  <1> QED BY <1>1, FlowInvariant, PTL
=============================================================================
