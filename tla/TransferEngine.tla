--------------------------- MODULE TransferEngine ---------------------------
(***************************************************************************)
(* The transfer state-machine engine (domain/transfers/engine.rs) with the *)
(* processes that call it: the create request and the simulator task that  *)
(* drive a transfer forward, the compliance decision, the timeout and the  *)
(* reversal operations, and the confirmed vault events of the settlement   *)
(* listener.                                                               *)
(*                                                                         *)
(* Every engine call is one database transaction that starts by locking    *)
(* the transfer row, so it is one atomic step here, with one exception:    *)
(* the AWAITING_FUNDS step of advance_once reads the balance of the send   *)
(* account WITHOUT locking the account row, and posts the debit later in   *)
(* the same transaction.  Other transfers' transactions run in between, so *)
(* that transaction is two steps, with the transfer row locked across them.*)
(***************************************************************************)
EXTENDS TransferStates, Integers, Sequences, FiniteSetsExt

CONSTANTS
    Transfers,      \* transfer ids
    Accounts,       \* the customer's ledger accounts, one per currency
    Send, Recv,     \* [Transfers -> amounts]: send_amount_minor, receive_amount_minor
    SendAccount,    \* [Transfers -> Accounts]: the account of send_currency
    RecvAccount,    \* [Transfers -> Accounts]: the account of receive_currency
    Opening,        \* [Accounts -> balance before any of the transfers]
    Watchlisted,    \* transfers whose recipient country is on the watchlist
    Threshold,      \* config.compliance_amount_threshold_minor
    AutoAdvance     \* config.transfer_auto_advance_ms >= 0

ASSUME AmountsAssumption ==
    /\ Send \in [Transfers -> Nat \ {0}]
    /\ Recv \in [Transfers -> Nat \ {0}]
    /\ SendAccount \in [Transfers -> Accounts]
    /\ RecvAccount \in [Transfers -> Accounts]
    /\ Opening \in [Accounts -> Int]

\* A quote between one currency and itself is refused (domain/quote.rs).
ASSUME CurrenciesDiffer == \A t \in Transfers : SendAccount[t] # RecvAccount[t]

ASSUME ConfigAssumption ==
    /\ AutoAdvance \in BOOLEAN
    /\ Threshold \in Nat

VARIABLES
    onchain,   \* config.settlement_onchain: read once, when the server starts
    status,    \* transfers.current_status, None before the row exists
    history,   \* transfer_state_history: rows [status, note] in position order
    posted,    \* ledger_entries of the transfer: how many of each kind
    driver,    \* who drives the transfer: "none", "request", "task", then
               \* "done" when it ran to its end or "lost" when it did not
    seen,      \* the driver loop's local `status`, None before status_of
    funding    \* transfers whose advance_once passed the balance check and has
               \* not committed: their row is locked

vars == <<onchain, status, history, posted, driver, seen, funding>>
-----------------------------------------------------------------------------
\* What a history payload says that the engine reads back: a screening hold, an
\* ops clearance, or neither.
Notes == {"none", "hold", "cleared"}
Row(s, n) == [status |-> s, note |-> n]

\* The ledger entries a transfer can have, by their description in the code.
Kinds == {"funded", "converted", "paid", "unconverted", "refunded"}

\* Balance of an account: the signed sum of its entries.
Contribution(a, t) ==
    (IF SendAccount[t] = a
       THEN Send[t] * (posted[t]["refunded"] - posted[t]["funded"]) ELSE 0)
    +
    (IF RecvAccount[t] = a
       THEN Recv[t] * (posted[t]["converted"] - posted[t]["paid"]
                                              - posted[t]["unconverted"]) ELSE 0)
account_balance_minor(a) ==
    Opening[a] + MapThenSumSet(LAMBDA t : Contribution(a, t), Transfers)

\* domain/screening.rs: hold on a watchlisted country or a large amount.
screen(t) == t \in Watchlisted \/ Send[t] >= Threshold

\* The screening outcome in the latest history row.
is_held(t) == history[t][Len(history[t])].note = "hold"

payload_for(t, to) == IF to = "SCREENED" /\ screen(t) THEN "hold" ELSE "none"

\* Mutant of Entry: the sign is lost.
EntrySignLost(p, kind) == [p EXCEPT ![kind] = @ - 1]

Entry(p, kind) == [p EXCEPT ![kind] = @ + 1]

\* Mutant of post_ledger_for: PAYING_OUT forgotten in the REVERSING guard.
post_ledger_for_settled_only(p, from, to) ==
    CASE to = "FUNDED"    -> Entry(p, "funded")
      [] to = "SETTLED"   -> Entry(p, "converted")
      [] to = "COMPLETED" -> Entry(p, "paid")
      [] to = "REVERSING" /\ from = "SETTLED" -> Entry(p, "unconverted")
      [] OTHER            -> p

\* Mutant of post_ledger_for: the REVERSING guard on `from` dropped.
post_ledger_for_any_source(p, from, to) ==
    CASE to = "FUNDED"    -> Entry(p, "funded")
      [] to = "SETTLED"   -> Entry(p, "converted")
      [] to = "COMPLETED" -> Entry(p, "paid")
      [] to = "REVERSING" -> Entry(p, "unconverted")
      [] OTHER            -> p

\* The postings of one transition, given the entries p posted so far.
post_ledger_for(p, from, to) ==
    CASE to = "FUNDED"    -> Entry(p, "funded")
      [] to = "SETTLED"   -> Entry(p, "converted")
      [] to = "COMPLETED" -> Entry(p, "paid")
      [] to = "REVERSING" /\ from \in {"SETTLED", "PAYING_OUT"}
                          -> Entry(p, "unconverted")
      [] OTHER            -> p

post_send_refund(p) == Entry(p, "refunded")

\* The postings of one transition as its callers make it: both callers that
\* move to REVERSED post the refund first.
Postings(p, from, to) ==
    post_ledger_for(IF to = "REVERSED" THEN post_send_refund(p) ELSE p, from, to)

Locked(t) == funding[t]

\* Mutant of apply: assert_transition dropped.
apply_unasserted(t, to, note) ==
    /\ history' = [history EXCEPT ![t] = Append(@, Row(to, note))]
    /\ status' = [status EXCEPT ![t] = to]
    /\ posted' = [posted EXCEPT ![t] = Postings(@, status[t], to)]

\* apply: the asserted transition, the history row, the status column and the
\* postings, in one transaction.
apply(t, to, note) ==
    /\ to \in allowed(status[t])
    /\ history' = [history EXCEPT ![t] = Append(@, Row(to, note))]
    /\ status' = [status EXCEPT ![t] = to]
    /\ posted' = [posted EXCEPT ![t] = Postings(@, status[t], to)]

\* Mutant of apply_both: one history row for two transitions.
apply_both_one_row(t, mid, to) ==
    /\ mid \in allowed(status[t])
    /\ to \in allowed(mid)
    /\ history' = [history EXCEPT ![t] = Append(@, Row(to, "none"))]
    /\ status' = [status EXCEPT ![t] = to]
    /\ posted' = [posted EXCEPT
                    ![t] = Postings(Postings(@, status[t], mid), mid, to)]

\* Two transitions in one transaction.
apply_both(t, mid, to) ==
    /\ mid \in allowed(status[t])
    /\ to \in allowed(mid)
    /\ history' = [history EXCEPT ![t] = @ \o <<Row(mid, "none"), Row(to, "none")>>]
    /\ status' = [status EXCEPT ![t] = to]
    /\ posted' = [posted EXCEPT
                    ![t] = Postings(Postings(@, status[t], mid), mid, to)]
-----------------------------------------------------------------------------
(* The driver loops: advance_to_awaiting_funds in the create request, then *)
(* advance_to_completion in the simulator task.                            *)

\* Mutant of Loops: the task keeps the request's loop condition.
LoopsAsRequest(phase, s) == s \in {"CREATED", "QUOTED", "SCREENED"}

\* The loop condition on the local status.
Loops(phase, s) ==
    IF phase = "request" THEN s \in {"CREATED", "QUOTED", "SCREENED"}
                         ELSE forward_step(s) # None

\* Leaving the loop: the request goes on to schedule_simulated_progression,
\* the task ends.
LeaveLoop(t) ==
    /\ driver' = [driver EXCEPT ![t] =
                    IF @ = "request" /\ AutoAdvance THEN "task" ELSE "done"]
    /\ seen' = [seen EXCEPT ![t] = None]

\* The loop body after advance_once returned next.
LoopWith(t, next) ==
    IF next = seen[t] \/ is_terminal(next) \/ ~Loops(driver[t], next)
      THEN LeaveLoop(t)
      ELSE /\ seen' = [seen EXCEPT ![t] = next]
           /\ UNCHANGED driver

\* status_of, before the loop: read without a lock.
status_of(t) ==
    /\ driver[t] \in {"request", "task"}
    /\ seen[t] = None
    /\ LoopWith(t, status[t])
    /\ UNCHANGED <<status, history, posted, funding>>

\* advance_once is called from the loop body on an unlocked row.
Advancing(t) ==
    /\ driver[t] \in {"request", "task"}
    /\ seen[t] # None
    /\ ~Locked(t)

\* Mutant of HeldForReview: the hold is not looked at.
HeldNever(t) == FALSE

HeldForReview(t) == status[t] = "SCREENED" /\ is_held(t)

\* Mutants of onchain_hold: the configuration is not looked at.
onchain_hold_never(t) == FALSE
onchain_hold_always(t) == status[t] = "SETTLING"

onchain_hold(t) == status[t] = "SETTLING" /\ onchain
Blocked(t) == onchain_hold(t) \/ forward_step(status[t]) = None

\* COMPLIANCE_HOLD, which advance_once_or_hold turns into the caller's own
\* status: the loop ends.
AdvanceHeld(t) ==
    /\ Advancing(t)
    /\ HeldForReview(t)
    /\ LoopWith(t, seen[t])
    /\ UNCHANGED <<status, history, posted, funding>>

\* No forward step, or SETTLING while the chain settles: returns the row's status.
AdvanceBlocked(t) ==
    /\ Advancing(t)
    /\ ~HeldForReview(t)
    /\ Blocked(t)
    /\ LoopWith(t, status[t])
    /\ UNCHANGED <<status, history, posted, funding>>

\* AWAITING_FUNDS and the balance is short: REJECTED, INSUFFICIENT_FUNDS.
AdvanceInsufficient(t) ==
    /\ Advancing(t)
    /\ status[t] = "AWAITING_FUNDS"
    /\ account_balance_minor(SendAccount[t]) < Send[t]
    /\ apply(t, "REJECTED", "none")
    /\ LoopWith(t, "REJECTED")
    /\ UNCHANGED funding

\* AWAITING_FUNDS and the balance covers it: the transaction goes on, holding
\* the transfer row and not the account row.
AdvanceFundsChecked(t) ==
    /\ Advancing(t)
    /\ status[t] = "AWAITING_FUNDS"
    /\ account_balance_minor(SendAccount[t]) >= Send[t]
    /\ funding' = [funding EXCEPT ![t] = TRUE]
    /\ UNCHANGED <<status, history, posted, driver, seen>>

\* ... and posts the debit without looking at the balance again.
AdvanceFunded(t) ==
    /\ funding[t]
    /\ apply(t, "FUNDED", "none")
    /\ LoopWith(t, "FUNDED")
    /\ funding' = [funding EXCEPT ![t] = FALSE]

\* Every other forward step.
AdvanceForward(t) ==
    /\ Advancing(t)
    /\ ~HeldForReview(t)
    /\ ~Blocked(t)
    /\ status[t] # "AWAITING_FUNDS"
    /\ LET to == forward_step(status[t])
       IN  /\ apply(t, to, payload_for(t, to))
           /\ LoopWith(t, to)
    /\ UNCHANGED funding

Drive(t) ==
    /\ UNCHANGED onchain
    /\ \/ status_of(t)
       \/ AdvanceHeld(t)
       \/ AdvanceBlocked(t)
       \/ AdvanceInsufficient(t)
       \/ AdvanceFundsChecked(t)
       \/ AdvanceFunded(t)
       \/ AdvanceForward(t)
-----------------------------------------------------------------------------
\* The create transaction has committed the row and its first history row, and
\* the request goes on to drive the transfer.
CreateTransfer(t) ==
    /\ status[t] = None
    /\ status' = [status EXCEPT ![t] = "CREATED"]
    /\ history' = [history EXCEPT ![t] = <<Row("CREATED", "none")>>]
    /\ driver' = [driver EXCEPT ![t] = "request"]
    /\ UNCHANGED <<onchain, posted, seen, funding>>

\* The driver disappears: the 15 s request timeout, a database error, or a
\* crash or restart of the server.  An open transaction rolls back; there is
\* no resume sweep.
DriverLost(t) ==
    /\ driver[t] \in {"request", "task"}
    /\ driver' = [driver EXCEPT ![t] = "lost"]
    /\ seen' = [seen EXCEPT ![t] = None]
    /\ funding' = [funding EXCEPT ![t] = FALSE]
    /\ UNCHANGED <<onchain, status, history, posted>>

\* A compliance analyst's decision on a held transfer.
resolve_screening_hold(t, decision) ==
    /\ ~Locked(t)
    /\ HeldForReview(t)
    /\ IF decision = "clear" THEN apply(t, "AWAITING_FUNDS", "cleared")
                             ELSE apply(t, "REJECTED", "none")
    /\ UNCHANGED <<onchain, driver, seen, funding>>

\* Pre-funding timeout.
expire_transfer(t) ==
    /\ ~Locked(t)
    /\ status[t] # None
    /\ apply(t, "EXPIRED", "none")
    /\ UNCHANGED <<onchain, driver, seen, funding>>

\* REVERSING, the refund and REVERSED in one transaction.
reverse_transfer(t) ==
    /\ ~Locked(t)
    /\ status[t] # None
    /\ apply_both(t, "REVERSING", "REVERSED")
    /\ UNCHANGED <<onchain, driver, seen, funding>>
-----------------------------------------------------------------------------
\* Where a confirmed vault event wants the transfer to be.
OnchainTargets == {"Settled", "Reversing", "Reversed", "Cancelled", "CancelledExpired"}

\* Mutant of OnchainPath: no SETTLING on the way from FUNDED.
OnchainPathNoSettling(target, from) ==
    CASE target = "Settled" ->
            IF from \in {"SETTLED", "PAYING_OUT", "COMPLETED"} THEN <<>> ELSE <<"SETTLED">>
      [] target = "Reversing" ->
            IF from \in {"REVERSING", "REVERSED"} THEN <<>> ELSE <<"REVERSING">>
      [] target = "Reversed" -> IF from = "REVERSED" THEN <<>> ELSE <<"REVERSED">>
      [] OTHER -> IF from \in {"EXPIRED", "REJECTED"} THEN <<>> ELSE <<"REJECTED">>

\* Mutant of OnchainPath: a return of what ops reversed is not seen as applied.
OnchainPathNoReplay(target, from) ==
    CASE target = "Settled" ->
            CASE from \in {"SETTLED", "PAYING_OUT", "COMPLETED"} -> <<>>
              [] from = "FUNDED" -> <<"SETTLING", "SETTLED">>
              [] OTHER -> <<"SETTLED">>
      [] target = "Reversing" -> <<"REVERSING">>
      [] target = "Reversed" ->
            CASE from = "REVERSED" -> <<>>
              [] from \in {"SETTLED", "PAYING_OUT"} -> <<"REVERSING", "REVERSED">>
              [] OTHER -> <<"REVERSED">>
      [] OTHER -> IF from \in {"EXPIRED", "REJECTED"} THEN <<>> ELSE <<"REJECTED">>

\* The transitions an event asks for; the empty path is AlreadyApplied.
OnchainPath(target, from) ==
    CASE target = "Settled" ->
            CASE from \in {"SETTLED", "PAYING_OUT", "COMPLETED"} -> <<>>
              [] from = "FUNDED" -> <<"SETTLING", "SETTLED">>
              [] OTHER -> <<"SETTLED">>
      [] target = "Reversing" ->
            IF from \in {"REVERSING", "REVERSED"} THEN <<>> ELSE <<"REVERSING">>
      [] target = "Reversed" ->
            CASE from = "REVERSED" -> <<>>
              [] from \in {"SETTLED", "PAYING_OUT"} -> <<"REVERSING", "REVERSED">>
              [] OTHER -> <<"REVERSED">>
      [] OTHER ->
            CASE from \in {"EXPIRED", "REJECTED"} -> <<>>
              [] target = "CancelledExpired" /\ "EXPIRED" \in allowed(from) -> <<"EXPIRED">>
              [] OTHER -> <<"REJECTED">>

\* What apply_onchain answers: an empty path is already applied, and one that
\* the table does not allow from end to end is ignored.
OnchainOutcome(target, from) ==
    LET path == OnchainPath(target, from) IN
    IF path = <<>> THEN "AlreadyApplied"
    ELSE IF /\ path[1] \in allowed(from)
            /\ Len(path) = 2 => path[2] \in allowed(path[1])
      THEN "Applied" ELSE "Ignored"

\* The listener has the row: it waits for the lock of a transfer that exists.
ForListener(t) == onchain /\ ~Locked(t) /\ status[t] # None

\* An event that is applied: its path, inside the listener's transaction.
apply_onchain(t, target) ==
    /\ ForListener(t)
    /\ OnchainOutcome(target, status[t]) = "Applied"
    /\ LET path == OnchainPath(target, status[t])
       IN  IF Len(path) = 1 THEN apply(t, path[1], "none")
                            ELSE apply_both(t, path[1], path[2])
    /\ UNCHANGED <<onchain, driver, seen, funding>>
-----------------------------------------------------------------------------
Init ==
    /\ onchain \in BOOLEAN
    /\ status = [t \in Transfers |-> None]
    /\ history = [t \in Transfers |-> <<>>]
    /\ posted = [t \in Transfers |-> [k \in Kinds |-> 0]]
    /\ driver = [t \in Transfers |-> "none"]
    /\ seen = [t \in Transfers |-> None]
    /\ funding = [t \in Transfers |-> FALSE]

\* Everything but the chain's events: the requests, the drivers and the desks.
Backend(t) ==
    \/ CreateTransfer(t)
    \/ Drive(t)
    \/ DriverLost(t)
    \/ \E decision \in {"clear", "reject"} : resolve_screening_hold(t, decision)
    \/ expire_transfer(t)
    \/ reverse_transfer(t)

Next ==
    \E t \in Transfers :
        \/ Backend(t)
        \/ \E target \in OnchainTargets : apply_onchain(t, target)

Spec == Init /\ [][Next]_vars

-----------------------------------------------------------------------------
Ledger == [Kinds -> Nat]
Rows == [status : Statuses, note : Notes]

Drivers == {"none", "request", "task", "done", "lost"}

\* Type invariant of the engine's tables and of the drivers' local state.
TypeOK ==
    /\ onchain \in BOOLEAN
    /\ status \in [Transfers -> Statuses \cup {None}]
    /\ history \in [Transfers -> Seq(Rows)]
    /\ posted \in [Transfers -> Ledger]
    /\ driver \in [Transfers -> Drivers]
    /\ seen \in [Transfers -> Statuses \cup {None}]
    /\ funding \in [Transfers -> BOOLEAN]

\* The number of times the customer is out of the send amount, and the number of
\* receive amounts that sit on the customer's receive account.
SendDue(t) == posted[t]["funded"] - posted[t]["refunded"]
RecvHeld(t) == posted[t]["converted"] - posted[t]["paid"] - posted[t]["unconverted"]

\* The transfer was rejected out of FUNDED or SETTLING, by an on-chain cancel.
RejectedAfterFunding(t) ==
    /\ status[t] = "REJECTED"
    /\ history[t][Len(history[t]) - 1].status \in {"FUNDED", "SETTLING"}

\* The ledger agrees with the status column whatever path led there: the
\* customer is out of exactly one send amount from FUNDED until the refund of
\* REVERSED, the converted amount is on the account exactly while SETTLED or
\* PAYING_OUT, no entry is ever posted twice, and a rejected transfer keeps the
\* debit only when the rejection came after funding (post_ledger_for posts
\* nothing for REJECTED).
MoneyFollowsStatus ==
    \A t \in Transfers :
        /\ \A k \in Kinds : posted[t][k] \in {0, 1}
        /\ SendDue(t) = 1 <=>
              \/ status[t] \in {"FUNDED", "SETTLING", "SETTLED", "PAYING_OUT",
                                "COMPLETED", "REVERSING"}
              \/ RejectedAfterFunding(t)
        /\ SendDue(t) \in {0, 1}
        /\ RecvHeld(t) = IF status[t] \in {"SETTLED", "PAYING_OUT"} THEN 1 ELSE 0

\* transfer_state_history is the full trail of current_status: it starts at
\* CREATED, every row follows its predecessor in the transition table (also the
\* two rows one transaction writes), and the last row is the status column.
HistoryIsPath ==
    \A t \in Transfers :
        LET h == history[t] IN
        IF status[t] = None THEN h = <<>>
        ELSE /\ Len(h) > 0
             /\ h[1].status = "CREATED"
             /\ h[Len(h)].status = status[t]
             /\ \A i \in 1 .. Len(h) - 1 : h[i + 1].status \in allowed(h[i].status)

\* A transfer the screening rules hold is never moved on to AWAITING_FUNDS by a
\* driver, an event or a race between them: the row that moved it is an
\* analyst's clearance.
HoldRespected ==
    \A t \in Transfers :
        screen(t) =>
            \A i \in 1 .. Len(history[t]) :
                history[t][i].status = "AWAITING_FUNDS" => history[t][i].note = "cleared"

\* REJECTED, EXPIRED and REVERSED are final: a late driver, decision or event
\* neither moves the transfer nor posts to its ledger.
ClosedIsFinal ==
    [][\A t \in Transfers :
          status[t] \in {"REJECTED", "EXPIRED", "REVERSED"} =>
              /\ status'[t] = status[t]
              /\ history'[t] = history[t]
              /\ posted'[t] = posted[t]]_vars

\* An account never goes negative: "rejects INSUFFICIENT_FUNDS if short".
NoOverdraft == \A a \in Accounts : account_balance_minor(a) >= 0

\* A created transfer that screening does not hold and whose driver is not lost
\* is driven to the end of what the backend does on its own: to a terminal status
\* with the simulator, to SETTLING or past it when the chain settles.
CreatedCompletes ==
    \A t \in Transfers :
        ~screen(t) => (status[t] = "CREATED" ~>
            \/ is_terminal(status[t])
            \/ driver[t] = "lost"
            \/ onchain /\ status[t] \in {"SETTLING", "SETTLED", "PAYING_OUT", "REVERSING"})

\* Where a transfer may be left with no driver, unless its driver was lost: at a
\* terminal status, held or cleared from a hold, in the middle of a return, or
\* where the chain settles it ("the simulator stops at SETTLING").  Without a
\* simulator the request leaves it at AWAITING_FUNDS, or funded when an analyst
\* cleared it under the request's loop.
ParkedKnown ==
    \A t \in Transfers : driver[t] = "done" =>
        \/ is_terminal(status[t]) \/ status[t] = "REVERSING"
        \/ screen(t) /\ status[t] \in {"SCREENED", "AWAITING_FUNDS"}
        \/ ~AutoAdvance /\ status[t] = "AWAITING_FUNDS"
        \/ ~AutoAdvance /\ screen(t) /\ status[t] = "FUNDED"
        \/ onchain /\ status[t] \in {"SETTLING", "SETTLED"}

\* Where the money of a transfer is, read off its ledger entries.
Place(p) ==
    IF p["refunded"] > 0 THEN "refunded"
    ELSE IF p["unconverted"] > 0 THEN "returned"
    ELSE IF p["paid"] > 0 THEN "beneficiary"
    ELSE IF p["converted"] > 0 THEN "converted"
    ELSE IF p["funded"] > 0 THEN "platform" ELSE "customer"

Money == INSTANCE MoneyFlow WITH place <- [t \in Transfers |-> Place(posted[t])]

\* The engine implements the money-flow promise.
MoneyFlowSpec == Money!Spec
=============================================================================
