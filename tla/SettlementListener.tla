-------------------------- MODULE SettlementListener --------------------------
(***************************************************************************)
(* The confirmed-event listener (settlement/listener.rs): one or more      *)
(* server processes poll the chain, hand each vault log to the engine in a *)
(* transaction of its own together with its settlement_events row, and     *)
(* save a cursor after each block range.                                   *)
(*                                                                         *)
(* The chain is external: blocks are mined and reorganised between any two *)
(* RPC calls, and every await of run_once and handle is a step, because    *)
(* another listener, a crash or a reorganisation may come between.         *)
(* What a target event does to its transfer is apply_onchain of module     *)
(* TransferEngine; here it is the row committed with it.                   *)
(***************************************************************************)
EXTENDS Integers, Sequences, FiniteSets, SequencesExt

CONSTANTS
    Listeners,      \* listener processes (more than one server may run)
    Events,         \* vault logs, by their (tx_hash, log_index)
    Ours,           \* those whose settlement_ref is a transfer of this backend
    Locks,          \* the QuoteLocked events
    Cancels,        \* the QuoteCancelled events
    TransferOf,     \* [Events -> transfers]
    ExpiresAt,      \* [Events -> time]: expiresAt of a QuoteLocked
    Before,         \* pairs of events the vault can only emit in that order
    Confirmations, StartBlock, MaxRange,   \* ListenerConfig
    MaxBlocks, MaxLogs, \* bounds: blocks mined, logs per block
    ReorgDepth,     \* how many top blocks a reorganisation may replace
    MaxReorgs, MaxFailures   \* bounds: reorganisations, failed polls and crashes

ASSUME ListenerAssumption ==
    /\ Ours \subseteq Events /\ Locks \subseteq Events /\ Cancels \subseteq Events
    /\ Confirmations \in Nat /\ StartBlock \in Nat \ {0} /\ MaxRange \in Nat
    /\ ReorgDepth \in Nat /\ MaxLogs \in Nat
    /\ \A e \in Events : ExpiresAt[e] \in Int

\* Ours are all the events of a transfer or none; the vault locks a transfer's
\* quote once (QuoteAlreadyLocked), before it cancels it.
ASSUME VaultAssumption ==
    \A e, f \in Events : TransferOf[e] = TransferOf[f] =>
        /\ e \in Ours => f \in Ours
        /\ e \in Locks /\ f \in Locks => e = f
        /\ e \in Locks /\ f \in Cancels => <<e, f>> \in Before

VARIABLES
    chain,      \* block n is chain[n] = [fork, logs]; fork stands for its hash
    reorgs,     \* reorganisations so far
    cursor,     \* settlement_cursor: last processed block and its hash
    rows,       \* settlement_events, in commit order: [event, block, expired]
    pc,         \* where each listener is in run / run_once / handle
    local,      \* each listener's locals: confirmed, start, logs left, hash
    failures    \* failed polls and crashes so far

vars == <<chain, reorgs, cursor, rows, pc, local, failures>>
-----------------------------------------------------------------------------
NoCursor == [block |-> 0, hash |-> 0]
NoLocals == [confirmed |-> 0, start |-> 0, queue |-> {}, hash |-> 0]

\* The vault's logs in chain c, each with its place.
LogsOf(c) ==
    UNION {{[event |-> c[n].logs[k], block |-> n, index |-> k] : k \in DOMAIN c[n].logs} :
           n \in DOMAIN c}

\* The logs of a range, as get_logs returns them.
LogsIn(from, to) == {log \in LogsOf(chain) : from <= log.block /\ log.block <= to}

\* The order of sort_by_key: by block number and log index.
Earlier(a, b) == a.block < b.block \/ (a.block = b.block /\ a.index < b.index)

\* The log that the loop of listener l is at: the first of those it has left.
AtLog(l, log) ==
    /\ log \in local[l].queue
    /\ \A other \in local[l].queue \ {log} : Earlier(log, other)

seen(e) == \E i \in DOMAIN rows : rows[i].event = e

\* Last block of the range that starts at l's start.
RangeEnd(l) ==
    Min({local[l].confirmed, local[l].start + Max({MaxRange, 1}) - 1})

\* Mutant of quote_expired_at: `>` for `>=` at the expiry itself.
quote_expired_strictly(e, block) ==
    \E i \in DOMAIN rows :
        /\ rows[i].event \in Locks
        /\ TransferOf[rows[i].event] = TransferOf[e]
        /\ block > ExpiresAt[rows[i].event]

\* quote_expired_at: the recorded QuoteLocked of the transfer in the highest
\* block, against the timestamp of the cancel's block (its number, here).
\* FALSE when no lock was recorded.
quote_expired_at(e, block) ==
    LET locks == {i \in DOMAIN rows :
                    rows[i].event \in Locks /\ TransferOf[rows[i].event] = TransferOf[e]}
        latest == CHOOSE i \in locks : \A j \in locks : rows[j].block <= rows[i].block
    IN  locks # {} /\ block >= ExpiresAt[rows[latest].event]

\* The row of a log, with the target the cancel was given.
RowOf(log) ==
    [event |-> log.event, block |-> log.block,
     expired |-> log.event \in Cancels /\ quote_expired_at(log.event, log.block)]

Go(l, to) == pc' = [pc EXCEPT ![l] = to]
Pop(l, log) == local' = [local EXCEPT ![l].queue = @ \ {log}]
-----------------------------------------------------------------------------
(* The chain.                                                              *)

Blocks(fork) == [fork : {fork}, logs : SeqOf(Events, MaxLogs)]

\* The vault emits an event once, and the events of a transfer in order.
LawfulLogs(c) ==
    /\ \A a, b \in LogsOf(c) : a.event = b.event => a = b
    /\ \A pair \in Before : \A b \in LogsOf(c) :
          b.event = pair[2] => \E a \in LogsOf(c) : a.event = pair[1] /\ Earlier(a, b)

Mine ==
    /\ Len(chain) < MaxBlocks
    /\ \E b \in Blocks(reorgs) :
          /\ LawfulLogs(Append(chain, b))
          /\ chain' = Append(chain, b)
    /\ UNCHANGED <<reorgs, cursor, rows, pc, local, failures>>

\* The top blocks are replaced; a replaced log may come back in another block,
\* later, or not at all.
Reorg ==
    /\ reorgs < MaxReorgs
    /\ \E d \in {n \in 1 .. ReorgDepth : n <= Len(chain)} :
       \E top \in [Len(chain) - d + 1 .. Len(chain) -> Blocks(reorgs + 1)] :
          LET c == [n \in DOMAIN chain |-> IF n \in DOMAIN top THEN top[n] ELSE chain[n]]
          IN  /\ LawfulLogs(c)
              /\ chain' = c
    /\ reorgs' = reorgs + 1
    /\ UNCHANGED <<cursor, rows, pc, local, failures>>
-----------------------------------------------------------------------------
(* run_once.                                                               *)

\* Mutant of ReadHead: one confirmation too few.
ReadHeadTooEarly(l) ==
    /\ pc[l] = "idle"
    /\ Len(chain) >= Confirmations
    /\ local' = [local EXCEPT ![l].confirmed =
                    Min({Len(chain), Len(chain) - Confirmations + 1})]
    /\ Go(l, "cursor")
    /\ UNCHANGED <<chain, reorgs, cursor, rows, failures>>

\* get_block_number: nothing to read below the confirmation depth.
ReadHead(l) ==
    /\ pc[l] = "idle"
    /\ Len(chain) >= Confirmations
    /\ local' = [local EXCEPT ![l].confirmed = Len(chain) - Confirmations]
    /\ Go(l, "cursor")
    /\ UNCHANGED <<chain, reorgs, cursor, rows, failures>>

\* cursor(): the row, or the configured start when there is none.
ReadCursor(l) ==
    /\ pc[l] = "cursor"
    /\ IF cursor = NoCursor
         THEN /\ local' = [local EXCEPT ![l].start = StartBlock]
              /\ Go(l, "range")
         ELSE /\ local' = [local EXCEPT ![l].start = cursor.block + 1, ![l].hash = cursor.hash]
              /\ Go(l, "check")
    /\ UNCHANGED <<chain, reorgs, cursor, rows, failures>>

\* block_hash(last) of the row just read: if it changed, the poll returns
\* ReorgBeyondConfirmations and run stops.
CheckCursor(l) ==
    /\ pc[l] = "check"
    /\ Go(l, IF chain[local[l].start - 1].fork = local[l].hash THEN "range" ELSE "stopped")
    /\ UNCHANGED <<chain, reorgs, cursor, rows, local, failures>>

\* Mutant of NextRange: while start < confirmed.
NextRangeShort(l) ==
    /\ pc[l] = "range"
    /\ IF local[l].start < local[l].confirmed
         THEN Go(l, "fetch") /\ UNCHANGED local
         ELSE Go(l, "idle") /\ local' = [local EXCEPT ![l] = NoLocals]
    /\ UNCHANGED <<chain, reorgs, cursor, rows, failures>>

\* while start <= confirmed: another range, or the poll is over.
NextRange(l) ==
    /\ pc[l] = "range"
    /\ IF local[l].start <= local[l].confirmed
         THEN Go(l, "fetch") /\ UNCHANGED local
         ELSE Go(l, "idle") /\ local' = [local EXCEPT ![l] = NoLocals]
    /\ UNCHANGED <<chain, reorgs, cursor, rows, failures>>

GetLogs(l) ==
    /\ pc[l] = "fetch"
    /\ local' = [local EXCEPT ![l].queue = LogsIn(local[l].start, RangeEnd(l))]
    /\ Go(l, "handle")
    /\ UNCHANGED <<chain, reorgs, cursor, rows, failures>>

\* handle: a log already recorded, or of an unknown ref, is passed over.
HandleSkip(l) ==
    /\ pc[l] = "handle"
    /\ \E log \in local[l].queue :
          /\ AtLog(l, log)
          /\ seen(log.event) \/ log.event \notin Ours
          /\ Pop(l, log)
    /\ UNCHANGED <<chain, reorgs, cursor, rows, pc, failures>>

\* handle: not seen, so a transaction begins; `seen` was read outside of it.
HandleBegin(l) ==
    /\ pc[l] = "handle"
    /\ \E log \in local[l].queue : AtLog(l, log) /\ ~seen(log.event) /\ log.event \in Ours
    /\ Go(l, "apply")
    /\ UNCHANGED <<chain, reorgs, cursor, rows, local, failures>>

\* Mutant of HandleCommit: `on conflict do nothing` without the rollback.
HandleCommitTwice(l) ==
    /\ pc[l] = "apply"
    /\ \E log \in local[l].queue :
          /\ AtLog(l, log)
          /\ rows' = Append(rows, RowOf(log))
          /\ Pop(l, log)
    /\ Go(l, "handle")
    /\ UNCHANGED <<chain, reorgs, cursor, failures>>

\* The transaction: the transition and its row commit together, or, when a
\* concurrent listener has inserted the row, roll back together.
HandleCommit(l) ==
    /\ pc[l] = "apply"
    /\ \E log \in local[l].queue :
          /\ AtLog(l, log)
          /\ rows' = IF seen(log.event) THEN rows ELSE Append(rows, RowOf(log))
          /\ Pop(l, log)
    /\ Go(l, "handle")
    /\ UNCHANGED <<chain, reorgs, cursor, failures>>

\* Mutant of ReadEndHash: the range is ended before its logs are handled.
ReadEndHashEarly(l) ==
    /\ pc[l] = "handle"
    /\ local' = [local EXCEPT ![l].hash = chain[RangeEnd(l)].fork]
    /\ Go(l, "save")
    /\ UNCHANGED <<chain, reorgs, cursor, rows, failures>>

\* block_hash(end), asked after the logs were handled.
ReadEndHash(l) ==
    /\ pc[l] = "handle"
    /\ local[l].queue = {}
    /\ local' = [local EXCEPT ![l].hash = chain[RangeEnd(l)].fork]
    /\ Go(l, "save")
    /\ UNCHANGED <<chain, reorgs, cursor, rows, failures>>

\* Mutant of SaveCursor: the row is saved without the hash of its block.
SaveCursorNoHash(l) ==
    /\ pc[l] = "save"
    /\ cursor' = [block |-> RangeEnd(l)]
    /\ local' = [local EXCEPT ![l].start = RangeEnd(l) + 1]
    /\ Go(l, "range")
    /\ UNCHANGED <<chain, reorgs, rows, failures>>

\* save_cursor, unconditionally, and on to the next range.
SaveCursor(l) ==
    /\ pc[l] = "save"
    /\ cursor' = [block |-> RangeEnd(l), hash |-> local[l].hash]
    /\ local' = [local EXCEPT ![l].start = RangeEnd(l) + 1]
    /\ Go(l, "range")
    /\ UNCHANGED <<chain, reorgs, rows, failures>>

\* An RPC or database error ends the poll, a crash or restart ends the process:
\* the locals are gone, an open transaction rolls back, the next poll starts
\* from the cursor.
PollFails(l) ==
    /\ pc[l] \notin {"idle", "stopped"}
    /\ failures < MaxFailures
    /\ failures' = failures + 1
    /\ local' = [local EXCEPT ![l] = NoLocals]
    /\ Go(l, "idle")
    /\ UNCHANGED <<chain, reorgs, cursor, rows>>

Poll(l) ==
    \/ ReadHead(l) \/ ReadCursor(l) \/ CheckCursor(l) \/ NextRange(l) \/ GetLogs(l)
    \/ HandleSkip(l) \/ HandleBegin(l) \/ HandleCommit(l)
    \/ ReadEndHash(l) \/ SaveCursor(l)
-----------------------------------------------------------------------------
Init ==
    /\ chain = <<>>
    /\ reorgs = 0
    /\ cursor = NoCursor
    /\ rows = <<>>
    /\ pc = [l \in Listeners |-> "idle"]
    /\ local = [l \in Listeners |-> NoLocals]
    /\ failures = 0

Next ==
    \/ Mine
    \/ Reorg
    \/ \E l \in Listeners : Poll(l) \/ PollFails(l)

Spec == Init /\ [][Next]_vars

\* run loops until a deep reorganisation; a listener's awaits complete.
FairSpec == Spec /\ \A l \in Listeners : WF_vars(Poll(l))
-----------------------------------------------------------------------------
Logs == [event : Events, block : Nat, index : Nat]

\* Type invariant of the tables, the chain and the listeners' locals.
TypeOK ==
    /\ chain \in Seq([fork : Nat, logs : Seq(Events)])
    /\ reorgs \in Nat
    /\ cursor \in [block : Nat, hash : Nat]
    /\ rows \in Seq([event : Events, block : Nat, expired : BOOLEAN])
    /\ pc \in [Listeners -> {"idle", "cursor", "check", "range", "fetch",
                              "handle", "apply", "save", "stopped"}]
    /\ local \in [Listeners -> [confirmed : Nat, start : Nat, queue : SUBSET Logs, hash : Nat]]
    /\ failures \in Nat

\* The logs of our events up to a block.
OurLogs(to) == {log \in LogsIn(StartBlock, to) : log.event \in Ours}

Delivered == [i \in DOMAIN rows |-> rows[i].event]

\* The logs the confirmation depth makes final.
FinalLogs == OurLogs(Len(chain) - Confirmations)

Delivery == INSTANCE EventDelivery
              WITH Events <- Ours, final <- FinalLogs, delivered <- Delivered

\* With reorganisations no deeper than the confirmation depth, whatever crashes
\* and however many listeners run, the listener delivers our final events in
\* chain order, exactly once, and nothing else reaches the ledger.
DeliverySpec == Delivery!Spec

\* "settlement_cursor holds the last fully processed block and its hash": while
\* the chain still has that block, every event of ours up to it is recorded.
CursorBlockProcessed ==
    (cursor # NoCursor /\ chain[cursor.block].fork = cursor.hash) =>
        \A log \in OurLogs(cursor.block) : seen(log.event)

\* A cancel is booked as expired exactly when the vault had locked the
\* transfer's quote and that lock had run out at the cancel's block, although
\* the lock is looked up in the backend's own rows.
CancelClassified ==
    \A i \in DOMAIN rows :
        rows[i].event \in Cancels =>
            (rows[i].expired <=>
                \E log \in LogsIn(StartBlock, rows[i].block) :
                    /\ log.event \in Locks
                    /\ TransferOf[log.event] = TransferOf[rows[i].event]
                    /\ rows[i].block >= ExpiresAt[log.event])

\* A reorganisation no deeper than the confirmation depth never stops a listener.
OrdinaryReorgSurvived == \A l \in Listeners : pc[l] # "stopped"

\* Every final event of ours is eventually recorded, although polls fail and
\* servers crash.
FinalEventsDelivered ==
    \A e \in Ours : (\E log \in FinalLogs : log.event = e) ~> seen(e)
=============================================================================
