----------------------- MODULE SettlementListenerProofs -----------------------
(***************************************************************************)
(* Proofs about SettlementListener, for any number of listeners, events,   *)
(* blocks, crashes and reorganisations.  Type correctness and the last     *)
(* part hold for reorganisations of any depth; the others assume what the  *)
(* confirmation depth is there for: no reorganisation is deeper.           *)
(***************************************************************************)
EXTENDS SettlementListener, TLAPS

OrdinaryReorgs == ReorgDepth <= Confirmations

\* The last final block.
Depth == Len(chain) - Confirmations

Block == [fork : Nat, logs : Seq(Events)]
PCs == {"idle", "cursor", "check", "range", "fetch", "handle", "apply", "save", "stopped"}
Locals == [confirmed : Nat, start : Nat, queue : SUBSET Logs, hash : Nat]

\* Where a listener's locals are against the chain.
RangeAt(l) ==
    /\ pc[l] \notin {"idle", "stopped"} => local[l].confirmed <= Depth
    /\ pc[l] \notin {"idle", "stopped", "cursor"} => local[l].start >= 1
    /\ pc[l] \in {"fetch", "handle", "apply", "save"} => local[l].start <= local[l].confirmed

TypeInv == TypeOK /\ \A l \in Listeners : RangeAt(l)

\* Every event of ours up to a block is recorded.
Done(n) == \A log \in OurLogs(n) : seen(log.event)

\* What a listener knows of the blocks it has passed: all before its range are
\* done, and of its range those that are not in its queue any more.
ListenerAt(l) ==
    /\ pc[l] # "stopped"
    /\ pc[l] \in {"check", "range", "fetch", "handle", "apply", "save"} =>
          /\ Done(local[l].start - 1)
          /\ local[l].start >= StartBlock
          /\ local[l].start <= Depth + 1 \/ local[l].start = StartBlock
    /\ pc[l] = "check" =>
          /\ local[l].start - 1 \in 1 .. Depth
          /\ local[l].hash = chain[local[l].start - 1].fork
    /\ pc[l] \in {"handle", "apply"} =>
          /\ local[l].queue \subseteq LogsIn(local[l].start, RangeEnd(l))
          /\ \A log \in OurLogs(RangeEnd(l)) : seen(log.event) \/ log \in local[l].queue
    /\ pc[l] = "apply" => \A log \in local[l].queue : AtLog(l, log) => log.event \in Ours
    /\ pc[l] = "save" => Done(RangeEnd(l)) /\ local[l].hash = chain[RangeEnd(l)].fork

\* The cursor stands at a final block that is done.
CursorAt ==
    cursor # NoCursor =>
        /\ cursor.block \in StartBlock .. Depth
        /\ cursor.hash = chain[cursor.block].fork
        /\ Done(cursor.block)

\* A row is a final log of ours, and those before it have theirs.
RowsInv ==
    /\ \A i \in DOMAIN rows :
          \E log \in FinalLogs : log.event = rows[i].event /\ log.block = rows[i].block
    /\ \A log, other \in FinalLogs :
          seen(log.event) /\ Earlier(other, log) => seen(other.event)

IInv ==
    /\ TypeInv
    /\ LawfulLogs(chain)
    /\ RowsInv
    /\ CancelClassified
    /\ CursorAt
    /\ \A l \in Listeners : ListenerAt(l)
-----------------------------------------------------------------------------
(* The model's operators.                                                  *)

\* The end of a range that is not empty.
LEMMA RangeEndFacts ==
    ASSUME NEW l \in Listeners, local[l].start \in Nat, local[l].confirmed \in Nat,
           local[l].start <= local[l].confirmed
    PROVE  /\ RangeEnd(l) \in Nat
           /\ local[l].start <= RangeEnd(l) /\ RangeEnd(l) <= local[l].confirmed
  <1> DEFINE size == Max({MaxRange, 1})
             end == local[l].start + size - 1
  <1>1. size \in Nat /\ size >= 1
    <2>1. \E x \in {MaxRange, 1} : \A y \in {MaxRange, 1} : x >= y
      BY ListenerAssumption
    <2> QED BY <2>1, ListenerAssumption DEF Max
  <1> HIDE DEF size
  <1>2. end \in Nat /\ end >= local[l].start
    BY <1>1
  <1> HIDE DEF end
  <1>3. \E x \in {local[l].confirmed, end} : \A y \in {local[l].confirmed, end} : x <= y
    BY <1>2
  <1>4. Min({local[l].confirmed, end}) \in {local[l].confirmed, end}
    BY <1>3 DEF Min
  <1>5. Min({local[l].confirmed, end}) <= local[l].confirmed
    BY <1>2, <1>3 DEF Min
  <1>6. RangeEnd(l) = Min({local[l].confirmed, end})
    BY DEF RangeEnd, end, size
  <1> QED BY <1>2, <1>4, <1>5, <1>6

\* What a log of a stretch of the chain is.
LEMMA LogFacts ==
    ASSUME chain \in Seq(Block), NEW from, NEW to, NEW log
    PROVE  log \in LogsIn(from, to) <=>
              /\ log = [event |-> log.event, block |-> log.block, index |-> log.index]
              /\ log.block \in 1 .. Len(chain) /\ from <= log.block /\ log.block <= to
              /\ log.index \in DOMAIN chain[log.block].logs
              /\ log.event = chain[log.block].logs[log.index]
  BY DEF LogsIn, LogsOf

LEMMA LogTypes ==
    ASSUME chain \in Seq(Block), NEW from, NEW to, NEW log \in LogsIn(from, to)
    PROVE  log \in Logs /\ log \in LogsOf(chain)
  <1>1. /\ log = [event |-> log.event, block |-> log.block, index |-> log.index]
        /\ log.block \in 1 .. Len(chain) /\ log.index \in DOMAIN chain[log.block].logs
        /\ log.event = chain[log.block].logs[log.index]
    BY LogFacts
  <1>2. chain[log.block] \in Block
    BY <1>1
  <1>3. chain[log.block].logs \in Seq(Events)
    BY <1>2 DEF Block
  <1>4. log.event \in Events /\ log.index \in Nat /\ log.block \in Nat
    BY <1>1, <1>3
  <1>5. log \in Logs
    BY <1>1, <1>4 DEF Logs
  <1> QED BY <1>5 DEF LogsIn

\* Mining and ordinary reorganisations leave the final blocks alone.
Stable ==
    /\ Len(chain') >= Len(chain)
    /\ \A n \in 1 .. Depth : chain'[n] = chain[n]

\* The logs of final blocks stay.
LEMMA LogsStay ==
    ASSUME chain \in Seq(Block), chain' \in Seq(Block), Stable, NEW from, NEW to \in Int, to <= Depth
    PROVE  LogsIn(from, to)' = LogsIn(from, to)
  <1>1. ASSUME NEW n \in Int, n <= to
        PROVE  n \in 1 .. Len(chain) <=> n \in 1 .. Len(chain')
    BY <1>1, ListenerAssumption DEF Stable, Depth
  <1>2. ASSUME NEW n \in 1 .. Len(chain), n <= to
        PROVE  chain'[n] = chain[n]
    BY <1>2, ListenerAssumption DEF Stable, Depth
  <1>3. \A log : log \in LogsIn(from, to)' <=>
              /\ log = [event |-> log.event, block |-> log.block, index |-> log.index]
              /\ log.block \in 1 .. Len(chain') /\ from <= log.block /\ log.block <= to
              /\ log.index \in DOMAIN chain'[log.block].logs
              /\ log.event = chain'[log.block].logs[log.index]
    BY DEF LogsIn, LogsOf
  <1>4. \A log : log \in LogsIn(from, to)' <=> log \in LogsIn(from, to)
    BY <1>1, <1>2, <1>3, LogFacts
  <1> QED BY <1>4 DEF LogsIn
-----------------------------------------------------------------------------
(* Type correctness.                                                       *)

LEMMA TypeParts ==
    ASSUME TypeInv, NEW l \in Listeners
    PROVE  /\ chain \in Seq(Block) /\ Len(chain) \in Nat /\ Depth \in Int
           /\ pc \in [Listeners -> PCs] /\ local \in [Listeners -> Locals]
           /\ local[l].start \in Nat /\ local[l].confirmed \in Nat /\ local[l].hash \in Nat
           /\ local[l].queue \in SUBSET Logs
  BY ListenerAssumption DEF TypeInv, TypeOK, Block, PCs, Locals, Depth

\* A mined block is a block, and so are those of a reorganisation.
LEMMA BlocksTyped ==
    ASSUME NEW fork \in Nat
    PROVE  Blocks(fork) \subseteq Block
  BY DEF Blocks, Block, SeqOf

\* What the environment does to the chain.
LEMMA ChainSteps ==
    ASSUME TypeInv, Mine \/ Reorg
    PROVE  /\ chain' \in Seq(Block) /\ LawfulLogs(chain)' /\ reorgs' \in Nat
           /\ Len(chain') >= Len(chain)
           /\ OrdinaryReorgs => Stable
           /\ UNCHANGED <<cursor, rows, pc, local, failures>>
  <1>0. chain \in Seq(Block) /\ reorgs \in Nat /\ Len(chain) \in Nat
    BY DEF TypeInv, TypeOK, Block
  <1>1. CASE Mine
    <2>1. PICK b \in Blocks(reorgs) : LawfulLogs(Append(chain, b)) /\ chain' = Append(chain, b)
      BY <1>1 DEF Mine
    <2>2. b \in Block
      BY <1>0, BlocksTyped
    <2>3. /\ chain' \in Seq(Block) /\ Len(chain') = Len(chain) + 1
          /\ \A n \in 1 .. Len(chain) : chain'[n] = chain[n]
      BY <1>0, <2>1, <2>2
    <2>4. LawfulLogs(chain)' /\ reorgs' = reorgs /\ UNCHANGED <<cursor, rows, pc, local, failures>>
      BY <1>1, <2>1 DEF Mine, LawfulLogs, LogsOf
    <2>5. Stable
      BY <1>0, <2>3, ListenerAssumption DEF Stable, Depth
    <2> QED BY <1>0, <2>3, <2>4, <2>5
  <1>2. CASE Reorg
    <2>1. PICK d \in {n \in 1 .. ReorgDepth : n <= Len(chain)} :
             \E top \in [Len(chain) - d + 1 .. Len(chain) -> Blocks(reorgs + 1)] :
                LET c == [n \in DOMAIN chain |-> IF n \in DOMAIN top THEN top[n] ELSE chain[n]]
                IN  LawfulLogs(c) /\ chain' = c
      BY <1>2 DEF Reorg
    <2>2. PICK top \in [Len(chain) - d + 1 .. Len(chain) -> Blocks(reorgs + 1)] :
                LET c == [n \in DOMAIN chain |-> IF n \in DOMAIN top THEN top[n] ELSE chain[n]]
                IN  LawfulLogs(c) /\ chain' = c
      BY <2>1
    <2>3. /\ chain' = [n \in 1 .. Len(chain) |->
                         IF n \in Len(chain) - d + 1 .. Len(chain) THEN top[n] ELSE chain[n]]
          /\ LawfulLogs(chain')
      BY <1>0, <2>2
    <2>4. top \in [Len(chain) - d + 1 .. Len(chain) -> Block]
      BY <1>0, <2>2, BlocksTyped
    <2>5. chain' \in [1 .. Len(chain) -> Block]
      BY <1>0, <2>3, <2>4
    <2>6. chain' \in Seq(Block) /\ Len(chain') = Len(chain)
      BY <1>0, <2>5
    <2>7. OrdinaryReorgs => Stable
      BY <1>0, <2>3, <2>6, ListenerAssumption DEF OrdinaryReorgs, Stable, Depth
    <2>8. LawfulLogs(chain)' /\ reorgs' \in Nat /\ UNCHANGED <<cursor, rows, pc, local, failures>>
      BY <1>0, <1>2, <2>3 DEF Reorg, LawfulLogs, LogsOf
    <2> QED BY <1>0, <2>6, <2>7, <2>8
  <1> QED BY <1>1, <1>2

\* What a step of a listener leaves alone, and the types of what it writes.
LEMMA PollTyped ==
    ASSUME TypeInv, NEW l \in Listeners, Poll(l) \/ PollFails(l)
    PROVE  TypeInv'
  <1>0. /\ TypeOK /\ RangeAt(l)
        /\ pc \in [Listeners -> PCs] /\ local \in [Listeners -> Locals]
        /\ local[l] \in Locals /\ chain \in Seq(Block) /\ Len(chain) \in Nat
        /\ cursor \in [block : Nat, hash : Nat] /\ Depth \in Int
        /\ \A m \in Listeners : RangeAt(m)
    BY TypeParts DEF TypeInv, TypeOK, Locals, PCs, Block
  <1>1. ASSUME NEW to \in PCs, Go(l, to), NEW mine \in Locals, local' = [local EXCEPT ![l] = mine],
               UNCHANGED <<chain, reorgs>>,
               cursor' \in [block : Nat, hash : Nat], rows' \in Seq([event : Events, block : Nat, expired : BOOLEAN]),
               failures' \in Nat,
               to \notin {"idle", "stopped"} => mine.confirmed <= Depth,
               to \notin {"idle", "stopped", "cursor"} => mine.start >= 1,
               to \in {"fetch", "handle", "apply", "save"} => mine.start <= mine.confirmed
        PROVE  TypeInv'
    <2>1. pc'[l] = to /\ local'[l] = mine /\ Depth' = Depth
      BY <1>0, <1>1 DEF Go, Depth
    <2>2. \A m \in Listeners \ {l} : pc'[m] = pc[m] /\ local'[m] = local[m]
      BY <1>0, <1>1 DEF Go
    <2>3. RangeAt(l)'
      BY <1>1, <2>1 DEF RangeAt
    <2>4. \A m \in Listeners \ {l} : RangeAt(m)'
      BY <1>0, <2>1, <2>2 DEF RangeAt
    <2>5. local' \in [Listeners -> Locals] /\ pc' \in [Listeners -> PCs]
      BY <1>0, <1>1 DEF Go
    <2>6. TypeOK'
      BY <1>0, <1>1, <2>5 DEF TypeOK, Locals, PCs
    <2> QED BY <2>3, <2>4, <2>6 DEF TypeInv
  <1>2. /\ rows \in Seq([event : Events, block : Nat, expired : BOOLEAN]) /\ failures \in Nat
        /\ local[l].start \in Nat /\ local[l].confirmed \in Nat /\ local[l].hash \in Nat
        /\ local[l].queue \in SUBSET Logs
        /\ {"idle", "cursor", "check", "range", "fetch", "handle", "apply", "save", "stopped"} = PCs
    BY <1>0 DEF TypeOK, Locals, PCs
  <1>3. NoLocals \in Locals
    BY DEF NoLocals, Locals
  <1>4. ASSUME NEW x \in Nat PROVE [local[l] EXCEPT !.confirmed = x] \in Locals
    BY <1>0 DEF Locals
  <1>5. ASSUME NEW x \in Nat PROVE [local[l] EXCEPT !.start = x] \in Locals
    BY <1>0 DEF Locals
  <1>6. ASSUME NEW x \in Nat PROVE [local[l] EXCEPT !.hash = x] \in Locals
    BY <1>0 DEF Locals
  <1>7. ASSUME NEW x \in SUBSET Logs PROVE [local[l] EXCEPT !.queue = x] \in Locals
    BY <1>0 DEF Locals
  <1>8. ASSUME pc[l] \in {"fetch", "handle", "apply", "save"}
        PROVE  /\ RangeEnd(l) \in Nat /\ RangeEnd(l) \in 1 .. Len(chain)
               /\ local[l].start <= RangeEnd(l) /\ RangeEnd(l) <= local[l].confirmed
               /\ chain[RangeEnd(l)].fork \in Nat
    <2>1. /\ local[l].start <= local[l].confirmed /\ local[l].start >= 1
          /\ local[l].confirmed <= Depth
      BY <1>0, <1>8 DEF RangeAt
    <2>2. /\ RangeEnd(l) \in Nat /\ local[l].start <= RangeEnd(l)
          /\ RangeEnd(l) <= local[l].confirmed
      BY <1>2, <2>1, RangeEndFacts
    <2>3. RangeEnd(l) \in 1 .. Len(chain)
      BY <1>0, <1>2, <2>1, <2>2, ListenerAssumption DEF Depth
    <2>4. chain[RangeEnd(l)] \in Block
      BY <1>0, <2>3
    <2> QED BY <2>2, <2>3, <2>4 DEF Block
  <1>9. CASE ReadHead(l)
    <2> DEFINE mine == [local[l] EXCEPT !.confirmed = Depth]
    <2>1. /\ local' = [local EXCEPT ![l] = mine] /\ Depth \in Nat /\ Go(l, "cursor")
          /\ UNCHANGED <<chain, reorgs, cursor, rows, failures>>
      BY <1>0, <1>9, ListenerAssumption DEF ReadHead, Depth
    <2>a. mine \in Locals
      BY <1>4, <2>1
    <2>b. mine.confirmed = Depth
      BY <1>0 DEF Locals
    <2>2. mine \in Locals /\ mine.confirmed <= Depth
      BY <1>0, <2>a, <2>b
    <2> HIDE DEF mine
    <2> QED BY <1>0, <1>1, <1>2, <2>1, <2>2
  <1>10. CASE ReadCursor(l)
    <2>1. CASE cursor = NoCursor
      <3> DEFINE mine == [local[l] EXCEPT !.start = StartBlock]
      <3>1. /\ local' = [local EXCEPT ![l] = mine] /\ Go(l, "range") /\ pc[l] = "cursor"
            /\ UNCHANGED <<chain, reorgs, cursor, rows, failures>>
        BY <1>0, <1>10, <2>1 DEF ReadCursor
      <3>2. mine \in Locals /\ mine.confirmed = local[l].confirmed /\ mine.start = StartBlock
        BY <1>0, <1>5, ListenerAssumption DEF Locals
      <3> HIDE DEF mine
      <3>3. mine.confirmed <= Depth /\ mine.start >= 1
        BY <1>0, <3>1, <3>2, ListenerAssumption DEF RangeAt
      <3> QED BY <1>0, <1>1, <1>2, <3>1, <3>2, <3>3
    <2>2. CASE cursor # NoCursor
      <3> DEFINE mine == [local[l] EXCEPT !.start = cursor.block + 1, !.hash = cursor.hash]
      <3>1. /\ local' = [local EXCEPT ![l] = mine] /\ Go(l, "check") /\ pc[l] = "cursor"
            /\ UNCHANGED <<chain, reorgs, cursor, rows, failures>>
        BY <1>0, <1>10, <2>2 DEF ReadCursor
      <3>2. /\ mine \in Locals /\ mine.confirmed = local[l].confirmed
            /\ mine.start = cursor.block + 1 /\ mine.start >= 1
        <4>1. cursor.block \in Nat /\ cursor.block + 1 \in Nat /\ cursor.hash \in Nat /\ cursor.block + 1 >= 1
          BY <1>0
        <4>2. mine.confirmed = local[l].confirmed /\ mine.start = cursor.block + 1
          BY <1>0 DEF Locals
        <4>3. mine = [[local[l] EXCEPT !.start = cursor.block + 1] EXCEPT !.hash = cursor.hash]
          BY <1>0 DEF Locals
        <4>4. mine \in Locals
          BY <1>0, <4>1 DEF Locals
        <4> QED BY <4>1, <4>2, <4>4
      <3> HIDE DEF mine
      <3>3. mine.confirmed <= Depth
        BY <1>0, <3>1, <3>2 DEF RangeAt
      <3> QED BY <1>0, <1>1, <1>2, <3>1, <3>2, <3>3
    <2> QED BY <2>1, <2>2
  <1>11. CASE CheckCursor(l)
    <2>1. /\ \E to \in {"range", "stopped"} : Go(l, to)
          /\ pc[l] = "check" /\ local' = [local EXCEPT ![l] = local[l]]
          /\ UNCHANGED <<chain, reorgs, cursor, rows, failures>>
      BY <1>0, <1>11 DEF CheckCursor
    <2>2. local[l].confirmed <= Depth /\ local[l].start >= 1
      BY <1>0, <2>1 DEF RangeAt
    <2>3. "range" \in PCs /\ "stopped" \in PCs
      BY <1>2
    <2> QED BY <1>0, <1>1, <1>2, <2>1, <2>2, <2>3
  <1>12. CASE NextRange(l)
    <2>1. CASE local[l].start <= local[l].confirmed
      <3>1. /\ Go(l, "fetch") /\ pc[l] = "range" /\ local' = [local EXCEPT ![l] = local[l]]
            /\ UNCHANGED <<chain, reorgs, cursor, rows, failures>>
        BY <1>0, <1>12, <2>1 DEF NextRange
      <3>2. local[l].confirmed <= Depth /\ local[l].start >= 1
        BY <1>0, <3>1 DEF RangeAt
      <3> QED BY <1>0, <1>1, <1>2, <2>1, <3>1, <3>2
    <2>2. CASE ~(local[l].start <= local[l].confirmed)
      <3>1. /\ Go(l, "idle") /\ local' = [local EXCEPT ![l] = NoLocals]
            /\ UNCHANGED <<chain, reorgs, cursor, rows, failures>>
        BY <1>12, <2>2 DEF NextRange
      <3> QED BY <1>0, <1>1, <1>2, <1>3, <3>1
    <2> QED BY <2>1, <2>2
  <1>13. CASE GetLogs(l)
    <2> DEFINE mine == [local[l] EXCEPT !.queue = LogsIn(local[l].start, RangeEnd(l))]
    <2>1. /\ local' = [local EXCEPT ![l] = mine] /\ Go(l, "handle") /\ pc[l] = "fetch"
          /\ UNCHANGED <<chain, reorgs, cursor, rows, failures>>
      BY <1>0, <1>13 DEF GetLogs
    <2>2. LogsIn(local[l].start, RangeEnd(l)) \in SUBSET Logs
      BY <1>0, LogTypes
    <2>3. mine \in Locals /\ mine.start = local[l].start /\ mine.confirmed = local[l].confirmed
      BY <1>0, <1>7, <2>2 DEF Locals
    <2> HIDE DEF mine
    <2>4. mine.confirmed <= Depth /\ mine.start >= 1 /\ mine.start <= mine.confirmed
      BY <1>0, <2>1, <2>3 DEF RangeAt
    <2> QED BY <1>0, <1>1, <1>2, <2>1, <2>3, <2>4
  <1>14. CASE HandleSkip(l)
    <2>1. PICK log \in local[l].queue : Pop(l, log)
      BY <1>14 DEF HandleSkip
    <2> DEFINE mine == [local[l] EXCEPT !.queue = @ \ {log}]
    <2>2. /\ local' = [local EXCEPT ![l] = mine] /\ Go(l, "handle") /\ pc[l] = "handle"
          /\ UNCHANGED <<chain, reorgs, cursor, rows, failures>>
      BY <1>0, <1>14, <2>1 DEF HandleSkip, Pop, Go
    <2>3. mine \in Locals /\ mine.start = local[l].start /\ mine.confirmed = local[l].confirmed
      BY <1>0, <1>2, <1>7 DEF Locals
    <2> HIDE DEF mine
    <2>4. mine.confirmed <= Depth /\ mine.start >= 1 /\ mine.start <= mine.confirmed
      BY <1>0, <2>2, <2>3 DEF RangeAt
    <2> QED BY <1>0, <1>1, <1>2, <2>2, <2>3, <2>4
  <1>15. CASE HandleBegin(l)
    <2>1. /\ Go(l, "apply") /\ pc[l] = "handle" /\ local' = [local EXCEPT ![l] = local[l]]
          /\ UNCHANGED <<chain, reorgs, cursor, rows, failures>>
      BY <1>0, <1>15 DEF HandleBegin
    <2>2. local[l].confirmed <= Depth /\ local[l].start >= 1 /\ local[l].start <= local[l].confirmed
      BY <1>0, <2>1 DEF RangeAt
    <2> QED BY <1>0, <1>1, <1>2, <2>1, <2>2
  <1>16. CASE HandleCommit(l)
    <2>1. PICK log \in local[l].queue :
              /\ rows' = IF seen(log.event) THEN rows ELSE Append(rows, RowOf(log))
              /\ Pop(l, log)
      BY <1>16 DEF HandleCommit
    <2> DEFINE mine == [local[l] EXCEPT !.queue = @ \ {log}]
    <2>2. /\ local' = [local EXCEPT ![l] = mine] /\ Go(l, "handle") /\ pc[l] = "apply"
          /\ UNCHANGED <<chain, reorgs, cursor, failures>>
      BY <1>0, <1>16, <2>1 DEF HandleCommit, Pop
    <2>3. mine \in Locals /\ mine.start = local[l].start /\ mine.confirmed = local[l].confirmed
      BY <1>0, <1>2, <1>7 DEF Locals
    <2> HIDE DEF mine
    <2>4. mine.confirmed <= Depth /\ mine.start >= 1 /\ mine.start <= mine.confirmed
      BY <1>0, <2>2, <2>3 DEF RangeAt
    <2>5. log.event \in Events /\ log.block \in Nat
      BY <1>2 DEF Logs
    <2>6. RowOf(log) \in [event : Events, block : Nat, expired : BOOLEAN]
      BY <2>5 DEF RowOf, quote_expired_at
    <2>7. rows' \in Seq([event : Events, block : Nat, expired : BOOLEAN])
      <3>1. CASE seen(log.event)
        BY <1>2, <2>1, <3>1
      <3>2. CASE ~seen(log.event)
        <4>1. rows' = Append(rows, RowOf(log))
          BY <2>1, <3>2
        <4> HIDE DEF mine
        <4> QED BY <1>2, <2>6, <4>1
      <3> QED BY <3>1, <3>2
    <2> QED BY <1>0, <1>1, <1>2, <2>2, <2>3, <2>4, <2>7
  <1>17. CASE ReadEndHash(l)
    <2> DEFINE mine == [local[l] EXCEPT !.hash = chain[RangeEnd(l)].fork]
    <2>1. /\ local' = [local EXCEPT ![l] = mine] /\ Go(l, "save") /\ pc[l] = "handle"
          /\ UNCHANGED <<chain, reorgs, cursor, rows, failures>>
      BY <1>0, <1>17 DEF ReadEndHash
    <2>2. mine \in Locals /\ mine.start = local[l].start /\ mine.confirmed = local[l].confirmed
      BY <1>0, <1>6, <1>8, <2>1 DEF Locals
    <2> HIDE DEF mine
    <2>3. mine.confirmed <= Depth /\ mine.start >= 1 /\ mine.start <= mine.confirmed
      BY <1>0, <2>1, <2>2 DEF RangeAt
    <2> QED BY <1>0, <1>1, <1>2, <2>1, <2>2, <2>3
  <1>18. CASE SaveCursor(l)
    <2> DEFINE mine == [local[l] EXCEPT !.start = RangeEnd(l) + 1]
    <2>1. /\ local' = [local EXCEPT ![l] = mine] /\ Go(l, "range") /\ pc[l] = "save"
          /\ cursor' = [block |-> RangeEnd(l), hash |-> local[l].hash]
          /\ UNCHANGED <<chain, reorgs, rows, failures>>
      BY <1>0, <1>18 DEF SaveCursor
    <2>2. RangeEnd(l) \in Nat
      BY <1>8, <2>1
    <2>a. mine \in Locals
      BY <1>5, <2>2
    <2>b. mine.start = RangeEnd(l) + 1 /\ mine.confirmed = local[l].confirmed
      BY <1>0 DEF Locals
    <2>3. mine \in Locals /\ mine.start >= 1 /\ mine.confirmed = local[l].confirmed
      BY <2>2, <2>a, <2>b
    <2> HIDE DEF mine
    <2>4. mine.confirmed <= Depth /\ cursor' \in [block : Nat, hash : Nat]
      BY <1>0, <1>2, <2>1, <2>2, <2>3 DEF RangeAt
    <2> QED BY <1>0, <1>1, <1>2, <2>1, <2>3, <2>4
  <1>19. CASE PollFails(l)
    <2>1. /\ Go(l, "idle") /\ local' = [local EXCEPT ![l] = NoLocals]
          /\ failures' \in Nat /\ UNCHANGED <<chain, reorgs, cursor, rows>>
      BY <1>2, <1>19 DEF PollFails
    <2> QED BY <1>0, <1>1, <1>2, <1>3, <2>1
  <1> QED BY <1>9, <1>10, <1>11, <1>12, <1>13, <1>14, <1>15, <1>16, <1>17, <1>18, <1>19 DEF Poll

LEMMA TypeStep == TypeInv /\ [Next]_vars => TypeInv'
  <1> SUFFICES ASSUME TypeInv, [Next]_vars PROVE TypeInv'
    OBVIOUS
  <1>1. CASE UNCHANGED vars
    BY <1>1 DEF vars, TypeInv, TypeOK, RangeAt, Depth
  <1>2. CASE Mine \/ Reorg
    <2>1. /\ chain' \in Seq(Block) /\ reorgs' \in Nat /\ Len(chain') >= Len(chain)
          /\ UNCHANGED <<cursor, rows, pc, local, failures>>
      BY <1>2, ChainSteps
    <2>2. TypeOK'
      BY <2>1 DEF TypeInv, TypeOK, Block
    <2>3. ASSUME NEW l \in Listeners PROVE RangeAt(l)'
      <3>1. Len(chain) \in Nat /\ Len(chain') \in Nat
        BY <2>1, TypeParts
      <3>2. Depth' >= Depth /\ Depth \in Int /\ Depth' \in Int /\ local[l].confirmed \in Nat /\ RangeAt(l)
        BY <2>1, <3>1, TypeParts, ListenerAssumption DEF Depth, TypeInv
      <3>3. pc'[l] = pc[l] /\ local'[l] = local[l]
        BY <2>1
      <3> QED BY <3>2, <3>3 DEF RangeAt
    <2> QED BY <2>2, <2>3 DEF TypeInv
  <1> QED BY <1>1, <1>2, PollTyped DEF Next

\* The tables, the chain and what every listener has in its locals keep their
\* types, and a listener's range lies within the confirmed blocks.
THEOREM TypeCorrect == Spec => []TypeOK
  <1>1. Init => TypeInv
    BY DEF Init, TypeInv, TypeOK, RangeAt, NoCursor, NoLocals
  <1>2. TypeInv => TypeOK
    BY DEF TypeInv
  <1> QED BY <1>1, <1>2, TypeStep, PTL DEF Spec
-----------------------------------------------------------------------------
(* What later blocks and rows leave true.                                  *)

\* A row is never taken back.
RowsGrow == \A e : seen(e) => seen(e)'

LEMMA OurLogsStay ==
    ASSUME TypeInv, TypeInv', Stable, NEW n \in Int, n <= Depth
    PROVE  OurLogs(n)' = OurLogs(n)
  <1>1. LogsIn(StartBlock, n)' = LogsIn(StartBlock, n)
    BY LogsStay DEF TypeInv, TypeOK, Block
  <1> QED BY <1>1 DEF OurLogs

LEMMA DoneStays ==
    ASSUME TypeInv, TypeInv', Stable, RowsGrow, NEW n \in Int, n <= Depth, Done(n)
    PROVE  Done(n)'
  BY OurLogsStay DEF Done, RowsGrow

\* There is nothing of ours before the start block.
LEMMA DoneAtStart == TypeInv => Done(StartBlock - 1)
  <1> SUFFICES ASSUME TypeInv, NEW log \in OurLogs(StartBlock - 1) PROVE FALSE
    BY DEF Done
  <1>1. log \in LogsIn(StartBlock, StartBlock - 1) /\ chain \in Seq(Block)
    BY TypeParts DEF OurLogs, TypeInv, TypeOK, Block
  <1>2. StartBlock <= log.block /\ log.block <= StartBlock - 1 /\ log.block \in Nat
    BY <1>1, LogFacts
  <1> QED BY <1>2, ListenerAssumption

LEMMA DepthGrows ==
    ASSUME TypeInv, TypeInv', Stable
    PROVE  Depth \in Int /\ Depth' \in Int /\ Depth <= Depth'
  <1>1. Len(chain) \in Nat /\ Len(chain') \in Nat
    BY DEF TypeInv, TypeOK
  <1> QED BY <1>1, ListenerAssumption DEF Stable, Depth

LEMMA CursorStays ==
    ASSUME TypeInv, TypeInv', Stable, RowsGrow, CursorAt, UNCHANGED cursor
    PROVE  CursorAt'
  <1> SUFFICES ASSUME cursor # NoCursor
               PROVE  /\ cursor.block \in StartBlock .. Depth'
                      /\ cursor.hash = chain'[cursor.block].fork
                      /\ Done(cursor.block)'
    BY DEF CursorAt
  <1>1. /\ cursor.block \in StartBlock .. Depth /\ cursor.hash = chain[cursor.block].fork
        /\ Done(cursor.block) /\ cursor.block \in Int /\ StartBlock >= 1
    BY ListenerAssumption DEF CursorAt, TypeInv, TypeOK
  <1>2. Done(cursor.block)'
    BY <1>1, DepthGrows, DoneStays
  <1>3. chain'[cursor.block] = chain[cursor.block]
    BY <1>1, DepthGrows, ListenerAssumption DEF Stable
  <1> QED BY <1>1, <1>2, <1>3, DepthGrows, ListenerAssumption

LEMMA ListenerStays ==
    ASSUME TypeInv, TypeInv', Stable, RowsGrow, NEW l \in Listeners, ListenerAt(l),
           pc'[l] = pc[l], local'[l] = local[l]
    PROVE  ListenerAt(l)'
  <1>1. /\ local[l].start \in Nat /\ local[l].confirmed \in Nat /\ StartBlock \in Nat
        /\ RangeAt(l) /\ Depth \in Int /\ Depth' \in Int /\ Depth <= Depth'
    BY TypeParts, DepthGrows, ListenerAssumption DEF TypeInv
  <1>2. RangeEnd(l)' = RangeEnd(l)
    BY DEF RangeEnd
  <1>3. ASSUME pc[l] \in {"check", "range", "fetch", "handle", "apply", "save"}
        PROVE  Done(local[l].start - 1)'
    <2>1. Done(local[l].start - 1)
      BY <1>3 DEF ListenerAt
    <2>2. CASE local[l].start <= Depth + 1
      <3>1. local[l].start - 1 \in Int /\ local[l].start - 1 <= Depth
        BY <1>1, <2>2
      <3> QED BY <2>1, <3>1, DoneStays
    <2>3. CASE local[l].start = StartBlock
      <3>1. Done(StartBlock - 1)'
        <4>1. (TypeInv => Done(StartBlock - 1))'
          BY DoneAtStart, PTL
        <4> QED BY <4>1
      <3> QED BY <2>3, <3>1
    <2> QED BY <1>3, <2>2, <2>3 DEF ListenerAt
  <1>4. ASSUME pc[l] = "check"
        PROVE  /\ local[l].start - 1 \in 1 .. Depth'
               /\ local[l].hash = chain'[local[l].start - 1].fork
    <2>1. local[l].start - 1 \in 1 .. Depth /\ local[l].hash = chain[local[l].start - 1].fork
      BY <1>4 DEF ListenerAt
    <2> QED BY <1>1, <2>1 DEF Stable
  <1>5. ASSUME pc[l] \in {"handle", "apply", "save"}
        PROVE  /\ RangeEnd(l) \in Int /\ RangeEnd(l) <= Depth /\ RangeEnd(l) \in 1 .. Depth
               /\ OurLogs(RangeEnd(l))' = OurLogs(RangeEnd(l))
               /\ LogsIn(local[l].start, RangeEnd(l))' = LogsIn(local[l].start, RangeEnd(l))
    <2>1. /\ local[l].start <= local[l].confirmed /\ local[l].start >= 1
          /\ local[l].confirmed <= Depth
      BY <1>1, <1>5 DEF RangeAt
    <2>2. RangeEnd(l) \in Int /\ RangeEnd(l) <= Depth /\ RangeEnd(l) \in 1 .. Depth
      BY <1>1, <2>1, RangeEndFacts
    <2>3. LogsIn(local[l].start, RangeEnd(l))' = LogsIn(local[l].start, RangeEnd(l))
      BY <1>2, <2>2, LogsStay DEF TypeInv, TypeOK, Block
    <2> QED BY <1>2, <2>2, <2>3, OurLogsStay
  <1>6. ASSUME pc[l] \in {"handle", "apply"}
        PROVE  /\ local[l].queue \subseteq LogsIn(local[l].start, RangeEnd(l))'
               /\ \A log \in OurLogs(RangeEnd(l))' : seen(log.event)' \/ log \in local[l].queue
    BY <1>5, <1>6 DEF ListenerAt, RowsGrow
  <1>7. ASSUME pc[l] = "save"
        PROVE  Done(RangeEnd(l))' /\ local[l].hash = chain'[RangeEnd(l)].fork
    <2>1. Done(RangeEnd(l)) /\ local[l].hash = chain[RangeEnd(l)].fork
      BY <1>7 DEF ListenerAt
    <2>2. Done(RangeEnd(l))'
      BY <1>2, <1>5, <1>7, <2>1, DoneStays
    <2> QED BY <1>5, <1>7, <2>1, <2>2 DEF Stable
  <1>8. \A log : AtLog(l, log)' <=> AtLog(l, log)
    BY DEF AtLog
  <1> QED BY <1>1, <1>2, <1>3, <1>4, <1>5, <1>6, <1>7, <1>8 DEF ListenerAt

\* The final logs grow behind those that are.
LEMMA FinalGrows ==
    ASSUME TypeInv, TypeInv', Stable
    PROVE  \A log : log \in FinalLogs <=> log \in FinalLogs' /\ log.block <= Depth
  <1>1. /\ Depth \in Int /\ Depth' \in Int /\ Depth <= Depth'
        /\ chain \in Seq(Block) /\ chain' \in Seq(Block)
    BY DepthGrows DEF TypeInv, TypeOK, Block
  <1> PICK D \in Int : D = Depth
    BY <1>1
  <1>2. LogsIn(StartBlock, D)' = LogsIn(StartBlock, D)
    BY <1>1, LogsStay
  <1>3. FinalLogs = {log \in LogsIn(StartBlock, D) : log.event \in Ours}
    BY DEF FinalLogs, OurLogs, Depth
  <1>4. \A log : log \in LogsIn(StartBlock, D)' <=>
                  log \in LogsOf(chain') /\ StartBlock <= log.block /\ log.block <= D
    BY DEF LogsIn, LogsOf
  <1>5. \A log : log \in FinalLogs' <=>
                  /\ log \in LogsOf(chain') /\ StartBlock <= log.block /\ log.block <= Depth'
                  /\ log.event \in Ours
    BY DEF FinalLogs, OurLogs, LogsIn, Depth, LogsOf
  <1>6. \A log \in LogsOf(chain') : log.block \in Int
    BY <1>1 DEF LogsOf
  <1> QED BY <1>1, <1>2, <1>3, <1>4, <1>5, <1>6

\* A final log of ours, typed.
LEMMA FinalTypes ==
    ASSUME TypeInv, NEW log \in FinalLogs
    PROVE  /\ log \in Logs /\ log.event \in Ours /\ log \in LogsOf(chain)
           /\ StartBlock <= log.block /\ log.block <= Depth
  <1>1. log \in LogsIn(StartBlock, Depth) /\ log.event \in Ours /\ chain \in Seq(Block)
    BY DEF FinalLogs, OurLogs, Depth, TypeInv, TypeOK, Block
  <1> QED BY <1>1, LogTypes, LogFacts

\* The environment's steps keep the invariant.
LEMMA ChainInv ==
    ASSUME OrdinaryReorgs, IInv, TypeInv', Mine \/ Reorg
    PROVE  IInv'
  <1>1. /\ Stable /\ LawfulLogs(chain)' /\ UNCHANGED <<cursor, rows, pc, local>>
        /\ TypeInv /\ RowsInv /\ CancelClassified /\ CursorAt
    BY ChainSteps DEF IInv
  <1>2. RowsGrow
    BY <1>1 DEF RowsGrow, seen
  <1>3. CursorAt'
    BY <1>1, <1>2, CursorStays
  <1>4. ASSUME NEW l \in Listeners PROVE ListenerAt(l)'
    BY <1>1, <1>2, ListenerStays DEF IInv
  <1>5. /\ Depth \in Int /\ Depth' \in Int /\ Depth <= Depth'
        /\ chain \in Seq(Block) /\ chain' \in Seq(Block)
    BY <1>1, DepthGrows DEF TypeInv, TypeOK, Block
  <1> PICK D \in Int : D = Depth
    BY <1>5
  <1>6. LogsIn(StartBlock, D)' = LogsIn(StartBlock, D)
    BY <1>1, <1>5, LogsStay
  <1>7. FinalLogs = {log \in LogsIn(StartBlock, D) : log.event \in Ours}
    BY DEF FinalLogs, OurLogs, Depth
  <1>8. FinalLogs = {log \in FinalLogs' : log.block <= D}
    BY <1>1, FinalGrows
  <1>9. RowsInv'
    <2>1. ASSUME NEW log \in FinalLogs', seen(log.event)
          PROVE  log \in FinalLogs
      <3>1. PICK i \in DOMAIN rows : rows[i].event = log.event
        BY <2>1 DEF seen
      <3>2. PICK old \in FinalLogs : old.event = log.event
        BY <1>1, <3>1 DEF RowsInv
      <3>3. old \in FinalLogs' /\ old \in LogsOf(chain') /\ log \in LogsOf(chain')
        BY <1>8, <3>2 DEF FinalLogs, OurLogs, LogsIn, LogsOf
      <3>4. old = log
        BY <1>1, <3>2, <3>3 DEF LawfulLogs, LogsOf
      <3> QED BY <3>2, <3>4
    <2>2. ASSUME NEW log \in FinalLogs', NEW other \in FinalLogs', seen(log.event), Earlier(other, log)
          PROVE  seen(other.event)
      <3>1. log \in FinalLogs
        BY <2>1, <2>2
      <3>2. log.block \in Int /\ other.block \in Int
        BY <1>5 DEF FinalLogs, OurLogs, LogsIn, LogsOf
      <3>3. other \in FinalLogs
        BY <1>8, <2>2, <3>1, <3>2 DEF Earlier
      <3> QED BY <1>1, <2>2, <3>1, <3>3 DEF RowsInv
    <2>3. \A i \in DOMAIN rows : \E log \in FinalLogs' :
              log.event = rows[i].event /\ log.block = rows[i].block
      BY <1>1, <1>8 DEF RowsInv
    <2>4. \A e : seen(e)' <=> seen(e)
      BY <1>1 DEF seen
    <2> QED BY <1>1, <2>2, <2>3, <2>4 DEF RowsInv, Earlier
  <1>10. CancelClassified'
    <2>1. ASSUME NEW i \in DOMAIN rows
          PROVE  LogsIn(StartBlock, rows[i].block)' = LogsIn(StartBlock, rows[i].block)
      <3>1. PICK log \in FinalLogs : log.block = rows[i].block
        BY <1>1 DEF RowsInv
      <3>2. log \in LogsIn(StartBlock, D)
        BY <1>7, <3>1
      <3>3. log.block \in Int /\ log.block <= D
        BY <1>5, <3>2, LogFacts
      <3> QED BY <1>1, <1>5, <3>1, <3>3, LogsStay
    <2> QED BY <1>1, <2>1 DEF CancelClassified
  <1> QED BY <1>1, <1>3, <1>4, <1>9, <1>10 DEF IInv
-----------------------------------------------------------------------------
(* The listeners' steps.                                                   *)

\* The log a listener is at: those of ours before it have their rows.
LEMMA HeadFacts ==
    ASSUME IInv, NEW l \in Listeners, pc[l] \in {"handle", "apply"},
           NEW log \in local[l].queue, AtLog(l, log)
    PROVE  /\ log.event \in Ours => log \in FinalLogs
           /\ \A other \in FinalLogs : Earlier(other, log) => seen(other.event)
  <1>0. /\ TypeInv /\ ListenerAt(l) /\ RangeAt(l) /\ chain \in Seq(Block)
        /\ local[l].start \in Nat /\ local[l].confirmed \in Nat /\ Depth \in Int
        /\ StartBlock \in Nat
    BY TypeParts, ListenerAssumption DEF IInv, TypeInv
  <1>1. /\ local[l].queue \subseteq LogsIn(local[l].start, RangeEnd(l))
        /\ \A other \in OurLogs(RangeEnd(l)) : seen(other.event) \/ other \in local[l].queue
        /\ local[l].start >= StartBlock
    BY <1>0 DEF ListenerAt
  <1>2. RangeEnd(l) \in Int /\ RangeEnd(l) <= Depth
    BY <1>0, RangeEndFacts DEF RangeAt
  <1>3. log \in LogsIn(local[l].start, RangeEnd(l)) /\ log \in LogsOf(chain)
    BY <1>1 DEF LogsIn
  <1>4. /\ log.block \in Int /\ local[l].start <= log.block /\ log.block <= RangeEnd(l)
        /\ log.index \in Int
    BY <1>0, <1>3, LogTypes, LogFacts DEF Logs
  <1>5. log.event \in Ours => log \in FinalLogs
    BY <1>0, <1>1, <1>2, <1>3, <1>4 DEF FinalLogs, OurLogs, LogsIn, Depth
  <1>6. ASSUME NEW other \in FinalLogs, Earlier(other, log)
        PROVE  seen(other.event)
    <2>0. other \in LogsIn(StartBlock, Depth) /\ other.event \in Ours
      BY DEF FinalLogs, OurLogs, Depth
    <2>1. /\ other \in LogsOf(chain) /\ StartBlock <= other.block /\ other.event \in Ours
          /\ other.block \in Int /\ other.index \in Int
      <3>1. other \in Logs /\ other \in LogsOf(chain) /\ StartBlock <= other.block
        BY <1>0, <2>0, LogTypes, LogFacts
      <3> QED BY <2>0, <3>1 DEF Logs
    <2>2. other.block <= RangeEnd(l)
      BY <1>2, <1>4, <1>6, <2>1 DEF Earlier
    <2>3. other \in OurLogs(RangeEnd(l))
      BY <2>1, <2>2 DEF OurLogs, LogsIn
    <2>4. CASE other \in local[l].queue
      <3>1. other # log
        BY <1>4, <1>6 DEF Earlier
      <3>2. Earlier(log, other)
        BY <2>4, <3>1 DEF AtLog
      <3> QED BY <1>4, <1>6, <2>1, <3>2 DEF Earlier
    <2> QED BY <1>1, <2>3, <2>4
  <1> QED BY <1>5, <1>6

\* A cancel is looked up in rows that hold its transfer's lock, if there is one.
LEMMA ExpiryFacts ==
    ASSUME IInv, NEW log \in FinalLogs, log.event \in Cancels,
           \A other \in FinalLogs : Earlier(other, log) => seen(other.event)
    PROVE  quote_expired_at(log.event, log.block) <=>
              \E lock \in LogsIn(StartBlock, log.block) :
                  /\ lock.event \in Locks
                  /\ TransferOf[lock.event] = TransferOf[log.event]
                  /\ log.block >= ExpiresAt[lock.event]
  <1> DEFINE IsLock(i) == rows[i].event \in Locks /\ TransferOf[rows[i].event] = TransferOf[log.event]
             locks == {i \in DOMAIN rows : IsLock(i)}
             latest == CHOOSE i \in locks : \A j \in locks : rows[j].block <= rows[i].block
  <1>0. /\ chain \in Seq(Block) /\ Depth \in Int /\ log \in LogsOf(chain) /\ LawfulLogs(chain)
        /\ log.event \in Ours /\ log.event \in Events
        /\ log.block \in Int /\ log.block <= Depth
        /\ \A i \in DOMAIN rows :
              \E old \in FinalLogs : old.event = rows[i].event /\ old.block = rows[i].block
    <2>1. TypeInv /\ RowsInv /\ LawfulLogs(chain)
      BY DEF IInv
    <2>2. chain \in Seq(Block) /\ Depth \in Int
      BY <2>1, ListenerAssumption DEF TypeInv, TypeOK, Block, Depth
    <2>3. log \in LogsIn(StartBlock, Depth) /\ log.event \in Ours
      BY DEF FinalLogs, OurLogs, Depth
    <2>4. log \in Logs /\ log \in LogsOf(chain) /\ log.block <= Depth
      BY <2>2, <2>3, LogTypes, LogFacts
    <2> QED BY <2>1, <2>2, <2>3, <2>4 DEF RowsInv, Logs
  \* A lock of the transfer in the chain is the one the vault made before.
  <1>1. ASSUME NEW lock \in LogsOf(chain), lock.event \in Locks,
               TransferOf[lock.event] = TransferOf[log.event]
        PROVE  Earlier(lock, log) /\ lock.block \in Int /\ lock.block <= log.block
    <2>1. lock.event \in Events /\ <<lock.event, log.event>> \in Before
      BY <1>0, <1>1, ListenerAssumption, VaultAssumption
    <2>2. PICK a \in LogsOf(chain) : a.event = lock.event /\ Earlier(a, log)
      BY <1>0, <2>1 DEF LawfulLogs
    <2>3. a = lock
      BY <1>0, <2>2 DEF LawfulLogs
    <2>4. lock.block \in Int
      BY <1>0 DEF LogsOf
    <2> QED BY <1>0, <2>2, <2>3, <2>4 DEF Earlier
  <1>2. ASSUME NEW i \in locks
        PROVE  \E old \in FinalLogs : /\ old.event = rows[i].event /\ old.block = rows[i].block
                                      /\ old \in LogsOf(chain) /\ StartBlock <= old.block
    BY <1>0 DEF FinalLogs, OurLogs, LogsIn
  <1>3. ASSUME NEW i \in locks, NEW j \in locks
        PROVE  rows[i].event = rows[j].event /\ rows[j].block <= rows[i].block
    <2>1. rows[i].event \in Locks /\ rows[j].event \in Locks
          /\ TransferOf[rows[i].event] = TransferOf[rows[j].event]
      OBVIOUS
    <2>2. rows[i].event = rows[j].event
      BY <2>1, ListenerAssumption, VaultAssumption
    <2>3. PICK a \in FinalLogs : a.event = rows[i].event /\ a.block = rows[i].block /\ a \in LogsOf(chain)
      BY <1>2
    <2>4. PICK b \in FinalLogs : b.event = rows[j].event /\ b.block = rows[j].block /\ b \in LogsOf(chain)
      BY <1>2
    <2>5. a = b
      BY <1>0, <2>2, <2>3, <2>4 DEF LawfulLogs
    <2>6. a.block \in Int
      BY <1>0, <2>3 DEF LogsOf
    <2> QED BY <2>2, <2>3, <2>4, <2>5, <2>6
  <1>4. locks # {} => latest \in locks
    BY <1>3
  <1>5. quote_expired_at(log.event, log.block) <=>
            locks # {} /\ log.block >= ExpiresAt[rows[latest].event]
    BY DEF quote_expired_at
  <1> HIDE DEF latest
  <1>6. ASSUME locks # {}, log.block >= ExpiresAt[rows[latest].event]
        PROVE  \E lock \in LogsIn(StartBlock, log.block) :
                  /\ lock.event \in Locks
                  /\ TransferOf[lock.event] = TransferOf[log.event]
                  /\ log.block >= ExpiresAt[lock.event]
    <2>1. /\ latest \in locks /\ rows[latest].event \in Locks
          /\ TransferOf[rows[latest].event] = TransferOf[log.event]
      BY <1>4, <1>6
    <2>2. PICK old \in FinalLogs : /\ old.event = rows[latest].event
                                   /\ old \in LogsOf(chain) /\ StartBlock <= old.block
      BY <1>2, <2>1
    <2>3. old.block <= log.block
      BY <1>1, <2>1, <2>2
    <2>4. old \in LogsIn(StartBlock, log.block)
      BY <2>2, <2>3 DEF LogsIn
    <2> QED BY <1>6, <2>1, <2>2, <2>4
  <1>7. ASSUME NEW lock \in LogsIn(StartBlock, log.block), lock.event \in Locks,
               TransferOf[lock.event] = TransferOf[log.event], log.block >= ExpiresAt[lock.event]
        PROVE  locks # {} /\ log.block >= ExpiresAt[rows[latest].event]
    <2>1. lock \in LogsOf(chain) /\ StartBlock <= lock.block
      BY DEF LogsIn
    <2>2. Earlier(lock, log) /\ lock.block \in Int /\ lock.block <= log.block
      BY <1>1, <1>7, <2>1
    <2>3. lock.event \in Ours
      BY <1>0, <1>7, ListenerAssumption, VaultAssumption
    <2>4. lock \in FinalLogs
      <3>1. lock.block <= Depth
        BY <1>0, <2>2
      <3> QED BY <2>1, <2>3, <3>1 DEF FinalLogs, OurLogs, LogsIn, Depth
    <2>5. PICK i \in DOMAIN rows : rows[i].event = lock.event
      BY <2>2, <2>4 DEF seen
    <2>6. i \in locks /\ latest \in locks
      BY <1>4, <1>7, <2>5
    <2>7. rows[latest].event = lock.event
      BY <1>3, <2>5, <2>6
    <2> QED BY <1>7, <2>6, <2>7
  <1> QED BY <1>5, <1>6, <1>7

\* The row of the log a listener is at.
LEMMA CommitRows ==
    ASSUME IInv, NEW log \in FinalLogs, ~seen(log.event),
           \A other \in FinalLogs : Earlier(other, log) => seen(other.event),
           rows' = Append(rows, RowOf(log)), UNCHANGED chain
    PROVE  RowsInv' /\ CancelClassified' /\ RowsGrow /\ seen(log.event)'
  <1>1. /\ rows \in Seq([event : Events, block : Nat, expired : BOOLEAN]) /\ Len(rows) \in Nat
        /\ chain \in Seq(Block) /\ LawfulLogs(chain) /\ RowsInv /\ CancelClassified
        /\ log \in LogsOf(chain) /\ FinalLogs \subseteq LogsOf(chain)
    BY DEF IInv, TypeInv, TypeOK, Block, FinalLogs, OurLogs, LogsIn
  <1>2. /\ DOMAIN rows' = 1 .. Len(rows) + 1 /\ DOMAIN rows = 1 .. Len(rows)
        /\ \A i \in 1 .. Len(rows) : rows'[i] = rows[i]
        /\ rows'[Len(rows) + 1] = RowOf(log)
    BY <1>1
  <1>3. FinalLogs' = FinalLogs /\ \A from, to : LogsIn(from, to)' = LogsIn(from, to)
    BY DEF FinalLogs, OurLogs, LogsIn, LogsOf
  <1>4. RowOf(log).event = log.event /\ RowOf(log).block = log.block
    BY DEF RowOf
  <1>5. \A e : seen(e)' <=> seen(e) \/ e = log.event
    <2>1. ASSUME NEW e, seen(e) PROVE seen(e)'
      <3>1. PICK i \in 1 .. Len(rows) : rows[i].event = e
        BY <1>2, <2>1 DEF seen
      <3>2. i \in DOMAIN rows' /\ rows'[i].event = e
        BY <1>1, <1>2, <3>1
      <3> QED BY <3>2 DEF seen
    <2>2. seen(log.event)'
      <3>1. Len(rows) + 1 \in DOMAIN rows' /\ rows'[Len(rows) + 1].event = log.event
        BY <1>1, <1>2, <1>4
      <3>2. \E i \in DOMAIN rows' : rows'[i].event = log.event
        BY <3>1
      <3> QED BY <3>2 DEF seen
    <2>3. ASSUME NEW e, seen(e)' PROVE seen(e) \/ e = log.event
      <3>1. PICK i \in 1 .. Len(rows) + 1 : rows'[i].event = e
        BY <1>2, <2>3 DEF seen
      <3>2. CASE i = Len(rows) + 1
        BY <1>2, <1>4, <3>1, <3>2
      <3>3. CASE i \in 1 .. Len(rows)
        BY <1>2, <3>1, <3>3 DEF seen
      <3> QED BY <1>1, <3>2, <3>3
    <2> QED BY <2>1, <2>2, <2>3
  <1>6. RowsInv'
    <2>1. ASSUME NEW a \in FinalLogs, NEW b \in FinalLogs, seen(a.event)', Earlier(b, a)
          PROVE  seen(b.event)'
      <3>1. CASE seen(a.event)
        BY <1>1, <1>5, <2>1, <3>1 DEF RowsInv
      <3>2. CASE a.event = log.event
        <4>1. a = log
          BY <1>1, <3>2 DEF LawfulLogs
        <4> QED BY <1>5, <2>1, <4>1
      <3> QED BY <1>5, <2>1, <3>1, <3>2
    <2>2. \A i \in DOMAIN rows' :
              \E a \in FinalLogs : a.event = rows'[i].event /\ a.block = rows'[i].block
      BY <1>1, <1>2, <1>4 DEF RowsInv
    <2> QED BY <1>3, <2>1, <2>2 DEF RowsInv, Earlier
  <1>7. CancelClassified'
    <2>1. CASE log.event \in Cancels
      <3>1. RowOf(log).expired <=> quote_expired_at(log.event, log.block)
        BY <2>1 DEF RowOf
      <3> QED BY <1>1, <1>2, <1>3, <1>4, <2>1, <3>1, ExpiryFacts DEF CancelClassified
    <2>2. CASE log.event \notin Cancels
      BY <1>1, <1>2, <1>3, <1>4, <2>2 DEF CancelClassified
    <2> QED BY <2>1, <2>2
  <1> QED BY <1>5, <1>6, <1>7 DEF RowsGrow

\* A listener's step leaves the chain, and what the others know of it, alone.
LEMMA PollFrame ==
    ASSUME IInv, TypeInv', NEW l \in Listeners, UNCHANGED chain,
           \A m \in Listeners \ {l} : pc'[m] = pc[m] /\ local'[m] = local[m],
           RowsGrow, RowsInv', CancelClassified', CursorAt', ListenerAt(l)'
    PROVE  IInv'
  <1>1. Stable /\ TypeInv
    <2>1. TypeInv /\ Len(chain) \in Nat
      BY DEF IInv, TypeInv, TypeOK
    <2> QED BY <2>1 DEF Stable
  <1>2. ASSUME NEW m \in Listeners \ {l} PROVE ListenerAt(m)'
    <2>1. ListenerAt(m) /\ pc'[m] = pc[m] /\ local'[m] = local[m]
      BY DEF IInv
    <2> QED BY <1>1, <2>1, ListenerStays
  <1>3. LawfulLogs(chain)'
    BY DEF IInv, LawfulLogs, LogsOf
  <1> QED BY <1>2, <1>3 DEF IInv

\* Without a new row what the rows and the chain say is unchanged.
LEMMA QuietStep ==
    ASSUME UNCHANGED <<chain, rows>>
    PROVE  /\ Depth' = Depth /\ RowsGrow
           /\ \A e : seen(e)' <=> seen(e)
           /\ \A from, to : LogsIn(from, to)' = LogsIn(from, to)
           /\ \A n : OurLogs(n)' = OurLogs(n)
           /\ \A n : Done(n)' <=> Done(n)
           /\ RowsInv => RowsInv'
           /\ CancelClassified => CancelClassified'
           /\ CursorAt /\ UNCHANGED cursor => CursorAt'
  <1>1. \A e : seen(e)' <=> seen(e)
    BY DEF seen
  <1>2. \A from, to : LogsIn(from, to)' = LogsIn(from, to)
    BY DEF LogsIn, LogsOf
  <1>3. \A n : OurLogs(n)' = OurLogs(n)
    BY <1>2 DEF OurLogs
  <1>4. \A n : Done(n)' <=> Done(n)
    BY <1>1, <1>3 DEF Done
  <1>5. Depth' = Depth /\ FinalLogs' = FinalLogs
    BY <1>3 DEF Depth, FinalLogs
  <1>6. RowsInv => RowsInv'
    BY <1>1, <1>5 DEF RowsInv, Earlier
  <1>7. CancelClassified => CancelClassified'
    BY <1>2 DEF CancelClassified
  <1>8. CursorAt /\ UNCHANGED cursor => CursorAt'
    BY <1>4, <1>5 DEF CursorAt
  <1> QED BY <1>1, <1>2, <1>3, <1>4, <1>5, <1>6, <1>7, <1>8 DEF RowsGrow

\* A queue has one first log.
LEMMA OneHead ==
    ASSUME TypeInv, NEW l \in Listeners, NEW a, NEW b, AtLog(l, a), AtLog(l, b)
    PROVE  a = b
  <1> SUFFICES ASSUME a # b PROVE FALSE
    OBVIOUS
  <1>1. a \in Logs /\ b \in Logs /\ Earlier(a, b) /\ Earlier(b, a)
    BY TypeParts DEF AtLog
  <1> QED BY <1>1 DEF Earlier, Logs

\* What a step of l starts from.
LEMMA PollFacts ==
    ASSUME IInv, NEW l \in Listeners
    PROVE  /\ TypeInv /\ RowsInv /\ CancelClassified /\ CursorAt /\ LawfulLogs(chain)
           /\ RangeAt(l) /\ ListenerAt(l)
           /\ chain \in Seq(Block) /\ Depth \in Int /\ StartBlock \in Nat /\ StartBlock >= 1
           /\ pc \in [Listeners -> PCs] /\ local \in [Listeners -> Locals]
           /\ local[l] \in Locals
           /\ local[l].start \in Nat /\ local[l].confirmed \in Nat
           /\ pc[l] \in {"fetch", "handle", "apply", "save"} =>
                 /\ RangeEnd(l) \in Int /\ RangeEnd(l) <= Depth
                 /\ local[l].start <= RangeEnd(l) /\ RangeEnd(l) >= 1
  <1>1. /\ TypeInv /\ RowsInv /\ CancelClassified /\ CursorAt /\ LawfulLogs(chain)
        /\ RangeAt(l) /\ ListenerAt(l)
    BY DEF IInv, TypeInv
  <1>2. /\ chain \in Seq(Block) /\ Depth \in Int /\ StartBlock \in Nat /\ StartBlock >= 1
        /\ pc \in [Listeners -> PCs] /\ local \in [Listeners -> Locals]
        /\ local[l].start \in Nat /\ local[l].confirmed \in Nat
    BY <1>1, TypeParts, ListenerAssumption
  <1>3. ASSUME pc[l] \in {"fetch", "handle", "apply", "save"}
        PROVE  /\ RangeEnd(l) \in Int /\ RangeEnd(l) <= Depth
               /\ local[l].start <= RangeEnd(l) /\ RangeEnd(l) >= 1
    <2>1. /\ local[l].start <= local[l].confirmed /\ local[l].start >= 1
          /\ local[l].confirmed <= Depth
      BY <1>1, <1>3 DEF RangeAt
    <2>2. /\ RangeEnd(l) \in Nat /\ local[l].start <= RangeEnd(l)
          /\ RangeEnd(l) <= local[l].confirmed
      BY <1>2, <2>1, RangeEndFacts
    <2> QED BY <1>2, <2>1, <2>2
  <1> QED BY <1>1, <1>2, <1>3

\* Where a poll starts and how it goes from range to range.
LEMMA RangeInv ==
    ASSUME IInv, TypeInv', NEW l \in Listeners,
           \/ ReadHead(l) \/ ReadCursor(l) \/ CheckCursor(l) \/ NextRange(l) \/ PollFails(l)
    PROVE  IInv'
  <1>0. /\ TypeInv /\ RowsInv /\ CancelClassified /\ CursorAt /\ ListenerAt(l)
        /\ Depth \in Int /\ StartBlock \in Nat /\ StartBlock >= 1
        /\ pc \in [Listeners -> PCs] /\ local \in [Listeners -> Locals] /\ local[l] \in Locals
    BY PollFacts
  <1>1. UNCHANGED <<chain, rows, cursor>>
    BY DEF ReadHead, ReadCursor, CheckCursor, NextRange, PollFails
  <1>2. /\ Depth' = Depth /\ RowsGrow /\ RowsInv' /\ CancelClassified' /\ CursorAt'
        /\ \A n : Done(n)' <=> Done(n)
    BY <1>0, <1>1, QuietStep
  <1>3. \A m \in Listeners \ {l} : pc'[m] = pc[m] /\ local'[m] = local[m]
    BY <1>0 DEF ReadHead, ReadCursor, CheckCursor, NextRange, PollFails, Go
  <1>4. ListenerAt(l)'
    <2>1. CASE ReadHead(l)
      <3>1. pc'[l] = "cursor"
        BY <1>0, <2>1 DEF ReadHead, Go
      <3> QED BY <3>1 DEF ListenerAt
    <2>2. CASE ReadCursor(l) /\ cursor = NoCursor
      <3>1. pc'[l] = "range" /\ local'[l].start = StartBlock
        BY <1>0, <2>2 DEF ReadCursor, Go, Locals
      <3>2. Done(StartBlock - 1)'
        BY <1>0, <1>2, DoneAtStart
      <3> QED BY <1>0, <3>1, <3>2 DEF ListenerAt
    <2>3. CASE ReadCursor(l) /\ cursor # NoCursor
      <3>1. /\ pc'[l] = "check" /\ local'[l].start = cursor.block + 1
            /\ local'[l].hash = cursor.hash
        BY <1>0, <2>3 DEF ReadCursor, Go, Locals
      <3>2. /\ cursor.block \in StartBlock .. Depth /\ cursor.hash = chain[cursor.block].fork
            /\ Done(cursor.block)
        BY <1>0, <2>3 DEF CursorAt
      <3>3. /\ cursor.block \in Int /\ local'[l].start - 1 = cursor.block
            /\ local'[l].start >= StartBlock /\ local'[l].start <= Depth' + 1
            /\ cursor.block \in 1 .. Depth'
        BY <1>0, <1>2, <3>1, <3>2
      <3>4. Done(local[l].start - 1)'
        BY <1>2, <3>2, <3>3
      <3> QED BY <1>1, <3>1, <3>2, <3>3, <3>4 DEF ListenerAt
    <2>4. CASE CheckCursor(l)
      <3>1. pc[l] = "check" /\ local[l].hash = chain[local[l].start - 1].fork
        BY <1>0, <2>4 DEF CheckCursor, ListenerAt
      <3>2. pc'[l] = "range" /\ local' = local
        BY <1>0, <2>4, <3>1 DEF CheckCursor, Go
      <3>3. /\ Done(local[l].start - 1) /\ local[l].start >= StartBlock
            /\ local[l].start <= Depth + 1 \/ local[l].start = StartBlock
        BY <1>0, <3>1 DEF ListenerAt
      <3> QED BY <1>2, <3>2, <3>3 DEF ListenerAt
    <2>5. CASE NextRange(l) /\ local[l].start <= local[l].confirmed
      <3>1. pc[l] = "range" /\ pc'[l] = "fetch" /\ local' = local
        BY <1>0, <2>5 DEF NextRange, Go
      <3>2. /\ Done(local[l].start - 1) /\ local[l].start >= StartBlock
            /\ local[l].start <= Depth + 1 \/ local[l].start = StartBlock
        BY <1>0, <3>1 DEF ListenerAt
      <3> QED BY <1>2, <3>1, <3>2 DEF ListenerAt
    <2>6. CASE NextRange(l) /\ ~(local[l].start <= local[l].confirmed)
      <3>1. pc'[l] = "idle"
        BY <1>0, <2>6 DEF NextRange, Go
      <3> QED BY <3>1 DEF ListenerAt
    <2>7. CASE PollFails(l)
      <3>1. pc'[l] = "idle"
        BY <1>0, <2>7 DEF PollFails, Go
      <3> QED BY <3>1 DEF ListenerAt
    <2> QED BY <2>1, <2>2, <2>3, <2>4, <2>5, <2>6, <2>7
  <1> QED BY <1>1, <1>2, <1>3, <1>4, PollFrame

\* A range is fetched, its logs are passed over or begun, its end is asked for.
LEMMA QueueInv ==
    ASSUME IInv, TypeInv', NEW l \in Listeners,
           GetLogs(l) \/ HandleSkip(l) \/ HandleBegin(l) \/ ReadEndHash(l)
    PROVE  IInv'
  <1>0. /\ TypeInv /\ RowsInv /\ CancelClassified /\ CursorAt /\ ListenerAt(l)
        /\ chain \in Seq(Block) /\ Depth \in Int /\ StartBlock \in Nat /\ StartBlock >= 1
        /\ pc \in [Listeners -> PCs] /\ local \in [Listeners -> Locals] /\ local[l] \in Locals
        /\ local[l].start \in Nat
    BY PollFacts
  <1>1. UNCHANGED <<chain, rows, cursor>>
    BY DEF GetLogs, HandleSkip, HandleBegin, ReadEndHash
  <1>2. /\ Depth' = Depth /\ RowsGrow /\ RowsInv' /\ CancelClassified' /\ CursorAt'
        /\ \A e : seen(e)' <=> seen(e)
        /\ \A from, to : LogsIn(from, to)' = LogsIn(from, to)
        /\ \A n : OurLogs(n)' = OurLogs(n)
        /\ \A n : Done(n)' <=> Done(n)
    BY <1>0, <1>1, QuietStep
  <1>3. \A m \in Listeners \ {l} : pc'[m] = pc[m] /\ local'[m] = local[m]
    BY <1>0 DEF GetLogs, HandleSkip, HandleBegin, ReadEndHash, Go, Pop
  <1>4. /\ pc[l] \in {"fetch", "handle"}
        /\ local'[l].start = local[l].start /\ local'[l].confirmed = local[l].confirmed
    BY <1>0 DEF GetLogs, HandleSkip, HandleBegin, ReadEndHash, Pop, Locals
  <1>5. RangeEnd(l)' = RangeEnd(l)
    BY <1>4 DEF RangeEnd
  <1>6. /\ Done(local[l].start - 1) /\ local[l].start >= StartBlock
        /\ local[l].start <= Depth + 1 \/ local[l].start = StartBlock
        /\ RangeEnd(l) \in Int /\ RangeEnd(l) <= Depth /\ local[l].start <= RangeEnd(l)
    BY <1>0, <1>4, PollFacts DEF ListenerAt
  <1>7. /\ Done(local[l].start - 1)' /\ local'[l].start >= StartBlock
        /\ local'[l].start <= Depth' + 1 \/ local'[l].start = StartBlock
    BY <1>2, <1>4, <1>6
  <1>8. ListenerAt(l)'
    <2>1. CASE GetLogs(l)
      <3>1. pc'[l] = "handle" /\ local'[l].queue = LogsIn(local[l].start, RangeEnd(l))
        BY <1>0, <2>1 DEF GetLogs, Go, Locals
      <3>2. ASSUME NEW log \in OurLogs(RangeEnd(l)), ~seen(log.event)
            PROVE  log \in LogsIn(local[l].start, RangeEnd(l))
        <4>0. log \in LogsIn(StartBlock, RangeEnd(l)) /\ log.event \in Ours
          BY DEF OurLogs
        <4>1. /\ log \in LogsOf(chain) /\ StartBlock <= log.block
              /\ log.block <= RangeEnd(l) /\ log.event \in Ours /\ log.block \in Int
          BY <1>0, <4>0, LogTypes, LogFacts
        <4>2. CASE log.block < local[l].start
          <5>1. log \in OurLogs(local[l].start - 1)
            BY <1>0, <4>1, <4>2 DEF OurLogs, LogsIn
          <5> QED BY <1>6, <3>2, <5>1 DEF Done
        <4>3. CASE ~(log.block < local[l].start)
          BY <1>0, <4>1, <4>3 DEF LogsIn
        <4> QED BY <4>2, <4>3
      <3>3. /\ local'[l].queue \subseteq LogsIn(local[l].start, RangeEnd(l))'
            /\ \A log \in OurLogs(RangeEnd(l))' : seen(log.event)' \/ log \in local'[l].queue
        BY <1>2, <1>4, <1>5, <3>1, <3>2
      <3> QED BY <1>7, <3>1, <3>3 DEF ListenerAt
    <2>2. CASE HandleSkip(l)
      <3>1. PICK log \in local[l].queue : (seen(log.event) \/ log.event \notin Ours) /\ Pop(l, log)
        BY <2>2 DEF HandleSkip
      <3>2. pc[l] = "handle" /\ pc'[l] = "handle" /\ local'[l].queue = local[l].queue \ {log}
        BY <1>0, <2>2, <3>1 DEF HandleSkip, Pop, Locals
      <3>3. /\ local[l].queue \subseteq LogsIn(local[l].start, RangeEnd(l))
            /\ \A other \in OurLogs(RangeEnd(l)) : seen(other.event) \/ other \in local[l].queue
        BY <1>0, <3>2 DEF ListenerAt
      <3>4. \A other \in OurLogs(RangeEnd(l)) :
                seen(other.event) \/ other \in local[l].queue \ {log}
        BY <3>1, <3>3 DEF OurLogs
      <3>5. /\ local'[l].queue \subseteq LogsIn(local[l].start, RangeEnd(l))'
            /\ \A other \in OurLogs(RangeEnd(l))' : seen(other.event)' \/ other \in local'[l].queue
        BY <1>2, <1>4, <1>5, <3>2, <3>3, <3>4
      <3> QED BY <1>7, <3>2, <3>5 DEF ListenerAt
    <2>3. CASE HandleBegin(l)
      <3>1. PICK log \in local[l].queue : AtLog(l, log) /\ log.event \in Ours
        BY <2>3 DEF HandleBegin
      <3>2. pc[l] = "handle" /\ pc'[l] = "apply" /\ local' = local
        BY <1>0, <2>3 DEF HandleBegin, Go
      <3>3. /\ local[l].queue \subseteq LogsIn(local[l].start, RangeEnd(l))
            /\ \A other \in OurLogs(RangeEnd(l)) : seen(other.event) \/ other \in local[l].queue
        BY <1>0, <3>2 DEF ListenerAt
      <3>4. \A other \in local[l].queue : AtLog(l, other)' => other.event \in Ours
        <4>1. \A other : AtLog(l, other)' <=> AtLog(l, other)
          BY <3>2 DEF AtLog
        <4> QED BY <1>0, <3>1, <4>1, OneHead
      <3>5. /\ local'[l].queue \subseteq LogsIn(local[l].start, RangeEnd(l))'
            /\ \A other \in OurLogs(RangeEnd(l))' : seen(other.event)' \/ other \in local'[l].queue
        BY <1>2, <1>4, <1>5, <3>2, <3>3
      <3> QED BY <1>7, <3>2, <3>4, <3>5 DEF ListenerAt
    <2>4. CASE ReadEndHash(l)
      <3>1. /\ pc[l] = "handle" /\ pc'[l] = "save" /\ local[l].queue = {}
            /\ local'[l].hash = chain[RangeEnd(l)].fork
        BY <1>0, <2>4 DEF ReadEndHash, Go, Locals
      <3>2. Done(RangeEnd(l))
        BY <1>0, <3>1 DEF ListenerAt, Done
      <3>3. Done(RangeEnd(l))' /\ local'[l].hash = chain'[RangeEnd(l)'].fork
        BY <1>1, <1>2, <1>5, <3>1, <3>2
      <3> QED BY <1>7, <3>1, <3>3 DEF ListenerAt
    <2> QED BY <2>1, <2>2, <2>3, <2>4
  <1> QED BY <1>1, <1>2, <1>3, <1>8, PollFrame

\* The cursor is saved at the end of a range that is done.
LEMMA SaveInv ==
    ASSUME IInv, TypeInv', NEW l \in Listeners, SaveCursor(l)
    PROVE  IInv'
  <1>0. /\ TypeInv /\ RowsInv /\ CancelClassified /\ ListenerAt(l)
        /\ Depth \in Int /\ StartBlock \in Nat /\ StartBlock >= 1
        /\ pc \in [Listeners -> PCs] /\ local \in [Listeners -> Locals] /\ local[l] \in Locals
        /\ local[l].start \in Nat /\ pc[l] = "save" /\ UNCHANGED <<chain, rows>>
        /\ RangeEnd(l) \in Int /\ RangeEnd(l) <= Depth /\ local[l].start <= RangeEnd(l)
    BY PollFacts DEF SaveCursor
  <1>1. /\ Depth' = Depth /\ RowsGrow /\ RowsInv' /\ CancelClassified'
        /\ \A n : Done(n)' <=> Done(n)
    BY <1>0, QuietStep
  <1>2. \A m \in Listeners \ {l} : pc'[m] = pc[m] /\ local'[m] = local[m]
    BY <1>0 DEF SaveCursor, Go
  <1>3. /\ Done(RangeEnd(l)) /\ local[l].hash = chain[RangeEnd(l)].fork
        /\ local[l].start >= StartBlock
    BY <1>0 DEF ListenerAt
  <1> PICK end \in Int : end = RangeEnd(l)
    BY <1>0
  <1>4. /\ pc'[l] = "range" /\ local'[l].start = end + 1
        /\ cursor' = [block |-> end, hash |-> chain[end].fork]
    BY <1>0, <1>3 DEF SaveCursor, Go, Locals
  <1>5. CursorAt'
    <2>1. /\ cursor'.block = end /\ cursor'.hash = chain'[end].fork /\ end \in StartBlock .. Depth'
          /\ Done(end)'
      BY <1>0, <1>1, <1>3, <1>4
    <2>2. Done(cursor.block)'
      BY <2>1
    <2> QED BY <2>1, <2>2 DEF CursorAt
  <1>6. ListenerAt(l)'
    <2>1. local'[l].start - 1 = end /\ local'[l].start >= StartBlock /\ local'[l].start <= Depth' + 1
      BY <1>0, <1>1, <1>3, <1>4
    <2>2. Done(local[l].start - 1)'
      BY <1>1, <1>3, <2>1
    <2> QED BY <1>4, <2>1, <2>2 DEF ListenerAt
  <1> QED BY <1>0, <1>1, <1>2, <1>5, <1>6, PollFrame

\* The transaction of a log: its row is new, or the transaction rolls back.
LEMMA CommitFacts ==
    ASSUME IInv, NEW l \in Listeners, HandleCommit(l)
    PROVE  \E log \in FinalLogs :
              /\ log \in local[l].queue /\ local' = [local EXCEPT ![l].queue = @ \ {log}]
              /\ \A other \in FinalLogs : Earlier(other, log) => seen(other.event)
              /\ rows' = IF seen(log.event) THEN rows ELSE Append(rows, RowOf(log))
  <1>1. PICK log \in local[l].queue :
           /\ AtLog(l, log) /\ Pop(l, log)
           /\ rows' = IF seen(log.event) THEN rows ELSE Append(rows, RowOf(log))
    BY DEF HandleCommit
  <1>2. pc[l] = "apply" /\ log.event \in Ours
    BY <1>1, PollFacts DEF HandleCommit, ListenerAt
  <1>3. log \in FinalLogs /\ \A other \in FinalLogs : Earlier(other, log) => seen(other.event)
    BY <1>1, <1>2, HeadFacts
  <1> QED BY <1>1, <1>3 DEF Pop

LEMMA CommitInv ==
    ASSUME IInv, TypeInv', NEW l \in Listeners, HandleCommit(l)
    PROVE  IInv'
  <1>0. /\ TypeInv /\ RowsInv /\ CancelClassified /\ CursorAt /\ ListenerAt(l)
        /\ chain \in Seq(Block) /\ Depth \in Int
        /\ pc \in [Listeners -> PCs] /\ local \in [Listeners -> Locals] /\ local[l] \in Locals
        /\ pc[l] = "apply" /\ UNCHANGED <<chain, cursor>>
    BY PollFacts DEF HandleCommit
  <1>1. PICK log \in FinalLogs :
           /\ log \in local[l].queue /\ local' = [local EXCEPT ![l].queue = @ \ {log}]
           /\ \A other \in FinalLogs : Earlier(other, log) => seen(other.event)
           /\ rows' = IF seen(log.event) THEN rows ELSE Append(rows, RowOf(log))
    BY CommitFacts
  <1>2. RowsGrow /\ RowsInv' /\ CancelClassified' /\ seen(log.event)'
    <2>1. CASE seen(log.event)
      BY <1>0, <1>1, <2>1, QuietStep
    <2>2. CASE ~seen(log.event)
      BY <1>0, <1>1, <2>2, CommitRows
    <2> QED BY <2>1, <2>2
  <1>3. CursorAt'
    <2>1. Stable
      BY <1>0 DEF Stable
    <2> QED BY <1>0, <1>2, <2>1, CursorStays
  <1>4. \A m \in Listeners \ {l} : pc'[m] = pc[m] /\ local'[m] = local[m]
    BY <1>0, <1>1 DEF HandleCommit, Go
  <1>5. /\ pc'[l] = "handle" /\ local'[l].queue = local[l].queue \ {log}
        /\ local'[l].start = local[l].start /\ local'[l].confirmed = local[l].confirmed
    BY <1>0, <1>1 DEF HandleCommit, Go, Locals
  <1>6. RangeEnd(l)' = RangeEnd(l) /\ Depth' = Depth
    BY <1>0, <1>5 DEF RangeEnd, Depth
  <1>7. /\ \A from, to : LogsIn(from, to)' = LogsIn(from, to)
        /\ \A n : OurLogs(n)' = OurLogs(n)
    BY <1>0 DEF OurLogs, LogsIn, LogsOf
  <1>8. \A n : Done(n) => Done(n)'
    BY <1>2, <1>7 DEF Done, RowsGrow
  <1>9. /\ Done(local[l].start - 1) /\ local[l].start >= StartBlock
        /\ local[l].start <= Depth + 1 \/ local[l].start = StartBlock
        /\ local[l].queue \subseteq LogsIn(local[l].start, RangeEnd(l))
        /\ \A other \in OurLogs(RangeEnd(l)) : seen(other.event) \/ other \in local[l].queue
    BY <1>0 DEF ListenerAt
  <1>10. ListenerAt(l)'
    <2>1. /\ local'[l].queue \subseteq LogsIn(local[l].start, RangeEnd(l))'
          /\ \A other \in OurLogs(RangeEnd(l))' : seen(other.event)' \/ other \in local'[l].queue
      BY <1>2, <1>5, <1>6, <1>7, <1>9 DEF RowsGrow
    <2>2. /\ Done(local[l].start - 1)' /\ local'[l].start >= StartBlock
          /\ local'[l].start <= Depth' + 1 \/ local'[l].start = StartBlock
      BY <1>5, <1>6, <1>8, <1>9
    <2> QED BY <1>5, <2>1, <2>2 DEF ListenerAt
  <1> QED BY <1>0, <1>2, <1>3, <1>4, <1>10, PollFrame

LEMMA IInit == Init => IInv
  <1> SUFFICES ASSUME Init PROVE IInv
    OBVIOUS
  <1>1. TypeInv
    BY DEF Init, TypeInv, TypeOK, RangeAt, NoCursor, NoLocals
  <1>2. LogsOf(chain) = {} /\ FinalLogs = {}
    BY DEF Init, LogsOf, FinalLogs, OurLogs, LogsIn
  <1>3. LawfulLogs(chain)
    BY <1>2 DEF LawfulLogs
  <1>4. RowsInv /\ CancelClassified /\ CursorAt
    BY <1>2 DEF Init, RowsInv, CancelClassified, CursorAt
  <1>5. \A l \in Listeners : ListenerAt(l)
    BY DEF Init, ListenerAt
  <1> QED BY <1>1, <1>3, <1>4, <1>5 DEF IInv

LEMMA NextInv ==
    ASSUME OrdinaryReorgs, IInv, [Next]_vars
    PROVE  IInv'
  <1>1. TypeInv'
    BY TypeStep DEF IInv
  <1>2. CASE UNCHANGED vars
    <2>1. /\ UNCHANGED <<chain, rows, cursor, pc, local>>
          /\ TypeInv /\ RowsInv /\ CancelClassified /\ CursorAt
      BY <1>2 DEF vars, IInv
    <2>2. Stable
      BY <2>1 DEF Stable, TypeInv, TypeOK
    <2>3. RowsGrow /\ RowsInv' /\ CancelClassified' /\ CursorAt'
      BY <2>1, QuietStep
    <2>4. ASSUME NEW l \in Listeners PROVE ListenerAt(l)'
      BY <1>1, <2>1, <2>2, <2>3, ListenerStays DEF IInv
    <2>5. LawfulLogs(chain)'
      BY <2>1 DEF IInv, LawfulLogs, LogsOf
    <2> QED BY <1>1, <2>3, <2>4, <2>5 DEF IInv
  <1>3. CASE Mine \/ Reorg
    BY <1>1, <1>3, ChainInv
  <1>4. ASSUME NEW l \in Listeners, Poll(l) \/ PollFails(l)
        PROVE  IInv'
    BY <1>1, <1>4, RangeInv, QueueInv, CommitInv, SaveInv DEF Poll
  <1> QED BY <1>2, <1>3, <1>4 DEF Next
-----------------------------------------------------------------------------
(* What holds while no reorganisation is deeper than the confirmations.    *)

LEMMA Invariant == OrdinaryReorgs => (Spec => []IInv)
  <1> SUFFICES ASSUME OrdinaryReorgs PROVE Spec => []IInv
    OBVIOUS
  <1>1. IInv /\ [Next]_vars => IInv'
    BY NextInv
  <1> QED BY IInit, <1>1, PTL DEF Spec

\* CheckCursor never finds its block gone: however polls, crashes and the other
\* listeners interleave with mining, run never ends with
\* ReorgBeyondConfirmations.
THEOREM ReorgsAreSurvived == OrdinaryReorgs => (Spec => []OrdinaryReorgSurvived)
  <1> SUFFICES ASSUME OrdinaryReorgs PROVE Spec => []OrdinaryReorgSurvived
    OBVIOUS
  <1>1. IInv => OrdinaryReorgSurvived
    BY DEF IInv, ListenerAt, OrdinaryReorgSurvived
  <1> QED BY <1>1, Invariant, PTL

\* save_cursor is unconditional and may move the cursor back, but wherever it
\* stands every event of ours up to it has its row.
THEOREM CursorIsProcessed == OrdinaryReorgs => (Spec => []CursorBlockProcessed)
  <1> SUFFICES ASSUME OrdinaryReorgs PROVE Spec => []CursorBlockProcessed
    OBVIOUS
  <1>1. IInv => CursorBlockProcessed
    BY DEF IInv, CursorAt, CursorBlockProcessed, Done
  <1> QED BY <1>1, Invariant, PTL

\* quote_expired_at decides from the backend's rows what the chain says: the
\* rows hold the lock before the cancel, whichever listener committed it.
THEOREM CancelsAreClassified == OrdinaryReorgs => (Spec => []CancelClassified)
  <1> SUFFICES ASSUME OrdinaryReorgs PROVE Spec => []CancelClassified
    OBVIOUS
  <1>1. IInv => CancelClassified
    BY DEF IInv
  <1> QED BY <1>1, Invariant, PTL
-----------------------------------------------------------------------------
(* The listener implements EventDelivery.                                  *)

LEMMA DeliveredSeen ==
    ASSUME NEW e
    PROVE  Delivery!isDelivered(e) <=> seen(e)
  <1>1. DOMAIN Delivered = DOMAIN rows /\ \A i \in DOMAIN rows : Delivered[i] = rows[i].event
    BY DEF Delivered
  <1>2. Delivery!ToSet(Delivered) = {rows[i].event : i \in DOMAIN rows}
    BY <1>1 DEF Delivery!ToSet
  <1> QED BY <1>2 DEF Delivery!isDelivered, seen

LEMMA FinalTyped == TypeInv => FinalLogs \subseteq Delivery!Logs
  BY FinalTypes DEF Logs, Delivery!Logs

LEMMA OrderSame ==
    ASSUME NEW a, NEW b
    PROVE  Delivery!Earlier(a, b) <=> Earlier(a, b)
  BY DEF Delivery!Earlier, Earlier

LEMMA DeliveryInit == Init => Delivery!Init
  BY DEF Init, Delivery!Init, FinalLogs, OurLogs, LogsIn, LogsOf, Delivered

\* A mined block or an ordinary reorganisation makes more logs final, or none.
LEMMA ChainDelivers ==
    ASSUME OrdinaryReorgs, IInv, IInv', Mine \/ Reorg
    PROVE  [Delivery!Next]_<<FinalLogs, Delivered>>
  <1>1. Stable /\ TypeInv /\ TypeInv' /\ rows' = rows
    BY ChainSteps DEF IInv
  <1>2. /\ \A log : log \in FinalLogs <=> log \in FinalLogs' /\ log.block <= Depth
        /\ Depth \in Int
    BY <1>1, FinalGrows, DepthGrows
  <1>3. Delivered' = Delivered
    BY <1>1 DEF Delivered
  <1>4. ASSUME NEW log \in FinalLogs'
        PROVE  log \in Delivery!Logs /\ log.block \in Int
    <2>1. (TypeInv => FinalLogs \subseteq Delivery!Logs)'
      BY FinalTyped, PTL
    <2> QED BY <1>1, <2>1 DEF Delivery!Logs
  <1>5. FinalLogs \subseteq FinalLogs'
    BY <1>2
  <1>6. ASSUME NEW log \in FinalLogs, NEW new \in FinalLogs' \ FinalLogs
        PROVE  Delivery!Earlier(log, new)
    <2>1. log.block <= Depth /\ ~(new.block <= Depth)
      BY <1>2
    <2>2. log.block \in Int /\ new.block \in Int
      BY <1>4, <1>5
    <2> QED BY <1>2, <2>1, <2>2 DEF Delivery!Earlier
  <1>7. FinalLogs' \subseteq Delivery!Logs
    BY <1>4
  <1>8. CASE FinalLogs' = FinalLogs
    BY <1>3, <1>8
  <1>9. CASE FinalLogs' # FinalLogs
    BY <1>3, <1>5, <1>6, <1>7, <1>9 DEF Delivery!Next, Delivery!Finalise
  <1> QED BY <1>8, <1>9

\* The row of a transaction is the delivery of the earliest log that has none.
LEMMA CommitDelivers ==
    ASSUME IInv, NEW l \in Listeners, HandleCommit(l)
    PROVE  [Delivery!Next]_<<FinalLogs, Delivered>>
  <1>1. PICK log \in FinalLogs :
           /\ \A other \in FinalLogs : Earlier(other, log) => seen(other.event)
           /\ rows' = IF seen(log.event) THEN rows ELSE Append(rows, RowOf(log))
    BY CommitFacts
  <1>2. FinalLogs' = FinalLogs
    BY DEF HandleCommit, FinalLogs, OurLogs, LogsIn, LogsOf
  <1>3. CASE seen(log.event)
    BY <1>1, <1>2, <1>3 DEF Delivered
  <1>4. CASE ~seen(log.event)
    <2>1. /\ rows \in Seq([event : Events, block : Nat, expired : BOOLEAN])
          /\ rows' = Append(rows, RowOf(log)) /\ RowOf(log).event = log.event
      BY <1>1, <1>4 DEF IInv, TypeInv, TypeOK, RowOf
    <2>2. /\ DOMAIN rows = 1 .. Len(rows) /\ DOMAIN rows' = 1 .. Len(rows) + 1
          /\ \A i \in 1 .. Len(rows) : rows'[i] = rows[i]
          /\ rows'[Len(rows) + 1] = RowOf(log) /\ Len(rows) \in Nat
      BY <2>1
    <2>3. Delivered \in Seq(Events) /\ Len(Delivered) = Len(rows)
      <3>1. \A i \in 1 .. Len(rows) : rows[i].event \in Events
        <4>1. ASSUME NEW R, NEW s \in Seq(R), NEW i \in 1 .. Len(s) PROVE s[i] \in R
          OBVIOUS
        <4>2. \A i \in 1 .. Len(rows) : rows[i] \in [event : Events, block : Nat, expired : BOOLEAN]
          BY <2>1, <4>1
        <4> QED BY <4>2
      <3>2. Delivered \in [1 .. Len(rows) -> Events]
        BY <2>2, <3>1 DEF Delivered
      <3> QED BY <2>2, <3>2
    <2>4. log.event \in Events
      BY FinalTypes DEF IInv, Logs
    <2>5. Delivered' = Append(Delivered, log.event)
      <3>1. Delivered' = [i \in 1 .. Len(rows) + 1 |-> rows'[i].event]
        BY <2>2 DEF Delivered
      <3>2. \A i \in 1 .. Len(rows) : Delivered[i] = rows[i].event
        BY <2>2 DEF Delivered
      <3>3. /\ Append(Delivered, log.event) \in [1 .. Len(rows) + 1 -> Events]
            /\ \A i \in 1 .. Len(rows) : Append(Delivered, log.event)[i] = Delivered[i]
            /\ Append(Delivered, log.event)[Len(rows) + 1] = log.event
        <4> PICK n \in Nat : n = Len(rows)
          BY <2>2
        <4>1. ASSUME NEW s \in Seq(Events), Len(s) = n, NEW e \in Events
              PROVE  /\ Append(s, e) \in [1 .. n + 1 -> Events]
                     /\ \A i \in 1 .. n : Append(s, e)[i] = s[i]
                     /\ Append(s, e)[n + 1] = e
          <5>1. Append(s, e) \in Seq(Events) /\ Len(Append(s, e)) = n + 1
            BY <4>1
          <5>2. Append(s, e)[n + 1] = e /\ \A i \in 1 .. n : Append(s, e)[i] = s[i]
            BY <4>1
          <5>3. ASSUME NEW t \in Seq(Events) PROVE t \in [1 .. Len(t) -> Events]
            OBVIOUS
          <5> QED BY <5>1, <5>2, <5>3
        <4> QED BY <2>3, <2>4, <4>1
      <3>4. \A i \in 1 .. Len(rows) + 1 : Append(Delivered, log.event)[i] = rows'[i].event
        <4>1. \A i \in 1 .. Len(rows) + 1 : i \in 1 .. Len(rows) \/ i = Len(rows) + 1
          BY <2>2
        <4> QED BY <2>1, <2>2, <3>2, <3>3, <4>1
      <3> QED BY <3>1, <3>3, <3>4
    <2>6. /\ ~Delivery!isDelivered(log.event)
          /\ \A other \in FinalLogs :
                Delivery!Earlier(other, log) => Delivery!isDelivered(other.event)
      BY <1>1, <1>4, DeliveredSeen, OrderSame
    <2> QED BY <1>2, <2>5, <2>6 DEF Delivery!Next, Delivery!Deliver
  <1> QED BY <1>3, <1>4

LEMMA StepDelivers ==
    ASSUME OrdinaryReorgs, IInv, IInv', [Next]_vars
    PROVE  [Delivery!Next]_<<FinalLogs, Delivered>>
  <1>1. ASSUME UNCHANGED <<chain, rows>>
        PROVE  UNCHANGED <<FinalLogs, Delivered>>
    BY <1>1 DEF FinalLogs, OurLogs, LogsIn, LogsOf, Delivered
  <1>2. CASE UNCHANGED vars
    BY <1>1, <1>2 DEF vars
  <1>3. CASE Mine \/ Reorg
    BY <1>3, ChainDelivers
  <1>4. ASSUME NEW l \in Listeners, Poll(l) \/ PollFails(l)
        PROVE  [Delivery!Next]_<<FinalLogs, Delivered>>
    <2>1. CASE HandleCommit(l)
      BY <2>1, CommitDelivers
    <2>2. CASE ~HandleCommit(l)
      <3>1. UNCHANGED <<chain, rows>>
        BY <1>4, <2>2 DEF Poll, ReadHead, ReadCursor, CheckCursor, NextRange, GetLogs, HandleSkip,
                          HandleBegin, ReadEndHash, SaveCursor, PollFails
      <3> QED BY <1>1, <3>1
    <2> QED BY <2>1, <2>2
  <1> QED BY <1>2, <1>3, <1>4 DEF Next

\* Whatever fails, crashes or runs twice, the rows are our final events in the
\* chain's order, each once, and no event of a block that can still go.
THEOREM ImplementsEventDelivery == OrdinaryReorgs => (Spec => DeliverySpec)
  <1> SUFFICES ASSUME OrdinaryReorgs PROVE Spec => DeliverySpec
    OBVIOUS
  <1>1. IInv /\ IInv' /\ [Next]_vars => [Delivery!Next]_<<FinalLogs, Delivered>>
    BY StepDelivers
  <1> QED BY DeliveryInit, <1>1, Invariant, PTL DEF Spec, DeliverySpec, Delivery!Spec
-----------------------------------------------------------------------------
(* What holds however deep the reorganisations are.                        *)

\* An event has one row, and only events of ours have one.
RowsOnce ==
    /\ \A i, j \in DOMAIN rows : rows[i].event = rows[j].event => i = j
    /\ \A i \in DOMAIN rows : rows[i].event \in Ours

\* A transaction is begun for an event of ours.
ApplyingAt(l) == pc[l] = "apply" => \A log \in local[l].queue : AtLog(l, log) => log.event \in Ours

OnceInv == TypeInv /\ RowsOnce /\ \A l \in Listeners : ApplyingAt(l)

LEMMA OnceStep == OnceInv /\ [Next]_vars => OnceInv'
  <1> SUFFICES ASSUME OnceInv, [Next]_vars PROVE OnceInv'
    OBVIOUS
  <1>1. /\ TypeInv /\ TypeInv' /\ RowsOnce
        /\ pc \in [Listeners -> PCs] /\ local \in [Listeners -> Locals]
        /\ rows \in Seq([event : Events, block : Nat, expired : BOOLEAN])
    BY TypeStep DEF OnceInv, TypeInv, TypeOK, PCs, Locals
  <1>2. ASSUME NEW l \in Listeners, pc'[l] = pc[l], local'[l] = local[l]
        PROVE  ApplyingAt(l)'
    BY <1>2 DEF OnceInv, ApplyingAt, AtLog, Earlier
  <1>3. ASSUME UNCHANGED <<rows, pc, local>>
        PROVE  OnceInv'
    <2>1. RowsOnce'
      BY <1>1, <1>3 DEF RowsOnce
    <2> QED BY <1>1, <1>2, <1>3, <2>1 DEF OnceInv
  <1>4. ASSUME NEW l \in Listeners, Poll(l) \/ PollFails(l)
        PROVE  OnceInv'
    <2>1. \A m \in Listeners \ {l} : pc'[m] = pc[m] /\ local'[m] = local[m]
      BY <1>1, <1>4 DEF Poll, ReadHead, ReadCursor, CheckCursor, NextRange, GetLogs, HandleSkip,
                        HandleBegin, HandleCommit, ReadEndHash, SaveCursor, PollFails, Go, Pop
    <2>2. ApplyingAt(l)'
      <3>1. CASE HandleBegin(l)
        <4>1. local' = local /\ \E log : AtLog(l, log) /\ log.event \in Ours
          BY <3>1 DEF HandleBegin
        <4>2. \A log : AtLog(l, log)' <=> AtLog(l, log)
          BY <4>1 DEF AtLog
        <4> QED BY <1>1, <4>1, <4>2, OneHead DEF ApplyingAt
      <3>2. CASE HandleSkip(l)
        <4>1. pc'[l] = "handle"
          BY <3>2 DEF HandleSkip
        <4> QED BY <4>1 DEF ApplyingAt
      <3>3. CASE ~HandleBegin(l) /\ ~HandleSkip(l)
        <4>1. pc'[l] # "apply"
          BY <1>1, <1>4, <3>3 DEF Poll, ReadHead, ReadCursor, CheckCursor, NextRange, GetLogs,
                                  HandleCommit, ReadEndHash, SaveCursor, PollFails, Go
        <4> QED BY <4>1 DEF ApplyingAt
      <3> QED BY <3>1, <3>2, <3>3
    <2>3. RowsOnce'
      <3>1. CASE HandleCommit(l)
        <4>1. PICK log \in local[l].queue :
                 /\ AtLog(l, log) /\ pc[l] = "apply"
                 /\ rows' = IF seen(log.event) THEN rows ELSE Append(rows, RowOf(log))
          BY <3>1 DEF HandleCommit
        <4>2. log.event \in Ours /\ RowOf(log).event = log.event
          BY <4>1 DEF OnceInv, ApplyingAt, RowOf
        <4>3. CASE seen(log.event)
          BY <1>1, <4>1, <4>3 DEF RowsOnce
        <4>4. CASE ~seen(log.event)
          <5>1. /\ DOMAIN rows = 1 .. Len(rows) /\ DOMAIN rows' = 1 .. Len(rows) + 1
                /\ \A i \in 1 .. Len(rows) : rows'[i] = rows[i]
                /\ rows'[Len(rows) + 1].event = log.event /\ Len(rows) \in Nat
            BY <1>1, <4>1, <4>2, <4>4
          <5>2. \A i \in 1 .. Len(rows) : rows[i].event # log.event
            BY <4>4, <5>1 DEF seen
          <5>3. \A i \in 1 .. Len(rows) + 1 : i \in 1 .. Len(rows) \/ i = Len(rows) + 1
            BY <5>1
          <5> QED BY <1>1, <4>2, <5>1, <5>2, <5>3 DEF RowsOnce
        <4> QED BY <4>3, <4>4
      <3>2. CASE ~HandleCommit(l)
        <4>1. rows' = rows
          BY <1>4, <3>2 DEF Poll, ReadHead, ReadCursor, CheckCursor, NextRange, GetLogs, HandleSkip,
                            HandleBegin, ReadEndHash, SaveCursor, PollFails
        <4> QED BY <1>1, <4>1 DEF RowsOnce
      <3> QED BY <3>1, <3>2
    <2> QED BY <1>1, <1>2, <2>1, <2>2, <2>3 DEF OnceInv
  <1>5. CASE Mine \/ Reorg
    BY <1>3, <1>5 DEF Mine, Reorg
  <1>6. CASE UNCHANGED vars
    BY <1>3, <1>6 DEF vars
  <1> QED BY <1>4, <1>5, <1>6 DEF Next

\* "unique (tx_hash, log_index)": no event is ever applied twice and none of an
\* unknown ref is, whichever listeners race for it and whatever reorganisation,
\* also one deeper than the confirmations, brings it back in another block.
THEOREM NeverAppliedTwice == Spec => []RowsOnce
  <1>1. Init => OnceInv
    <2>1. Init => TypeInv
      BY IInit DEF IInv
    <2> QED BY <2>1 DEF Init, OnceInv, RowsOnce, ApplyingAt
  <1>2. OnceInv => RowsOnce
    BY DEF OnceInv
  <1> QED BY <1>1, <1>2, OnceStep, PTL DEF Spec
=============================================================================
