# Kimana backend: specifications, model checks and proofs

TLA+ modules for the core of the Kimana backend (`src/src`, Rust, axum, sqlx,
Postgres): the transfer state machine and its ledger, on-chain settlement from
end to end, transfer creation, the settlement listener, collections with their
partner webhooks, the settlement wallet, onboarding, sessions, the FX circuit
breaker and the money arithmetic. `PROJECT.json` lists the components, the runs, the line-by-line map from definitions to source, the
mutants each property is tested with, the hazards and the findings.

```
tlc -workers 2 -config SettlementFlow.cfg MCSettlementFlow    # any run: see the table below
tlapm SettlementFlowProofs.tla                                # the proofs of any *Proofs module
```

## 1. The system

One server process (several may run) with a Postgres pool of 10 connections.
Requests are axum handlers under a 15 s timeout that *drops* the handler's
future; background work is tokio tasks. All durable state is in Postgres tables;
in-memory state is only the FX breaker and its cache.

| component | state | operations | talks to |
|---|---|---|---|
| Transfer engine (`domain/transfers/engine.rs`, `state_machine.rs`, `repo.rs`) | `transfers.current_status`, `transfer_state_history` | `advance_once` and its two loops, `expire_transfer`, `reverse_transfer`, `resolve_screening_hold`, `apply_onchain` | ledger (in the same transaction), screening |
| Transfer creation (`domain/transfers/service.rs`, `domain/quote.rs`) | `transfers`, `quotes.consumed_by_transfer_id` | `create_transfer`, `schedule_simulated_progression` | pool, customer row lock, exposure sums, engine |
| Ledger (`domain/ledger.rs`) | `accounts`, `ledger_entries`, `customers.max_transfer_amount_minor` | `append_entry`, balances, exposure, limits | every money-moving component |
| Screening (`domain/screening.rs`) | none (the outcome is a history payload) | `screen` | engine |
| Settlement listener (`settlement/listener.rs`) | `settlement_cursor`, `settlement_events` | `run`, `run_once`, `handle` | chain RPC, engine |
| FX (`domain/fx.rs`, `domain/resilience.rs`) | breaker state and failure counter (two mutexes), rate cache, stored rates | `resolve`, `CircuitBreaker::call`, jitter, divergence alert | feed, quotes |
| Quotes (`domain/quote.rs`) | `quotes` | create, find, `try_consume` | FX, creation |
| Settlement wallet (`domain/settlement_wallet.rs`) | wallet accounts, purchases, conversions | buy, convert | ledger, FX |
| Collections (`domain/collections.rs`) | `collections`, `inbound_payments` | create, cancel, partner webhooks, `apply_inbound` | partner APIs, ledger |
| Onboarding and KYB (`domain/onboarding`) | applications, documents, decisions | drafts, submit, KYB decision, rescreening | KYB provider, limits |
| Sessions (`domain/auth`, `http/auth.rs`) | `users`, `customers`, `onboarding_applications`, `sessions` | register, log in, log out, authenticate | everything behind a session |
| Money arithmetic (`util.rs`, `settlement/units.rs`) | none | fixed-point rates, unit conversions | quotes, vault client |
| Vault client (`settlement/client.rs`) | none (the vault contract keeps it) | lock, settle, cancel and refund a ref | the vault, and by its events the engine |
| Partner clients, recipients, dashboard, audit, storage, tools | none, or rows nothing else decides from | calls, single-row CRUD, reads | |

### How they interact

`create_transfer` claims the quote and inserts the row in one transaction under
the customer row lock, then drives the new transfer inside the request up to
`AWAITING_FUNDS` and, with the simulator on, spawns a task that drives it on.
Each engine transition locks the transfer row and writes the history row, the
status column and the ledger entries in one transaction. Three other parties
move the same rows: the compliance decision, ops (expire, reverse), and the
settlement listener, whose `apply_onchain` commits with the `settlement_events`
row of the log. The operator's vault calls are not tied to that: the vault knows
refs and not statuses, so only the order its client documents keeps the chain and
the books together. Nothing resumes a driver that is lost.

### What is hard

* **Interleavings.** Loops that decide from a local status while others move the
  row; a balance read without the account lock; two servers polling one cursor;
  breaker state split over two mutexes; several callers in the half-open state.
* **Failure.** The 15 s timeout may drop a handler at any await, between its
  transactions or inside one; crashes lose drivers; polls fail half way through a
  block range; requests are dropped in the middle of a trial call.
* **Ordering.** Vault events in any status; blocks replaced between two RPC
  calls; retries of a key while the first call is still in its transaction; two
  registrations that only a unique index keeps apart.
* **Resources.** A transaction that needs a second pool connection; exposure
  ceilings kept by a read-then-insert.

### What makes each part correct

* Engine: money is in one place, moves only forward or back by a refund, and
  agrees with the status; the trail is a path of the transition table; a held
  transfer only leaves by an analyst's decision; closed transfers stay closed;
  a driven transfer finishes.
* Settlement: what the vault did to a ref is what the books say of its transfer,
  and no event is left for ops unless the operator left the order.
* Creation: as if each create were one atomic step (one transfer per key, one
  per quote, both ceilings); a retry never gets a refusal for what its own first
  call used up.
* Listener: final events delivered in chain order, exactly once, none lost.
* Breaker: keeps tripping while the feed is down, recovers once it is up, and a
  rate that the feed gave is kept for every other caller.
* Collections: money a partner confirmed is credited exactly once, and its webhook
  acknowledged only then; a request is paid by one payment meant for it, and by no
  deposit that came up after it expired; a cancelled request has no receive that still takes money.
* Wallet: trades are atomic, covered by the balance and once per key; running
  balances add up whoever posts; every call is answered.
* Onboarding: what the customer is shown is what was decided; the transfer
  ceiling is the one of the rating shown; a review ends; document rows have files.
* Sessions: an address has one whole account, a token is served as the account
  whose credentials were presented, and every answer is true of the tables.
* Arithmetic: rounding never creates value; the vault recomputes what was quoted.

## 2. Modules

| module | role |
|---|---|
| `TransferStates` | the status enum and transition table, as constant operators |
| `MoneyFlow` | abstract: where a transfer's money is and how it may move |
| `TransferEngine` | the engine and its callers; implements `MoneyFlow` |
| `SettlementFlow` | engine, operator, vault and delivery of events together; implements `TransferEngine` |
| `TransferBook` | abstract: atomic transfer creation |
| `TransferCreation` | `create_transfer` await by await; implements `TransferBook` |
| `EventDelivery` | abstract: exactly-once, in-order delivery of final events |
| `SettlementListener` | `run_once`/`handle` await by await; implements `EventDelivery` |
| `InboundLedger` | abstract: what collections promise about inbound money |
| `Collections` | requests, cancellation and webhooks await by await; implements `InboundLedger` |
| `WalletBook` | abstract: atomic, covered trades, once per key |
| `SettlementWallet` | buy and convert statement by statement; implements `WalletBook` |
| `Onboarding` | one application: saves, submits, decision, rescreening, documents |
| `Sessions` | register, login, logout and the `Session` extractor, statement by statement |
| `RateMath` | rates, the two sides of a quote, vault units, as operators |
| `FxResilience` | breaker, cache and `resolve`, mutex by mutex |
| `MC…` | instances for TLC |
| `…Proofs` | TLAPS proofs about the module of that name: `SettlementFlow` (with the `TransferEngine` it extends), `SettlementListener`, `TransferCreation`, `Collections`, `SettlementWallet` (with the `RateMath` it extends), `Onboarding`, `Sessions`, `FxResilience` |

### TransferEngine

One transfer is a row: `status` (the column), `history` (the trail, with the
screening note the engine reads back) and `posted` (how many ledger entries of
each kind). `driver` and `seen` are the program counter and local status of the
two loops; `funding` marks a transfer whose `advance_once` has passed the balance
check and not committed. Every engine function is one action, because it is one
transaction that starts with `select ... for update` on the row. The exception is
the `AWAITING_FUNDS` step: `account_balance_minor` does not lock the account, so
`AdvanceFundsChecked` and `AdvanceFunded` are two steps, with the row locked
between them and other transfers' transactions free to run. `DriverLost` is the
timeout, a database error or a crash. Amounts, accounts and opening balances are
parameters; balances are sums over entries as in the code's SQL.

Abstracted: history payloads down to hold/cleared/none, the references and
timestamps of a row, the simulator's delays (steps may be arbitrarily late),
`PARTNER` and `FX` bookkeeping accounts, which mirror the customer entries.

### SettlementFlow

It extends `TransferEngine` and adds the two ends of a ref: `log`, its final vault
events in chain order, and `rows`, the `settlement_events` of those delivered. The
vault's state is its log, because a ref is locked once, then settled or cancelled,
then returned, then refunded (`VaultAccepts`). `lock_quote`, `settle`,
`cancel_quote` and `refund` are the operator's calls in `settlement/client.rs`; for
the transfers in `Ordered` the operator keeps to what their comments and
`listener.rs` ask for (`InOrder`), for the others it may call at any time.
`returnSettlement` is the partner's. `handle` is the listener's transaction for
the next event: its row and `apply_onchain` commit together, and an event that
does not fit the status is recorded as ignored. Delivery is what `EventDelivery`
promises (in order, once, at any later time), which `SettlementListener`
implements. With `onchain` off no ref is locked and the module is the engine
driven by the simulator, so the flow's run covers both. `EngineSpec` says that the
flow does nothing to a transfer that the engine's specification does not allow.

### TransferCreation

`pc` is the await a call is at; `locked` is the customer row lock, `limits` the
ceilings read under it, `consumed` the quote's column. A call holds a pool
connection from `Begin` to its end; `Recheck` needs another (`service.rs:114`
uses the pool and not the transaction). The engine appears as the moves of a
status between counted and not counted (`COMPLETED` can be reopened by a
reversal). `TransferBook` has the same statuses without any of the locals; its
`Create` is one step with all the guards.

### SettlementListener

`chain` is external: blocks of logs with a fork number in place of the hash,
mined and replaced between any two RPC calls, under the vault's own rules: a log
is emitted once, a cancel after its lock (`LawfulLogs`), and a transfer's quote is
locked once (`VaultAssumption`). A log is an event at its place, a block and an
index in it, so a stretch of the chain is a set of logs and their order is that of
their places (`LogsIn`, `Earlier`); the loop over a range takes the first log it has
left (`AtLog`). Each listener's `pc` and `local` follow `run_once`; a range and a log
are separate steps because every RPC call and every transaction is an await. The
block timestamp is its number. What an event does to a transfer is `apply_onchain` of
`TransferEngine`; here it is the `settlement_events` row committed with it.

`EventDelivery` has only the final logs of our events, which grow behind those
there are, and the events delivered: always the earliest that was not.

### Collections

One customer. A `collections` row is named by the create call that inserted it
(`status`, `expired`, its key), a Yellow Card receive by the call that submitted
it, so two calls with one key may open two receives. `inbound` and `credits` are
the `inbound_payments` rows and the ledger entries that point at them. A cancel
holds the row lock (`locked`) across its call to the partner; a webhook's
transaction takes the lock and ends in one step, because nothing but the database
is awaited in it. `local.late` is the expiry as the transaction's `now()` saw it,
which is the time it began and not the time it got the lock; so a deposit that began
in time may settle a request that expired while it waited. `InboundLedger` says just
that: a deposit is admitted before the request it quotes expires or it does not pay
it, and `InTime` is the deposits admitted and not yet applied. `Dropped` is the
timeout, an error or a crash at any await: the transaction rolls back and what
the partner did stays. Partners deliver an event about a receive or a deposit at
any time, any number of times. Yellow Card may complete a receive it has closed
(a transfer on its way); a payer pays only into accounts the customer was given.
So a complete receive has its row, and of the two 404 answers (`NotFound`) only the
one for a deposit to an unlinked account is reached.
Signature checks, event kinds that are ignored, and amounts are left out: an
amount other than the requested one settles the request all the same.

### SettlementWallet

A call's `pc` is a statement of `execute_trade`; `owner` holds the account rows
it has locked, `creator` the account rows its open transaction inserted, and a
call between `InsertTrade` and its commit is one whose trade row others wait
for. Nothing a transaction wrote is in `exists`, `entries` and `traded` before
`PostUsdcAndCommit`, so dropping a call is forgetting its locals. A call may wait
for a row, an account insert or a key; `DeadlockVictim` is Postgres' detection.
`Post` is a posting of a transfer or an inbound payment to the local account.
Amounts are small integers through the conversions of `RateMath`.

### Onboarding

`application` is the row with its principals, checks and the customer's ceiling.
A submit loads the row, then the principals (two statements), is refused or opens
the review, and decides on what it loaded; the rescreening job is the same steps
for one of its customers, from the moment it lists the approved rows. Each
transaction is one step: it updates one row and nothing is read in it. A second
decision that overlaps the first fails on the unique check keys and is part of
`Dropped`. `FailedChecks`, `assess_risk_rating` and `transaction_limit_minor` are
`kyb.rs` on the markers it looks for. Documents are those of one type, with the
file written before the row and deleted after it. Retrying an upload writes the
status every row already has, and field validation decides nothing later.

### Sessions

A call is named once, whether it registers or logs in, and its session row too:
the token in the cookie. `users`, `customers`, `applications` and `sessions` are
what is committed; the rows of an open registration are its `pc`, and the entries
it holds in the two unique indexes are `HoldsEmail` and `HoldsNumber`, which
another insert of the same address or number waits for. `Spelling` and `Lower`
keep apart the address as typed and as compared. `Cut` is the timeout, an error
or a crash at any await, also between a commit and its answer. `Session(c)` is the
extractor: the account that a request with the token of `c` is served as.
Passwords are compared as typed (hashing is a library), and the wording rules of
a registration and the cookie's attributes are left out.

### RateMath

Operators on integers with the powers of ten and two as parameters, so that TLC
can run `SettlementWallet` on small ones. `as_i64` is the wrapping cast, and
division truncates. The rounding of an `f64` rate to a scaled integer happens
before any of it and is left out.

### FxResilience

The breaker's two mutexes and the cache's are separate steps where the code
releases one before it takes the other (`FetchOk`, `Close`, `Store`) and one step
where it holds both (`FetchFails`). The feed is the database, and each statement is
an await at which it may fail or the request may be dropped: the select and the
update of `current_rate`, and after a live rate those of `jitter_secondary` (none but
the select for a pair outside `Seconded`) and `check_divergence`, whose alert is a
choice, because rates are not told apart. An error there fails the request
(`LiveRateLost`). With jitter off, as in tests, there are fewer statements to fail at.
Instants are ages, capped where no comparison tells them apart. `given` is a history
variable: it is set when the feed answers, and the cache two steps later by the
caller it answered.

## 3. Runs

| run | shows | bounds | states |
|---|---|---|---|
| `settlement_flow` | `FlowTypeOK`, the engine's `MoneyFollowsStatus`, `HistoryIsPath`, `HoldRespected`, `ParkedKnown`, `ClosedIsFinal` and `MoneyFlowSpec` with every vault event, ops call and loss in every order, `OrderedNeverIgnored`, `BooksFollowChain`, and `CreatedCompletes` and `SettledIsSeen` under fairness | two transfers in opposite directions (each one's receive account is the other's send account), one of them held, on the chain and on the simulator; the operator keeps to the order for one of them | 397,015 |
| `engine_overdraft` | finding: `NoOverdraft` violated | two transfers from one account that covers either and not both | |
| `listener_delivery` | `TypeOK`, `CursorBlockProcessed`, `CancelClassified`, `OrdinaryReorgSurvived`, `DeliverySpec`, and `FinalEventsDelivered` under fairness | two listeners, 3 blocks of up to 2 logs, ranges of 2, confirmation depth 1, one reorganisation, one failure | 461,944 |
| `listener_deep_reorg` | finding: `CursorBlockProcessed` violated by a reorganisation of depth 2 | one listener | |
| `create_atomic` | `TypeOK`, `CreationIsAtomic`, `ReplayNeverRefused` | four calls of one customer, pool of 2, two ceilings, a clock of one tick | 1,690,000 |
| `create_pool_deadlock` | finding: `PoolNeverDeadlocked` violated | two calls, pool of 2 | |
| `fx_recovery` | `TypeOK`, `RecoversOnceFeedIsUp`, `TripsWhileFeedDown`, `NoOutageWhileFresh` | two callers, two quoted pairs (one at both providers) and an unknown one, threshold 2, reset 2, cache age 1, one dropped request | 720,992 |
| `collections_inbound` | `TypeOK`, `CancelledIsClosed`, `AckedIsCredited`, `InboundLedgerSpec` | an NGN request and a replay of its key, a USD request quoted by both of two deposits, one cancel, two webhook handlers | 1,025,645 |
| `wallet_trades` | `TypeOK`, `RunningBalances`, `WalletBookSpec`, and `EveryCallAnswered` under fairness | a purchase, its replay, a rival purchase, a conversion, one transfer's debit, two rates, scale 2 | 68,778 |
| `onboarding_review` | `TypeOK`, `StatusMatchesDecision`, `LimitMatchesRating`, `DocumentHasFile`, and `ReviewEnds` under fairness | two submits, a rescreening, three businesses (one per rating, one fails a check), principals that pass or fail, two uploads and a removal | 1,040,472 |
| `onboarding_rescreen` | finding: `RescreenKeepsStatus` violated | the same without documents | |
| `sessions` | `TypeOK`, `AccountsWhole`, `AnswersTrue` | three registrations, two of them of one address in two spellings, a login to it, three account numbers, sessions of 1 on a clock to 2 | 294,744 |

**Why the bounds are enough.** Transfers interact only through balances and the
driver never looks at another transfer, so two transfers show every pairwise
race; the proofs cover the rest. Of the two in the flow one has an operator who
keeps to the order and one has an operator who does not, so each ordered claim is
checked beside arbitrary vault calls on the other transfer, and the vault's
rules bound a ref to four events. Two listeners give each race on the cursor and
on `seen`; three blocks give two confirmed ones under an unconfirmed head, read as
one range of two (so a range may fail in its middle) or as two ranges of one,
as the head grows. Four creates are a retry, a rival for the quote and a call that
exceeds the ceiling next to the first: each pair of guards that can race. A
threshold of two separates "first failure" from "tripping failure", and two
callers are enough for any answer to arrive out of order; ages up to one past the
cache's limit tell young, old and absent apart. One NGN request with a
replay of its key shows the races of creation, of a receive without a row and of a
payment against a cancel; one USD request with two deposits the races for
settlement; two handlers make any two deliveries concurrent.
The wallet's calls are a retry, a rival for one balance and one that locks the
accounts in the other order, with the USDC account still to be created. Two
registrations of one address make each index wait and each lookup come too early,
the third competes for the account number only, and a clock of two ends a session
while another call of the same account is still running. Two
submits and a rescreening are the three writers of an application; the customer's
saves have no bound.

**Deadlock.** The flow, overdraft, creation, wallet, sessions and
deep-reorganisation runs stop by design (every transfer closed, every call answered, the listener
stopped), so they run without the deadlock check; that wallet calls do not wait
for one another for ever is `EveryCallAnswered`. The other runs keep it.

**Fairness.** `Drive(t)` (engine, in the flow), `handle(t)` (the flow's
delivery, which is `FinalEventsDelivered` of the listener), `Poll(l)` (listener), `Step(c)` and `Tick`
(FX), `execute_trade(c) \/ DeadlockVictim(c)` (wallet) and `Work(c)` of a call
that has begun (onboarding) are weakly fair, each per process: tokio polls a spawned task and a request's
future whenever it is ready, the locks they wait for are held by transactions of
bounded length, and the poll loop sleeps and runs again. Losses, failures,
reorganisations, ops calls, the operator, the partner and chain growth have no
fairness. `CreatedCompletes`
is claimed only for transfers whose driver is not lost, because the code has no
resume sweep, and `ReviewEnds` only unless a submit is dropped;
`FinalEventsDelivered` tolerates failed polls. Strong fairness is
never assumed.

## 4. Findings

Each is a run TLC must violate, and quotes the statement it contradicts in
`PROJECT.json`.

* `engine_overdraft`: two transfers from one account pass the unlocked balance
  check together and both debit it.
* `listener_deep_reorg`: the range's end hash is read after its logs, so a deep
  reorganisation in between goes unnoticed and its events are lost.
* `create_pool_deadlock`: a create inside its transaction waits for a second
  pool connection.
* `onboarding_rescreen`: the rescreening writes back the status it listed, so a
  review that was opened, or a rejection that was made, since then becomes an
  approval.

Met while modelling and visible in the modules, without a run of their own:

* a held transfer that is cleared after its simulator task ended is never driven
  on (`transfers/service.rs:248`);
* the create request's loop may run the funding step when a hold is cleared
  between two of its iterations (`engine.rs:305`);
* `reverse_transfer` succeeds from `SETTLED` and `PAYING_OUT` although its comment
  says "Only valid from COMPLETED" (`engine.rs:352`);
* a quote's expiry is checked before the wait for the customer lock and never
  again (`transfers/service.rs:95`);
* every caller of a half-open breaker is let through, where the comment says a
  single trial is (`resilience.rs:75`); a late success closes an open breaker
  before its cooldown (`resilience.rs:86`); an unknown pair counts as a success
  (`fx.rs:335`);
* a caller that was given a live rate fails with the divergence check behind it, for
  which it goes to the same database without a fallback (`fx.rs:384-394`), although "a
  lone transient failure still gets served" (`fx.rs:265`);
* a removal deletes a document by its row, so it takes a file along that was uploaded
  in place of the one it is about (`onboarding/service.rs:236`);
* a wallet retry that runs beside its first call may be told "Insufficient
  balance" where the API promises the existing trade (`settlement_wallet.rs:272`);
* of two submits that overlap, one may resolve with `in_review`, although "the
  frontend does not poll", and the one with older data may decide last
  (`onboarding/service.rs:359`); a submit dropped between its transactions leaves
  an application that can never be submitted again (`:263`);
* the loser of two registrations of one address, or of one account number, is
  answered 500 by the unique index, where the API documents 409
  (`domain/auth/service.rs:34`, `domain/auth/routes.rs:71`); `validate_register`
  trims the address it checks, and the untrimmed one is stored;
* the repository's README still says "no login yet" (`README.md:289`);
* `config.rs:155` reports on-chain settlement with only the RPC URL set, while the
  listener also needs the vault's address: transfers then park at `SETTLING` with
  nobody to settle them;
* a quote entered on the receive side floors its send amount, so the vault's
  formula recomputes less than was promised (`quote.rs:148`).

## 5. Proofs

### The engine

The first part of `SettlementFlowProofs` proves, for every set of transfers, all
amounts, accounts and opening balances and every configuration:

| theorem | statement |
|---|---|
| `EngineInvariant` | `Spec => []IInv` |
| `TypeCorrect` | `Spec => []TypeOK` |
| `LedgerAgrees` | `Spec => []MoneyFollowsStatus` |
| `TrailIsPath` | `Spec => []HistoryIsPath` |
| `HoldsAreRespected` | `Spec => []HoldRespected` |
| `ClosedStaysClosed` | `Spec => ClosedIsFinal` |
| `EngineImplementsMoneyFlow` | `Spec => MoneyFlowSpec` |
| `ParkingIsKnown` | `Spec => []ParkedKnown` |

**Assumptions.** `AmountsAssumption`, `CurrenciesDiffer`, `ConfigAssumption`
(`TransferEngine`), which TLC evaluates on every engine run.

**Argument.** `MoneyFollowsStatus` is not inductive: it compares sums of entries,
so a step from a status cannot tell which entries led there. `IInv` replaces the
sums by the *exact* entries per status (`LedgerAt`): `REVERSING` has two possible
ledgers, paid out or unconverted, and `REJECTED` is split by the last but one
history row. `HoldRespected` needs that a held transfer in `SCREENED` carries the
hold in its *latest* row (`HoldAt`), `HistoryIsPath` that the trail ends in the
status column (`TrailAt`), and the second half of the funding transaction that a
transfer marked `funding` still is in `AWAITING_FUNDS` (`FundingInv`), which
holds because every other action that moves a row waits for its lock.

The facts about one transfer are predicates of a status, a trail and a ledger, so
a lemma about one transition (`LedgerStep`, `TrailStep`, `HoldStep`) applies twice
to the operations that make two in one transaction (`ApplyBothInv`). One lemma
per action lifts them to `IInv`; `NextInv` collects them. The action property and
the refinement use a summary of what any step can do to a transfer (`Changes`,
`StepChanges`): nothing, a creation, one transition or two. `PlaceStep` and
`PlacePair` then map one transition and two to at most one `Move` of `MoneyFlow`.

`ParkedKnown` is about the drivers, so it needs a second invariant, `DriverInv`. A
loop ends when a step returns the status it already had, and that must not happen in
the middle of the way: the table only leads to a higher `Rank`, a driver's local
status is never ahead of the row (`DriverAt`), so a transition it makes is always
news to it (`DriveDriver`). The desks and the chain move rows past the driver
(`OutsideDriver`), and `DriverAt` records what they may do to a request's loop: only
an analyst's clearance brings it to `AWAITING_FUNDS`. Without the simulator that
loop then runs the funding step and leaves the transfer `FUNDED`, a parking place of
its own in `ParkedKnown`.

### Settlement

The second part of `SettlementFlowProofs` proves, for any set of transfers of which
any may have an operator who keeps to the order:

| theorem | statement |
|---|---|
| `FlowTypeCorrect` | `FlowSpec => []FlowTypeOK` |
| `FlowImplementsEngine` | `FlowSpec => EngineSpec`, so every theorem of the engine holds of the flow |
| `OrderedIsNeverIgnored` | `FlowSpec => []OrderedNeverIgnored` |
| `BooksAgreeWithChain` | `FlowSpec => []BooksFollowChain` |

**Assumptions.** Those of the engine and `OrderedAssumption`.

**Argument.** `BooksFollowChain` speaks only of the moments when everything is
delivered. `FlowInv` says where a transfer can be at every moment: `LogAt` lists the
logs that the vault's rules allow, and `BookAt` gives the statuses for each log and
each number of delivered events. The two cases that carry it: between the settling
event and its delivery the transfer stays in `FUNDED` or `SETTLING`, because the
engine leaves them only for the chain, and a rejected transfer whose quote was
cancelled was rejected before funding, which the last but one row of its trail
shows. An event that fits the status is applied, so none is recorded as ignored.

### The listener

`SettlementListenerProofs` proves, for any number of listeners, events, blocks,
logs to a block, failures and reorganisations, with `OrdinaryReorgs == ReorgDepth <=
Confirmations` as a hypothesis where it is written:

| theorem | statement |
|---|---|
| `TypeCorrect` | `Spec => []TypeOK` |
| `ReorgsAreSurvived` | `OrdinaryReorgs => (Spec => []OrdinaryReorgSurvived)` |
| `CursorIsProcessed` | `OrdinaryReorgs => (Spec => []CursorBlockProcessed)` |
| `CancelsAreClassified` | `OrdinaryReorgs => (Spec => []CancelClassified)` |
| `ImplementsEventDelivery` | `OrdinaryReorgs => (Spec => DeliverySpec)` |
| `NeverAppliedTwice` | `Spec => []RowsOnce`: an event has one row, and only one of ours has |

**Assumptions.** `ListenerAssumption`, `VaultAssumption`, and the hypothesis, which is
what the confirmation depth is configured for: without it `listener_deep_reorg`
violates `CursorBlockProcessed`.

**Argument.** An ordinary step of the chain is `Stable`: it leaves the blocks up to
`Depth`, the last final one, as they are, so the logs of every stretch up to there
stay (`LogsStay`) and new final logs come behind the old ones (`FinalGrows`).
`ListenerAt` is what a listener knows across its awaits: all of ours before its
range is recorded, of its range all that its queue has lost, and its range ends at a
final block. `CursorAt` says the same of the cursor, which two listeners may move
back and on. `RowsInv` makes the rows a beginning of the final logs: a row is a
final log of ours, and all earlier ones have theirs. So the log a listener is at is
the earliest that has no row or already has one (`HeadFacts`), which is the step of
`EventDelivery`; and a cancel's lock, which the chain has before it, has a row by then
(`ExpiryFacts`), whoever committed it. `RowsOnce` needs none of this: a listener in a
transaction is at an event of ours (`ApplyingAt`), and the row decides, so a deep
reorganisation can lose an event but not apply one twice.

### Creation

| theorem (`TransferCreationProofs`) | statement |
|---|---|
| `TypeCorrect` | `Spec => []TypeOK` |
| `ReplayIsServed` | `Spec => ReplayNeverRefused` |
| `CreatesAreAtomic` | `Spec => CreationIsAtomic` |

**Assumptions.** `CreationAssumption`: each request names its customer, key and
quote, limits and amounts are natural numbers, the calls are finitely many.

**Argument.** Between `CheckLimits` and `Commit` other statements run, so the
limits must still hold at the insert. `CallAt` says that they do: past the lock the
call has its customer's row, nobody else can add an exposure to it and the ceiling
cannot change; the engine may only close transfers of that customer, or reopen one
that a reversal has counted out, which `OpenBeside` leaves aside. A sum can then
only have become smaller (`TotalMonotone`). The sums are the folds of the
community modules, which are recursive functions on sets: that they exist, agree
and take any element first is proved from a smallest set for which they would not,
with the theorem that the strict subsets of finite sets are well founded.

### Collections

| theorem (`CollectionsProofs`) | statement |
|---|---|
| `TypeCorrect` | `Spec => []TypeOK` |
| `CancelCloses` | `Spec => []CancelledIsClosed` |
| `AckMeansCredit` | `Spec => []AckedIsCredited` |
| `ImplementsInboundLedger` | `Spec => InboundLedgerSpec` |

**Assumptions.** `CollectionsAssumption`: requests, cancels, webhooks and deposits
are different things.

**Argument.** `CancelAt` carries the cancel's lock over its call to the partner: the
row stays pending, and at the commit the receive is closed. `CreateAt` carries a
create from its receive to its row (a receive that was completed has a row, because
the customer gets no account to pay into before). `PaymentAt` says that a payment
row has exactly one credit and that a receive's row points at its own request. For
the refinement, a webhook's transaction that begins before the expiry admits its
deposit (`FindAdmits`), one that ends without a credit puts it off (`EndPutsOff`), and
nothing else moves `InTime`, so the deposit that settles a request is an admitted one.

### Wallet

| theorem (`SettlementWalletProofs`) | statement |
|---|---|
| `TypeCorrect` | `Spec => []TypeOK` |
| `RunningBalancesAddUp` | `Spec => []RunningBalances` |
| `ImplementsWalletBook` | `Spec => WalletBookSpec` |

**Assumptions.** `WalletAssumption` and `RateAssumption`.

**Argument.** A call reads two balances and writes entries three statements later.
`HeldAt` says that what it read still holds, because the row it was read under is
still locked by it: from `LockDebit` on the debited account covers the trade, and
from `PostLocal` on the running balance it computed is the local account's. `KeysInv`
says that a key is traded once or pending in one transaction. `Good` ties the running
balance of the last entry to the sum of all, which makes `RunningBalances`
inductive. The rounding in `Buy` and `Convert` is `ApplyBounds` and `InvertBounds` of
the arithmetic. The sum over a sequence of entries is a recursive function; its
facts (`RunsExist`, `RunsAgree`, `AppendBalance`) come from a smallest index, as
those of creation do from a smallest set.

### Onboarding and sessions

| theorem | statement |
|---|---|
| `TypeCorrect` (`OnboardingProofs`, `SessionsProofs`) | `Spec => []TypeOK` |
| `DecisionIsTold` (`OnboardingProofs`) | `Spec => []StatusMatchesDecision` |
| `CeilingIsRatings` | `Spec => []LimitMatchesRating` |
| `DocumentKeepsFile` | `Spec => []DocumentHasFile` |
| `AccountsAreWhole` (`SessionsProofs`) | `Spec => []AccountsWhole` |
| `AnswersAreTrue` | `Spec => AnswersTrue` |

**Assumptions.** `OnboardingAssumption`, `SessionsAssumption`: what the sets of
calls, uploads and removals have in common, and that `None` is none of the values.

**Argument.** For the decision the invariant is what a call has loaded: a
rescreening works on an application that was approved when it loaded it, and a
decision has business details. For documents, `RemoveAt` says that a file which a
removal is about to delete was named by the deleted row only, because a row's id and
key are replaced together and an upload's key is never used again. For sessions,
`CallAt` and `Apart` are what the unique indexes give: a registration that holds an
entry excludes every committed account and every other open registration, and a
session belongs to an account with the presented credentials (`Presented`). That an
insertion keeps the numbers and the customers equally many is a fact about
cardinalities.

### The arithmetic

The first part of `SettlementWalletProofs` proves, for all amounts and rates and
every value of the parameters that satisfies `RateAssumption` (TLC evaluates it on `wallet_trades`):

| theorem | statement |
|---|---|
| `BuyThenConvertNeverGains`, `ConvertThenBuyNeverGains` | a trade undone at its rate returns at most what was paid, wrapped casts included |
| `VaultRecomputesQuote` | the vault's formula gives the receive amount of a send-side quote |
| `ReceiveSideNeverAbove` | and at most that of a receive-side quote |
| `CentsRoundTrip` | cents and base units convert without loss, or with an error |

**Argument.** Floor division is the largest quotient that fits and the only one
(`DivBounds`, `DivUnique`); a cast of a non-negative number never makes it larger
(`CastBounds`), so both conversions stay below the exact value (`ApplyBounds`,
`InvertBounds`), and their composition below the start. The vault's formula has
the factor `USDC_PER_CENT * CENTS` on both sides of a division (`DivCancel`).

### The breaker

| theorem (`FxResilienceProofs`) | statement |
|---|---|
| `TypeCorrect` | `Spec => []TypeOK` |
| `NoOutage` | `Spec => NoOutageWhileFresh` |

**Assumptions.** `ResilienceAssumption`: threshold and cooldown are not zero.

**Argument.** `NoOutageWhileFresh` compares what a caller is told with what the feed
gave, to whichever caller. `CacheIsFresh` links the two: the cached rate of a pair is
no older than the feed's last answer for it, or a caller with that answer is between
the breaker and the cache. Nothing ends a caller there, because no statement is
awaited (`StepFresh`); what may end it later, a lost connection or an error of the
divergence check, finds the rate cached. Ages grow together (`OlderKeepsOrder`).

**Only model-checked.** Every liveness property, since the prover has no support for
liveness under fairness: `CreatedCompletes`, `SettledIsSeen`, `FinalEventsDelivered`,
`RecoversOnceFeedIsUp`, `TripsWhileFeedDown`, `EveryCallAnswered` and `ReviewEnds`. All
other properties of the passing runs are theorems.

## 6. Not modelled

* Routing, parsing, error bodies, wording, audit rows, metrics: no decision is
  read from them.
* Recipients, dashboard, storage, one-shot tools: single-statement CRUD or reads.
* The partner clients: HTTP calls without state of their own, whose answers and
  losses are steps of `Collections`.
* Of the vault client, signing, receipts and the mapping of reverts to errors; the
  calls themselves are steps of `SettlementFlow`, and the chain they are mined on
  is the external one of `SettlementListener`.
* The size of FX jitter, whether two rates diverge, and the alert row: nothing is
  decided from them.
* The request for a quote: an insert that nothing else races.
* Passwords' hashing, and the rules for the wording of a registration.

## 7. Plan

**Done**: the engine, settlement from end to end, creation, the listener, the
breaker, collections, the wallet, onboarding, sessions and the arithmetic, with
proofs of the safety of each of them.

**Left**

1. The effect of `Onboarding`'s ceilings and `TransferEngine`'s statuses on
   `TransferCreation`, which has both as environment steps.
2. That `EventDelivery`, seen by one ref, is the `handle` of `SettlementFlow`: the flow
   delivers each ref's events on its own, which allows more.
