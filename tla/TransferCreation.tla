-------------------------- MODULE TransferCreation ---------------------------
(***************************************************************************)
(* create_transfer (transfers/service.rs): concurrent POST /transfers      *)
(* calls, each a sequence of awaits on the connection pool, the customer   *)
(* row lock and the tables; the engine closing and reopening transfers     *)
(* meanwhile; KYB changing a customer's ceiling; and the request timeout.  *)
(*                                                                         *)
(* A transfer row is named by the call that inserted it. A transaction     *)
(* holds one pool connection from begin to its end, every other query one  *)
(* for its own step only.                                                  *)
(***************************************************************************)
EXTENDS Integers, FiniteSets, FiniteSetsExt

CONSTANTS
    Requests, RequestOf, QuoteOf, MaxAggregate, Customers, Limits, NoOne,
    PoolSize,       \* PgPoolOptions::max_connections
    MaxTime         \* bound on the clock

Quotes == DOMAIN QuoteOf

ASSUME CreationAssumption ==
    /\ NoOne \notin Requests
    /\ RequestOf \in [Requests -> [customer : Customers, key : {RequestOf[r].key : r \in Requests},
                                   quote : Quotes]]
    /\ MaxAggregate \in Nat /\ MaxTime \in Nat /\ PoolSize \in Nat \ {0}
    /\ Limits \subseteq Nat
    /\ \A q \in Quotes : QuoteOf[q].amount \in Nat
    /\ IsFiniteSet(Requests)

VARIABLES
    status,     \* transfers.current_status of the row a call inserted
    limit,      \* customers.max_transfer_amount_minor, or the default
    consumed,   \* quotes.consumed_by_transfer_id
    locked,     \* who holds the customers row `for update`
    pc,         \* where each call is in create_transfer
    limits,     \* CustomerLimits each call read under the lock
    reply,      \* what each call answered
    clock

vars == <<status, limit, consumed, locked, pc, limits, reply, clock>>
-----------------------------------------------------------------------------
customer(r) == RequestOf[r].customer
quote(r) == RequestOf[r].quote
amount(r) == QuoteOf[quote(r)].amount

\* find_by_idempotency_key: a committed transfer with r's key exists.
key_exists(r) ==
    \E o \in Requests :
        /\ status[o] # "none"
        /\ customer(o) = customer(r)
        /\ RequestOf[o].key = RequestOf[r].key

\* Statuses outside TERMINAL_STATUSES.
Counted == {"open", "reversing"}

\* customer_open_exposure_minor, in the currency of r's quote.
customer_open_exposure(r) ==
    MapThenSumSet(amount,
        {o \in Requests :
            /\ status[o] \in Counted
            /\ customer(o) = customer(r)
            /\ QuoteOf[quote(o)].currency = QuoteOf[quote(r)].currency})

\* A connection of the pool is free.
InTransaction == {"lock", "recheck", "check", "insert"}
Free == Cardinality({r \in Requests : pc[r] \in InTransaction}) < PoolSize

Go(r, to) == pc' = [pc EXCEPT ![r] = to]

\* The call ends; its transaction, if any, commits or rolls back.
Answer(r, a) ==
    /\ Go(r, "done")
    /\ reply' = [reply EXCEPT ![r] = a]
    /\ locked' = [c \in Customers |-> IF locked[c] = r THEN NoOne ELSE locked[c]]

-----------------------------------------------------------------------------
\* The first find_by_idempotency_key.
FindKey(r) ==
    /\ pc[r] = "start"
    /\ Free
    /\ IF key_exists(r) THEN Answer(r, "existing")
       ELSE Go(r, "quote") /\ UNCHANGED <<reply, locked>>
    /\ UNCHANGED <<status, limit, consumed, limits, clock>>

\* quote::find_by_id: the caller's own quote, not yet expired.
ReadQuote(r) ==
    /\ pc[r] = "quote"
    /\ Free
    /\ IF QuoteOf[quote(r)].customer # customer(r) THEN Answer(r, "not_found")
       ELSE IF QuoteOf[quote(r)].expires <= clock THEN Answer(r, "rate_expired")
       ELSE Go(r, "begin") /\ UNCHANGED <<reply, locked>>
    /\ UNCHANGED <<status, limit, consumed, limits, clock>>

\* pool.begin: a connection is held until the transaction ends.
Begin(r) ==
    /\ pc[r] = "begin"
    /\ Free
    /\ Go(r, "lock")
    /\ UNCHANGED <<status, limit, consumed, locked, limits, reply, clock>>

\* Mutant of Lock: the limits are read without `for update`.
LockWithoutForUpdate(r) ==
    /\ pc[r] = "lock"
    /\ limits' = [limits EXCEPT ![r] = limit[customer(r)]]
    /\ Go(r, "recheck")
    /\ UNCHANGED <<status, limit, consumed, locked, reply, clock>>

\* lock_customer_limits: waits for the customer row, then reads the ceilings.
Lock(r) ==
    /\ pc[r] = "lock"
    /\ locked[customer(r)] = NoOne
    /\ locked' = [locked EXCEPT ![customer(r)] = r]
    /\ limits' = [limits EXCEPT ![r] = limit[customer(r)]]
    /\ Go(r, "recheck")
    /\ UNCHANGED <<status, limit, consumed, reply, clock>>

\* Mutant of Recheck: straight on to the limits.
RecheckSkipped(r) ==
    /\ pc[r] = "recheck"
    /\ Go(r, "check")
    /\ UNCHANGED <<status, limit, consumed, locked, limits, reply, clock>>

\* The second find_by_idempotency_key, on a connection of the pool and not of
\* the open transaction.
Recheck(r) ==
    /\ pc[r] = "recheck"
    /\ Free
    /\ IF key_exists(r) THEN Answer(r, "existing")
       ELSE Go(r, "check") /\ UNCHANGED <<reply, locked>>
    /\ UNCHANGED <<status, limit, consumed, limits, clock>>

\* check_exposure_limits.
CheckLimits(r) ==
    /\ pc[r] = "check"
    /\ IF amount(r) > limits[r] \/ customer_open_exposure(r) + amount(r) > MaxAggregate
         THEN Answer(r, "limit")
         ELSE Go(r, "insert") /\ UNCHANGED <<reply, locked>>
    /\ UNCHANGED <<status, limit, consumed, limits, clock>>

\* Mutant of Commit: the quote is marked consumed without the transfer's id.
CommitMarksQuote(r) ==
    /\ pc[r] = "insert"
    /\ status' = [status EXCEPT ![r] = "open"]
    /\ consumed' = [consumed EXCEPT ![quote(r)] = "consumed"]
    /\ Go(r, "advance")
    /\ locked' = [c \in Customers |-> IF locked[c] = r THEN NoOne ELSE locked[c]]
    /\ UNCHANGED <<limit, limits, reply, clock>>

\* insert, try_consume, set_settlement_ref, append_history, audit and commit:
\* the row appears with the claim on its quote.
Commit(r) ==
    /\ pc[r] = "insert"
    /\ ~key_exists(r)
    /\ consumed[quote(r)] = NoOne
    /\ status' = [status EXCEPT ![r] = "open"]
    /\ consumed' = [consumed EXCEPT ![quote(r)] = r]
    /\ Go(r, "advance")
    /\ locked' = [c \in Customers |-> IF locked[c] = r THEN NoOne ELSE locked[c]]
    /\ UNCHANGED <<limit, limits, reply, clock>>

\* The insert violates a unique constraint: the key's, or the reference's,
\* whose random digits may collide. After the rollback the key is looked up again.
InsertConflicts(r) ==
    /\ pc[r] = "insert"
    /\ Answer(r, IF key_exists(r) THEN "existing" ELSE "try_again")
    /\ UNCHANGED <<status, limit, consumed, limits, clock>>

\* try_consume updates no row: another transfer has the quote.
QuoteTaken(r) ==
    /\ pc[r] = "insert"
    /\ ~key_exists(r)
    /\ consumed[quote(r)] # NoOne
    /\ Answer(r, "conflict")
    /\ UNCHANGED <<status, limit, consumed, limits, clock>>

\* advance_to_awaiting_funds, schedule_simulated_progression and the reply;
\* what they do to the transfer is module TransferEngine's.
Advance(r) ==
    /\ pc[r] = "advance"
    /\ Answer(r, "created")
    /\ UNCHANGED <<status, limit, consumed, limits, clock>>

\* enforce_timeout drops the call's future at whatever await it is; dropping
\* an open transaction rolls it back.
Timeout(r) ==
    /\ pc[r] \notin {"start", "done"}
    /\ Answer(r, "timeout")
    /\ UNCHANGED <<status, limit, consumed, limits, clock>>
-----------------------------------------------------------------------------
\* What the engine does to a transfer's status, as far as TERMINAL_STATUSES
\* tells it apart: COMPLETED may still be reversed.
Moves == {<<"open", "completed">>, <<"open", "final">>,
          <<"completed", "reversing">>, <<"reversing", "final">>}

EngineMoves(r) ==
    /\ \E m \in Moves : status[r] = m[1] /\ status' = [status EXCEPT ![r] = m[2]]
    /\ UNCHANGED <<limit, consumed, locked, pc, limits, reply, clock>>

\* KYB approval or rescreening: an update of the customers row, which waits
\* for the row lock.
set_transfer_limit(c) ==
    /\ locked[c] = NoOne
    /\ \E n \in Limits : limit' = [limit EXCEPT ![c] = n]
    /\ UNCHANGED <<status, consumed, locked, pc, limits, reply, clock>>

Tick ==
    /\ clock < MaxTime
    /\ clock' = clock + 1
    /\ UNCHANGED <<status, limit, consumed, locked, pc, limits, reply>>

Init ==
    /\ status = [r \in Requests |-> "none"]
    /\ limit \in [Customers -> Limits]
    /\ consumed = [q \in Quotes |-> NoOne]
    /\ locked = [c \in Customers |-> NoOne]
    /\ pc = [r \in Requests |-> "start"]
    /\ limits = [r \in Requests |-> 0]
    /\ reply = [r \in Requests |-> "none"]
    /\ clock = 0

Next ==
    \/ \E r \in Requests :
          \/ FindKey(r) \/ ReadQuote(r) \/ Begin(r) \/ Lock(r) \/ Recheck(r)
          \/ CheckLimits(r) \/ Commit(r) \/ InsertConflicts(r) \/ QuoteTaken(r)
          \/ Advance(r) \/ Timeout(r) \/ EngineMoves(r)
    \/ \E c \in Customers : set_transfer_limit(c)
    \/ Tick

Spec == Init /\ [][Next]_vars
-----------------------------------------------------------------------------
\* Type invariant of the rows, the lock and the calls.
TypeOK ==
    /\ status \in [Requests -> {"none", "open", "completed", "reversing", "final"}]
    /\ limit \in [Customers -> Limits]
    /\ consumed \in [Quotes -> Requests \cup {NoOne}]
    /\ locked \in [Customers -> Requests \cup {NoOne}]
    /\ pc \in [Requests -> {"start", "quote", "begin", "advance", "done"} \cup InTransaction]
    /\ limits \in [Requests -> Nat]
    /\ reply \in [Requests -> {"none", "created", "existing", "not_found", "rate_expired",
                               "limit", "conflict", "try_again", "timeout"}]
    /\ clock \in 0 .. MaxTime

Book == INSTANCE TransferBook

\* However the calls, the engine, KYB and timeouts interleave, the transfers
\* are as if each create were one atomic step: one per key, one per quote, and
\* within both ceilings as they stand at the commit. (The rows a reversal
\* reopened are not counted: nothing stops those from exceeding the ceiling.)
CreationIsAtomic == Book!Spec

\* "return it rather than failing the limit check": a call is never refused for
\* a limit or a consumed quote while a transfer with its key exists, so a
\* client's concurrent retry gets the transfer its first call made.
ReplayNeverRefused ==
    [][\A r \in Requests :
          (reply[r] = "none" /\ reply'[r] \in {"limit", "conflict"}) => ~key_exists(r)]_vars

\* "concurrent transfer creates for the same customer serialize": they wait for
\* one another but never for ever. No state has every connection of the pool
\* held by calls that each wait for the pool, or for a lock of one that does.
PoolNeverDeadlocked ==
    \/ Free
    \/ \E r \in Requests :
          \/ pc[r] \in {"check", "insert"}
          \/ pc[r] = "lock" /\ locked[customer(r)] = NoOne
=============================================================================
