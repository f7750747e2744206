--------------------------- MODULE SettlementWallet ---------------------------
(***************************************************************************)
(* domain/settlement_wallet.rs: concurrent buy and convert calls of one    *)
(* customer, statement by statement, with the rows they lock in Postgres   *)
(* and the append-only ledger of domain/ledger.rs.  The local account is   *)
(* posted to by transfers and inbound payments as well.                    *)
(*                                                                         *)
(* External: the indicative rate, and Postgres' deadlock detection.        *)
(***************************************************************************)
EXTENDS RateMath, Sequences, FiniteSets

CONSTANTS
    Calls, KeyOf, KindOf, AmountOf, Rates, Postings, PostingOf, Opening,
    NoCall

Accounts == {"local", "usdc"}

ASSUME WalletAssumption ==
    /\ KindOf \in [Calls -> {"BUY", "CONVERT"}]
    /\ AmountOf \in [Calls -> Nat \ {0}]
    /\ Rates \subseteq Nat \ {0}
    /\ PostingOf \in [Postings -> Int]
    /\ Opening \in [Accounts -> Nat]
    /\ NoCall \notin Calls \cup Postings /\ Calls \cap Postings = {}

VARIABLES
    exists,     \* accounts rows that are committed
    entries,    \* ledger_entries of an account, in order
    traded,     \* settlement_trades: calls whose row is committed
    creator,    \* the call whose open transaction inserted the accounts row
    owner,      \* the call whose open transaction holds the row's lock
    pc,         \* where each call is
    local       \* locals of a call: both amounts, running balance of its first leg

vars == <<exists, entries, traded, creator, owner, pc, local>>
-----------------------------------------------------------------------------
\* account_balance_minor: the committed entries.
account_balance_minor(a) ==
    LET sum[i \in 0 .. Len(entries[a])] == IF i = 0 THEN 0 ELSE sum[i - 1] + entries[a][i].amount
    IN  sum[Len(entries[a])]

\* Mutant of Entry: running_balance_minor is left out.
EntryWithoutRunning(source, amount, running) == [source |-> source, amount |-> amount]

Entry(source, amount, running) ==
    [source |-> source, amount |-> amount, running |-> running]

Debited(c) == IF KindOf[c] = "BUY" THEN "local" ELSE "usdc"
Signed(c, a) == IF a = Debited(c) THEN -local[c][a] ELSE local[c][a]

\* A committed trade has the key; another transaction has inserted one.
KeyTraded(c) == \E o \in traded : KeyOf[o] = KeyOf[c]
Inserted(c) == pc[c] \in {<<"post", a>> : a \in Accounts}
KeyPending(c) == \E o \in Calls \ {c} : KeyOf[o] = KeyOf[c] /\ Inserted(o)

Go(c, to) == pc' = [pc EXCEPT ![c] = to]

NoLocals == [local |-> 0, usdc |-> 0, running |-> 0]

\* The call ends; with its transaction go its locks and uncommitted rows.
End(c) ==
    /\ Go(c, <<"done">>)
    /\ local' = [local EXCEPT ![c] = NoLocals]
    /\ creator' = [a \in Accounts |-> IF creator[a] = c THEN NoCall ELSE creator[a]]
    /\ owner' = [a \in Accounts |-> IF owner[a] = c THEN NoCall ELSE owner[a]]

table == <<exists, entries, traded>>
-----------------------------------------------------------------------------
\* find_by_key.
FindKey(c) ==
    /\ pc[c] = <<"find">>
    /\ IF KeyTraded(c) THEN End(c) ELSE Go(c, <<"price">>) /\ UNCHANGED <<creator, owner, local>>
    /\ UNCHANGED table

\* usdc_rate, and both amounts floored; one that comes to nothing is refused.
Price(c, rate) ==
    /\ pc[c] = <<"price">>
    /\ LET amount == AmountOf[c]
           both == IF KindOf[c] = "BUY"
                     THEN [local |-> amount, usdc |-> invert_rate(amount, rate), running |-> 0]
                     ELSE [local |-> apply_rate(amount, rate), usdc |-> amount, running |-> 0]
       IN  IF both.local > 0 /\ both.usdc > 0
             THEN /\ local' = [local EXCEPT ![c] = both]
                  /\ Go(c, <<"select", "local">>)
                  /\ UNCHANGED <<creator, owner>>
             ELSE End(c)
    /\ UNCHANGED table

AfterAccount(a) == IF a = "local" THEN <<"select", "usdc">> ELSE <<"lock">>

\* get_or_create_account_by_code: the select.
SelectAccount(c, a) ==
    /\ pc[c] = <<"select", a>>
    /\ Go(c, IF a \in exists THEN AfterAccount(a) ELSE <<"insert account", a>>)
    /\ UNCHANGED <<table, creator, owner, local>>

\* ... and the insert, which waits for a concurrent one.
InsertAccount(c, a) ==
    /\ pc[c] = <<"insert account", a>>
    /\ creator[a] = NoCall
    /\ a \notin exists
    /\ creator' = [creator EXCEPT ![a] = c]
    /\ Go(c, AfterAccount(a))
    /\ UNCHANGED <<table, owner, local>>

\* The other insert committed: 23505, which the call does not handle.
InsertAccountFails(c, a) ==
    /\ pc[c] = <<"insert account", a>>
    /\ a \in exists
    /\ End(c)
    /\ UNCHANGED table
-----------------------------------------------------------------------------
Lockable(c, a) == owner[a] \in {NoCall, c}

\* Mutant of LockDebit: the balance is read without `for update`.
LockDebitUnlocked(c) ==
    /\ pc[c] = <<"lock">>
    /\ account_balance_minor(Debited(c)) >= local[c][Debited(c)]
    /\ Go(c, <<"insert">>)
    /\ UNCHANGED <<table, creator, owner, local>>

\* "Row lock first", and the balance read under it.
LockDebit(c) ==
    /\ pc[c] = <<"lock">>
    /\ Lockable(c, Debited(c))
    /\ account_balance_minor(Debited(c)) >= local[c][Debited(c)]
    /\ owner' = [owner EXCEPT ![Debited(c)] = c]
    /\ Go(c, <<"insert">>)
    /\ UNCHANGED <<table, creator, local>>

\* "Insufficient balance".
Insufficient(c) ==
    /\ pc[c] = <<"lock">>
    /\ Lockable(c, Debited(c))
    /\ account_balance_minor(Debited(c)) < local[c][Debited(c)]
    /\ End(c)
    /\ UNCHANGED table

\* INSERT_TRADE, which waits for a concurrent insert of the key.
InsertTrade(c) ==
    /\ pc[c] = <<"insert">>
    /\ ~KeyTraded(c) /\ ~KeyPending(c)
    /\ Go(c, <<"post", "local">>)
    /\ UNCHANGED <<table, creator, owner, local>>

\* Mutant of InsertConflicts: the whole transaction is retried.
InsertConflictsRetried(c) ==
    /\ pc[c] = <<"insert">>
    /\ KeyTraded(c)
    /\ Go(c, <<"select", "local">>)
    /\ owner' = [a \in Accounts |-> IF owner[a] = c THEN NoCall ELSE owner[a]]
    /\ UNCHANGED <<table, creator, local>>

\* on conflict do nothing: rollback, and the other call's trade is the answer.
InsertConflicts(c) ==
    /\ pc[c] = <<"insert">>
    /\ KeyTraded(c)
    /\ End(c)
    /\ UNCHANGED table

\* Mutant of PostLocal: append_entry without its row lock.
PostLocalUnlocked(c) ==
    /\ pc[c] = <<"post", "local">>
    /\ local' = [local EXCEPT ![c].running =
                    account_balance_minor("local") + Signed(c, "local")]
    /\ Go(c, <<"post", "usdc">>)
    /\ UNCHANGED <<table, creator, owner>>

\* post_settlement_entry, append_entry: the local leg's running balance, computed
\* under the row lock.
PostLocal(c) ==
    /\ pc[c] = <<"post", "local">>
    /\ Lockable(c, "local")
    /\ owner' = [owner EXCEPT !["local"] = c]
    /\ local' = [local EXCEPT ![c].running =
                    account_balance_minor("local") + Signed(c, "local")]
    /\ Go(c, <<"post", "usdc">>)
    /\ UNCHANGED <<table, creator>>

\* The USDC leg, and the commit of accounts, trade and both legs.
PostUsdcAndCommit(c) ==
    /\ pc[c] = <<"post", "usdc">>
    /\ Lockable(c, "usdc")
    /\ LET usdc == Signed(c, "usdc")
       IN  entries' = [entries EXCEPT
               !["local"] = Append(@, Entry(c, Signed(c, "local"), local[c].running)),
               !["usdc"] = Append(@, Entry(c, usdc, account_balance_minor("usdc") + usdc))]
    /\ traded' = traded \cup {c}
    /\ exists' = exists \cup {a \in Accounts : creator[a] = c}
    /\ End(c)
-----------------------------------------------------------------------------
\* enforce_timeout, a lost connection or a database error drops the call, and
\* its transaction rolls back.
Dropped(c) ==
    /\ pc[c] \notin {<<"find">>, <<"done">>}
    /\ End(c)
    /\ UNCHANGED table

\* The calls whose locks or rows c waits for.
WaitsFor(c) ==
    LET held(a) == {owner[a]} \ {c, NoCall}
    IN  CASE pc[c] = <<"lock">> -> held(Debited(c))
          [] pc[c] \in {<<"post", a>> : a \in Accounts} -> held(pc[c][2])
          [] pc[c] \in {<<"insert account", a>> : a \in Accounts} -> {creator[pc[c][2]]} \ {c, NoCall}
          [] pc[c] = <<"insert">> -> {o \in Calls \ {c} : KeyOf[o] = KeyOf[c] /\ Inserted(o)}
          [] OTHER -> {}

\* Postgres aborts one of the transactions that wait for each other in a circle.
DeadlockVictim(c) ==
    /\ LET reached[n \in 1 .. Cardinality(Calls)] ==
               IF n = 1 THEN WaitsFor(c)
               ELSE LET before == reached[n - 1] IN before \cup UNION {WaitsFor(o) : o \in before}
       IN  c \in reached[Cardinality(Calls)]
    /\ End(c)
    /\ UNCHANGED table

\* post_ledger_entry of a transfer, or post_inbound_entry: append_entry in a
\* transaction of its own.
Post(p) ==
    /\ "local" \in exists
    /\ owner["local"] = NoCall
    /\ \A i \in DOMAIN entries["local"] : entries["local"][i].source # p
    /\ entries' = [entries EXCEPT !["local"] =
           Append(@, Entry(p, PostingOf[p], account_balance_minor("local") + PostingOf[p]))]
    /\ UNCHANGED <<exists, traded, creator, owner, pc, local>>
-----------------------------------------------------------------------------
\* An account is there when something was posted to it before.
Init ==
    /\ exists = {a \in Accounts : Opening[a] > 0}
    /\ entries = [a \in Accounts |->
                    IF Opening[a] > 0 THEN <<Entry(NoCall, Opening[a], Opening[a])>> ELSE <<>>]
    /\ traded = {}
    /\ creator = [a \in Accounts |-> NoCall]
    /\ owner = [a \in Accounts |-> NoCall]
    /\ pc = [c \in Calls |-> <<"find">>]
    /\ local = [c \in Calls |-> NoLocals]

execute_trade(c) ==
    \/ FindKey(c)
    \/ \E rate \in Rates : Price(c, rate)
    \/ \E a \in Accounts : SelectAccount(c, a) \/ InsertAccount(c, a) \/ InsertAccountFails(c, a)
    \/ LockDebit(c) \/ Insufficient(c) \/ InsertTrade(c) \/ InsertConflicts(c)
    \/ PostLocal(c) \/ PostUsdcAndCommit(c)

Next ==
    \/ \E c \in Calls : execute_trade(c) \/ DeadlockVictim(c) \/ Dropped(c)
    \/ \E p \in Postings : Post(p)

Spec == Init /\ [][Next]_vars

\* A call that is not waiting proceeds, and Postgres breaks every circle.
FairSpec == Spec /\ \A c \in Calls : WF_vars(execute_trade(c) \/ DeadlockVictim(c))
-----------------------------------------------------------------------------
\* Type invariant of the tables, the locks and the calls.
TypeOK ==
    /\ exists \subseteq Accounts
    /\ \A a \in Accounts : \A i \in DOMAIN entries[a] :
          entries[a][i] \in [source : Calls \cup Postings \cup {NoCall}, amount : Int, running : Int]
    /\ traded \subseteq Calls
    /\ creator \in [Accounts -> Calls \cup {NoCall}]
    /\ owner \in [Accounts -> Calls \cup {NoCall}]
    /\ pc \in [Calls -> {<<"find">>, <<"price">>, <<"lock">>, <<"insert">>, <<"done">>}
                        \cup {"select", "insert account", "post"} \X Accounts]
    /\ local \in [Calls -> [local : Nat, usdc : Nat, running : Int]]

\* "so concurrent postings to the same account serialise": whoever posts, each
\* entry's running balance is the sum of the entries up to it.
RunningBalances ==
    \A a \in Accounts : \A i \in DOMAIN entries[a] :
        entries[a][i].running =
            entries[a][i].amount + (IF i = 1 THEN 0 ELSE entries[a][i - 1].running)

Book == INSTANCE WalletBook
          WITH balance <- [a \in Accounts |-> account_balance_minor(a)],
               posted <- {p \in Postings : \E i \in DOMAIN entries["local"] :
                                               entries["local"][i].source = p}

\* The calls, their locks, retries and losses come to atomic trades: once per
\* key, both legs together, covered by the balance, rounded against the customer.
WalletBookSpec == Book!Spec

\* Every call that is not lost is answered, although calls wait for each other's
\* account rows, account inserts and keys, in both orders.
EveryCallAnswered == \A c \in Calls : <>(pc[c] = <<"done">>)
=============================================================================
