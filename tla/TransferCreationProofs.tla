------------------------ MODULE TransferCreationProofs ------------------------
(***************************************************************************)
(* Proofs about TransferCreation for every set of calls, customers, quotes *)
(* and limits: concurrent creates implement TransferBook, and a replay is  *)
(* never refused.                                                          *)
(***************************************************************************)
EXTENDS TransferCreation, FiniteSetTheorems, WellFoundedInduction, TLAPS

-----------------------------------------------------------------------------
(* The sum of the amounts of a set of transfers.  MapThenSumSet takes the  *)
(* elements in an order of its own; the facts below are proved from a      *)
(* smallest set for which they would fail.                                 *)

pick(s) == CHOOSE x \in s : TRUE
IsSum(T, f) ==
    f = [s \in SUBSET T |-> IF s = {} THEN 0 ELSE amount(pick(s)) + f[s \ {pick(s)}]]
Sums(T) == CHOOSE f : IsSum(T, f)
Total(T) == Sums(T)[T]

\* The exposure of the model and of the book are totals.
LEMMA SumIsTotal ==
    ASSUME NEW S
    PROVE  /\ MapThenSumSet(amount, S) = Total(S)
           /\ Book!MapThenSumSet(Book!Amount, S) = Total(S)
  <1>1. MapThenSumSet(amount, S) = Total(S)
    BY Zenon DEF MapThenSumSet, MapThenFoldSet, Total, Sums, IsSum, pick
  <1>2. Book!MapThenSumSet(Book!Amount, S) = Total(S)
    BY Zenon DEF Book!MapThenSumSet, Book!MapThenFoldSet, Total, Sums, IsSum, pick, Book!Amount,
       amount, quote
  <1> QED BY <1>1, <1>2

\* Of some sets of calls there is one that has no other as a proper subset.
LEMMA SmallestSet ==
    ASSUME NEW B, B \subseteq SUBSET Requests, B # {}
    PROVE  \E t \in B : \A u \in B : u \subseteq t => u = t
  <1> DEFINE R == StrictSubsetOrdering(Requests)
  <1>1. IsWellFoundedOn(R, FiniteSubsetsOf(Requests))
    BY FS_StrictSubsetOrderingWellFounded
  <1>2. B \subseteq FiniteSubsetsOf(Requests)
    BY CreationAssumption, FS_Subset DEF FiniteSubsetsOf
  <1> HIDE DEF R
  <1>3. PICK t \in B : \A u \in B : <<u, t>> \notin R
    BY <1>1, <1>2, WFMin
  <1>4. \A u \in B : u \subseteq t => u = t
    BY <1>3 DEF R, StrictSubsetOrdering
  <1> QED BY <1>4

\* A set that is not empty has the element that is picked.
LEMMA Picked == ASSUME NEW s, s # {} PROVE pick(s) \in s
  BY DEF pick

\* Two sums agree on the sets that both are defined on.
LEMMA SumsAgree ==
    ASSUME NEW T \in SUBSET Requests, NEW U \in SUBSET Requests, NEW f, NEW g,
           IsSum(T, f), IsSum(U, g), NEW s \in SUBSET (T \cap U)
    PROVE  f[s] = g[s]
  <1> DEFINE B == {u \in SUBSET (T \cap U) : f[u] # g[u]}
  <1> SUFFICES ASSUME B # {} PROVE FALSE
    OBVIOUS
  <1>0. B \subseteq SUBSET Requests
    OBVIOUS
  <1> HIDE DEF B
  <1>1. PICK t \in B : \A u \in B : u \subseteq t => u = t
    BY <1>0, SmallestSet
  <1> USE DEF B
  <1>2. /\ f[t] = IF t = {} THEN 0 ELSE amount(pick(t)) + f[t \ {pick(t)}]
        /\ g[t] = IF t = {} THEN 0 ELSE amount(pick(t)) + g[t \ {pick(t)}]
    BY DEF IsSum
  <1>3. t # {} => f[t \ {pick(t)}] = g[t \ {pick(t)}]
    BY <1>1, Picked
  <1> QED BY <1>2, <1>3

\* Every set of calls has its sums.
LEMMA SumsExist == ASSUME NEW T \in SUBSET Requests PROVE IsSum(T, Sums(T))
  <1> DEFINE B == {U \in SUBSET Requests : ~\E f : IsSum(U, f)}
  <1>1. ASSUME B # {} PROVE FALSE
    <2>0. B \subseteq SUBSET Requests
      OBVIOUS
    <2> HIDE DEF B
    <2>1. PICK U \in B : \A V \in B : V \subseteq U => V = U
      BY <1>1, <2>0, SmallestSet
    <2> USE DEF B
    <2>2. ASSUME NEW V, V \subseteq U, V # U PROVE IsSum(V, Sums(V))
      BY <2>1, <2>2 DEF Sums
    <2> DEFINE g == [s \in SUBSET U |-> IF s = {} THEN 0 ELSE amount(pick(s)) + Total(s \ {pick(s)})]
    <2>3. ASSUME NEW t, t \subseteq U, t # U PROVE Total(t) = g[t]
      <3>1. IsSum(t, Sums(t))
        BY <2>2, <2>3
      <3>2. Total(t) = IF t = {} THEN 0 ELSE amount(pick(t)) + Sums(t)[t \ {pick(t)}]
        BY <3>1 DEF Total, IsSum
      <3>3. CASE t # {}
        <4> DEFINE u == t \ {pick(t)}
        <4>1. u \subseteq t /\ u \subseteq U /\ u # U
          BY <2>3
        <4> HIDE DEF u
        <4>2. IsSum(u, Sums(u))
          BY <2>2, <4>1
        <4>3. Sums(t)[u] = Sums(u)[u]
          <5>1. t \in SUBSET Requests /\ u \in SUBSET Requests /\ u \in SUBSET (t \cap u)
            BY <2>3, <4>1
          <5> QED BY <3>1, <4>2, <5>1, SumsAgree
        <4> USE DEF u
        <4> QED BY <2>3, <3>2, <3>3, <4>3 DEF Total
      <3> QED BY <2>3, <3>2, <3>3
    <2>4. ASSUME NEW s \in SUBSET U, s # {} PROVE Total(s \ {pick(s)}) = g[s \ {pick(s)}]
      BY <2>3, <2>4, Picked
    <2>5. IsSum(U, g)
      BY <2>4 DEF IsSum
    <2> QED BY <2>5
  <1>2. \E f : IsSum(T, f)
    BY <1>1
  <1> QED BY <1>2 DEF Sums

\* An amount is in minor units, which are never negative.
LEMMA AmountType == ASSUME NEW r \in Requests PROVE amount(r) \in Nat
  BY CreationAssumption DEF amount, quote

\* The total of no calls is nothing, of others the one picked and the rest.
LEMMA TotalStep ==
    ASSUME NEW T \in SUBSET Requests
    PROVE  Total(T) = IF T = {} THEN 0 ELSE amount(pick(T)) + Total(T \ {pick(T)})
  <1> DEFINE U == T \ {pick(T)}
  <1>1. IsSum(T, Sums(T)) /\ IsSum(U, Sums(U))
    BY SumsExist
  <1>2. Sums(T)[U] = Sums(U)[U]
    BY <1>1, SumsAgree
  <1>3. Sums(T)[T] = IF T = {} THEN 0 ELSE amount(pick(T)) + Sums(T)[U]
    BY <1>1 DEF IsSum
  <1> QED BY <1>2, <1>3 DEF Total

LEMMA TotalType == ASSUME NEW T \in SUBSET Requests PROVE Total(T) \in Nat
  <1> DEFINE B == {U \in SUBSET Requests : Total(U) \notin Nat}
  <1> SUFFICES ASSUME B # {} PROVE FALSE
    OBVIOUS
  <1>0. B \subseteq SUBSET Requests
    OBVIOUS
  <1> HIDE DEF B
  <1>1. PICK U \in B : \A V \in B : V \subseteq U => V = U
    BY <1>0, SmallestSet
  <1> USE DEF B
  <1>2. CASE U = {}
    BY <1>2, TotalStep
  <1>3. CASE U # {}
    <2>1. pick(U) \in U /\ amount(pick(U)) \in Nat
      BY <1>3, Picked, AmountType
    <2>2. Total(U \ {pick(U)}) \in Nat
      BY <1>1, <2>1
    <2>3. Total(U) = amount(pick(U)) + Total(U \ {pick(U)})
      BY <1>3, TotalStep
    <2> QED BY <2>1, <2>2, <2>3
  <1> QED BY <1>2, <1>3

\* Whichever call is taken out first, the total is the same.
LEMMA TotalWithout ==
    ASSUME NEW T \in SUBSET Requests, NEW r \in T
    PROVE  Total(T) = amount(r) + Total(T \ {r})
  <1> DEFINE B == {U \in SUBSET Requests : \E x \in U : Total(U) # amount(x) + Total(U \ {x})}
  <1> SUFFICES ASSUME B # {} PROVE FALSE
    OBVIOUS
  <1>0. B \subseteq SUBSET Requests
    OBVIOUS
  <1> HIDE DEF B
  <1>1. PICK U \in B : \A V \in B : V \subseteq U => V = U
    BY <1>0, SmallestSet
  <1> USE DEF B
  <1>2. PICK x \in U : Total(U) # amount(x) + Total(U \ {x})
    BY <1>1
  <1> DEFINE y == pick(U)
  <1>3. y \in U /\ Total(U) = amount(y) + Total(U \ {y})
    BY TotalStep, Picked
  <1> HIDE DEF y
  <1>4. x # y
    BY <1>2, <1>3
  <1> DEFINE rest == (U \ {x}) \ {y}
  <1>5. Total(U \ {y}) = amount(x) + Total(rest)
    <2>1. Total(U \ {y}) = amount(x) + Total((U \ {y}) \ {x})
      BY <1>1, <1>3, <1>4
    <2>2. (U \ {y}) \ {x} = rest
      OBVIOUS
    <2> QED BY <2>1, <2>2
  <1>6. Total(U \ {x}) = amount(y) + Total(rest)
    BY <1>1, <1>3, <1>4
  <1>7. amount(x) \in Nat /\ amount(y) \in Nat /\ Total(rest) \in Nat
    BY <1>3, AmountType, TotalType
  <1> HIDE DEF rest, B
  <1> QED BY <1>2, <1>3, <1>5, <1>6, <1>7

\* Fewer calls have no greater total.
LEMMA TotalMonotone ==
    ASSUME NEW T \in SUBSET Requests, NEW A \in SUBSET T
    PROVE  Total(A) <= Total(T)
  <1> DEFINE B == {U \in SUBSET Requests : \E V \in SUBSET U : ~(Total(V) <= Total(U))}
  <1> SUFFICES ASSUME B # {} PROVE FALSE
    OBVIOUS
  <1>0. B \subseteq SUBSET Requests
    OBVIOUS
  <1> HIDE DEF B
  <1>1. PICK U \in B : \A V \in B : V \subseteq U => V = U
    BY <1>0, SmallestSet
  <1> USE DEF B
  <1>2. PICK V \in SUBSET U : ~(Total(V) <= Total(U))
    BY <1>1
  <1>3. PICK x \in U : x \notin V
    BY <1>2, TotalType
  <1>4. Total(V) <= Total(U \ {x})
    BY <1>1, <1>3
  <1>5. Total(U) = amount(x) + Total(U \ {x})
    BY TotalWithout
  <1>6. amount(x) \in Nat /\ Total(U \ {x}) \in Nat /\ Total(V) \in Nat
    BY AmountType, TotalType
  <1> QED BY <1>2, <1>4, <1>5, <1>6
-----------------------------------------------------------------------------
(* The invariant.                                                          *)

SameKey(r, o) == customer(o) = customer(r) /\ RequestOf[o].key = RequestOf[r].key

\* The never-closed transfers of r's customer and currency.
OpenBeside(r) == Book!OpenBeside(r)

\* Past the lock a call has its customer's row, so neither the ceiling that it
\* read nor the keys change; at the insert the limits still allow it.
CallAt(r) ==
    /\ pc[r] \in {"recheck", "check", "insert"} =>
          locked[customer(r)] = r /\ limits[r] = limit[customer(r)]
    /\ pc[r] \in {"check", "insert"} => ~key_exists(r)
    /\ pc[r] = "insert" =>
          amount(r) <= limits[r] /\ Total(OpenBeside(r)) + amount(r) <= MaxAggregate

\* A transfer has claimed its quote, and a key has one transfer.
RowAt(r) ==
    /\ status[r] # "none" => consumed[quote(r)] = r
    /\ \A o \in Requests : status[r] # "none" /\ status[o] # "none" /\ SameKey(r, o) => o = r

IInv == TypeOK /\ \A r \in Requests : CallAt(r) /\ RowAt(r)
-----------------------------------------------------------------------------
\* The customer and the quote of a call.
LEMMA RequestType ==
    ASSUME NEW r \in Requests
    PROVE  customer(r) \in Customers /\ quote(r) \in Quotes
  BY CreationAssumption DEF customer, quote

\* The invariant holds initially.
LEMMA InitInv == Init => IInv
  BY CreationAssumption DEF Init, IInv, TypeOK, CallAt, RowAt, InTransaction

\* Where a call is, its lock and its answer aside, nothing has changed.
Quiet(r) ==
    /\ UNCHANGED <<status, limit, consumed, limits, clock>>
    /\ \A o \in Requests : o # r => pc'[o] = pc[o]
    /\ \A c \in Customers : locked[c] # r => locked'[c] = locked[c]

\* A call that ends frees the row that it holds.
LEMMA AnswerDoes ==
    ASSUME TypeOK, NEW r \in Requests, NEW a, Answer(r, a),
           a \in {"created", "existing", "not_found", "rate_expired", "limit", "conflict",
                  "try_again", "timeout"},
           UNCHANGED <<status, limit, consumed, limits, clock>>
    PROVE  TypeOK' /\ Quiet(r) /\ pc'[r] = "done"
  BY DEF Answer, Go, TypeOK, Quiet

\* Such a step keeps what is known of the rows and of the other calls.
LEMMA QuietInv ==
    ASSUME IInv, NEW r \in Requests, Quiet(r)
    PROVE  /\ \A o \in Requests : RowAt(o)'
           /\ \A o \in Requests : o # r => CallAt(o)'
  <1>1. \A o \in Requests : RowAt(o)'
    BY DEF IInv, RowAt, Quiet, SameKey, customer, quote
  <1>2. ASSUME NEW o \in Requests, o # r PROVE CallAt(o)'
    <2>1. customer(o) \in Customers
      BY RequestType
    <2>2. /\ key_exists(o)' <=> key_exists(o)
          /\ OpenBeside(o)' = OpenBeside(o)
      BY DEF Quiet, key_exists, OpenBeside, Book!OpenBeside
    <2>3. Total(OpenBeside(o))' = Total(OpenBeside(o))
      BY <2>2 DEF Total, Sums, IsSum, amount, pick, quote
    <2> QED BY <1>2, <2>1, <2>2, <2>3 DEF IInv, CallAt, Quiet, customer, amount, quote
  <1> QED BY <1>1, <1>2

\* A call that ended, or that holds no lock yet, has nothing to keep.
LEMMA QuietStep ==
    ASSUME IInv, NEW r \in Requests, Quiet(r), TypeOK', pc'[r] \notin {"recheck", "check", "insert"}
    PROVE  IInv'
  BY QuietInv DEF IInv, CallAt
-----------------------------------------------------------------------------
(* The steps.                                                              *)

\* Until the lock a call only reads.
LEMMA EarlyInv ==
    ASSUME IInv, NEW r \in Requests, FindKey(r) \/ ReadQuote(r) \/ Begin(r)
    PROVE  IInv'
  <1>1. UNCHANGED <<status, limit, consumed, limits, clock>>
    BY DEF FindKey, ReadQuote, Begin
  <1>2. CASE \E a \in {"existing", "not_found", "rate_expired"} : Answer(r, a)
    BY <1>1, <1>2, AnswerDoes, QuietStep DEF IInv
  <1>3. CASE \E to \in {"quote", "begin", "lock"} : Go(r, to) /\ UNCHANGED <<reply, locked>>
    <2>1. TypeOK' /\ Quiet(r) /\ pc'[r] \in {"quote", "begin", "lock"}
      BY <1>1, <1>3 DEF Go, IInv, TypeOK, Quiet, InTransaction
    <2> QED BY <2>1, QuietStep
  <1> QED BY <1>2, <1>3 DEF FindKey, ReadQuote, Begin

\* The lock is taken when it is free, and the ceiling read is the customer's.
LEMMA LockInv ==
    ASSUME IInv, NEW r \in Requests, Lock(r)
    PROVE  IInv'
  <1>1. /\ pc' = [pc EXCEPT ![r] = "recheck"] /\ locked[customer(r)] = NoOne
        /\ locked' = [locked EXCEPT ![customer(r)] = r]
        /\ limits' = [limits EXCEPT ![r] = limit[customer(r)]]
        /\ UNCHANGED <<status, limit, consumed, reply, clock>>
    BY DEF Lock, Go
  <1>2. customer(r) \in Customers /\ limit[customer(r)] \in Nat
    BY RequestType, CreationAssumption DEF IInv, TypeOK
  <1>3. TypeOK'
    BY <1>1, <1>2 DEF IInv, TypeOK, InTransaction
  <1>4. \A o \in Requests : RowAt(o)'
    BY <1>1 DEF IInv, RowAt, SameKey, customer, quote
  <1>5. ASSUME NEW o \in Requests PROVE CallAt(o)'
    <2>1. customer(o) \in Customers /\ o # NoOne
      BY RequestType, CreationAssumption
    <2>2. (key_exists(o)' <=> key_exists(o)) /\ Total(OpenBeside(o))' = Total(OpenBeside(o))
      BY <1>1 DEF key_exists, OpenBeside, Book!OpenBeside, Total, Sums, IsSum, amount, pick, quote, customer
    <2> QED BY <1>1, <1>2, <2>1, <2>2 DEF IInv, TypeOK, CallAt, customer, amount, quote
  <1> QED BY <1>3, <1>4, <1>5 DEF IInv

\* Under the lock no other call has inserted the key.
LEMMA RecheckInv ==
    ASSUME IInv, NEW r \in Requests, Recheck(r)
    PROVE  IInv'
  <1>1. UNCHANGED <<status, limit, consumed, limits, clock>> /\ pc[r] = "recheck"
    BY DEF Recheck
  <1>2. CASE Answer(r, "existing")
    BY <1>1, <1>2, AnswerDoes, QuietStep DEF IInv
  <1>3. CASE ~key_exists(r) /\ Go(r, "check") /\ UNCHANGED <<reply, locked>>
    <2>1. TypeOK' /\ Quiet(r) /\ pc'[r] = "check"
      BY <1>1, <1>3 DEF Go, IInv, TypeOK, Quiet, InTransaction
    <2>2. CallAt(r)'
      BY <1>1, <1>3, <2>1 DEF IInv, CallAt, key_exists, customer
    <2> QED BY <2>1, <2>2, QuietInv DEF IInv
  <1> QED BY <1>2, <1>3 DEF Recheck

\* What the check counts is at least what was never closed.
LEMMA ExposureCovers ==
    ASSUME NEW r \in Requests
    PROVE  Total(OpenBeside(r)) <= customer_open_exposure(r)
  <1> DEFINE counted == {o \in Requests :
                            /\ status[o] \in Counted
                            /\ customer(o) = customer(r)
                            /\ QuoteOf[quote(o)].currency = QuoteOf[quote(r)].currency}
  <1>1. OpenBeside(r) \in SUBSET counted /\ counted \in SUBSET Requests
    BY DEF OpenBeside, Book!OpenBeside, Counted, customer, quote
  <1>2. customer_open_exposure(r) = Total(counted)
    BY SumIsTotal DEF customer_open_exposure
  <1> HIDE DEF counted
  <1> QED BY <1>1, <1>2, TotalMonotone

\* The check leaves the call with room in both ceilings.
LEMMA CheckLimitsInv ==
    ASSUME IInv, NEW r \in Requests, CheckLimits(r)
    PROVE  IInv'
  <1>1. UNCHANGED <<status, limit, consumed, limits, clock>> /\ pc[r] = "check"
    BY DEF CheckLimits
  <1>2. CASE Answer(r, "limit")
    BY <1>1, <1>2, AnswerDoes, QuietStep DEF IInv
  <1>3. CASE /\ ~(amount(r) > limits[r] \/ customer_open_exposure(r) + amount(r) > MaxAggregate)
             /\ Go(r, "insert") /\ UNCHANGED <<reply, locked>>
    <2>1. TypeOK' /\ Quiet(r) /\ pc'[r] = "insert"
      BY <1>1, <1>3 DEF Go, IInv, TypeOK, Quiet, InTransaction
    <2> DEFINE counted == {o \in Requests :
                              /\ status[o] \in Counted
                              /\ customer(o) = customer(r)
                              /\ QuoteOf[quote(o)].currency = QuoteOf[quote(r)].currency}
    <2>2. customer_open_exposure(r) \in Nat
      <3>1. counted \in SUBSET Requests
        OBVIOUS
      <3>2. customer_open_exposure(r) = Total(counted)
        BY SumIsTotal DEF customer_open_exposure
      <3> HIDE DEF counted
      <3> QED BY <3>1, <3>2, TotalType
    <2>3. OpenBeside(r) \in SUBSET Requests
      BY DEF OpenBeside, Book!OpenBeside
    <2>4. Total(OpenBeside(r)) \in Nat /\ amount(r) \in Nat /\ limits[r] \in Nat /\ MaxAggregate \in Nat
      BY <2>3, TotalType, AmountType, CreationAssumption DEF IInv, TypeOK
    <2>5. amount(r) <= limits[r] /\ Total(OpenBeside(r)) + amount(r) <= MaxAggregate
      BY <1>3, <2>2, <2>4, ExposureCovers
    <2>6. Total(OpenBeside(r))' = Total(OpenBeside(r))
      BY <1>1 DEF OpenBeside, Book!OpenBeside, Total, Sums, IsSum, amount, pick, quote
    <2>7. CallAt(r)'
      BY <1>1, <1>3, <2>1, <2>5, <2>6 DEF IInv, CallAt, key_exists, customer, amount, quote
    <2> QED BY <2>1, <2>7, QuietInv DEF IInv
  <1> QED BY <1>2, <1>3 DEF CheckLimits

\* The row appears with the claim on its quote; the calls of the customer that
\* might have the key, or be counted with it, wait for the lock.
LEMMA CommitInv ==
    ASSUME IInv, NEW r \in Requests, Commit(r)
    PROVE  IInv'
  <1>1. /\ pc[r] = "insert" /\ ~key_exists(r) /\ consumed[quote(r)] = NoOne
        /\ status' = [status EXCEPT ![r] = "open"]
        /\ consumed' = [consumed EXCEPT ![quote(r)] = r]
        /\ pc' = [pc EXCEPT ![r] = "advance"]
        /\ locked' = [c \in Customers |-> IF locked[c] = r THEN NoOne ELSE locked[c]]
        /\ UNCHANGED <<limit, limits, reply, clock>>
    BY DEF Commit, Go
  <1>2. quote(r) \in Quotes /\ r # NoOne
    BY RequestType, CreationAssumption
  <1>3. TypeOK'
    BY <1>1, <1>2 DEF IInv, TypeOK, InTransaction
  <1>4. ASSUME NEW o \in Requests PROVE RowAt(o)'
    <2>1. RowAt(o) /\ quote(o) \in Quotes /\ o # NoOne
      BY RequestType, CreationAssumption DEF IInv
    <2>2. status'[o] # "none" => consumed'[quote(o)] = o
      BY <1>1, <1>2, <2>1 DEF IInv, TypeOK, RowAt
    <2>3. ASSUME NEW p \in Requests, status'[o] # "none", status'[p] # "none", SameKey(o, p)
          PROVE  p = o
      <3>1. CASE o = r \/ p = r
        BY <1>1, <2>3, <3>1 DEF key_exists, SameKey, IInv, TypeOK
      <3>2. CASE o # r /\ p # r
        BY <1>1, <2>1, <2>3, <3>2 DEF RowAt, IInv, TypeOK
      <3> QED BY <3>1, <3>2
    <2> QED BY <2>2, <2>3 DEF RowAt, SameKey, customer, quote
  <1>5. ASSUME NEW o \in Requests PROVE CallAt(o)'
    <2>1. CASE pc'[o] \in {"recheck", "check", "insert"}
      <3>1. o # r /\ pc'[o] = pc[o]
        BY <1>1, <2>1 DEF IInv, TypeOK
      <3>2. CallAt(o) /\ CallAt(r) /\ customer(o) \in Customers
        BY RequestType DEF IInv
      <3>3. locked[customer(o)] = o /\ customer(o) # customer(r)
        BY <1>1, <2>1, <3>1, <3>2 DEF CallAt
      <3>4. locked'[customer(o)] = o
        BY <1>1, <3>1, <3>2, <3>3
      <3>5. key_exists(o)' => key_exists(o)
        BY <1>1, <3>3 DEF key_exists, customer, IInv, TypeOK
      <3>6. OpenBeside(o)' = OpenBeside(o)
        BY <1>1, <3>3 DEF OpenBeside, Book!OpenBeside, customer, IInv, TypeOK
      <3>7. Total(OpenBeside(o))' = Total(OpenBeside(o))
        BY <3>6 DEF Total, Sums, IsSum, amount, pick, quote
      <3> QED BY <1>1, <3>1, <3>2, <3>4, <3>5, <3>7 DEF CallAt, customer, amount, quote
    <2>2. CASE pc'[o] \notin {"recheck", "check", "insert"}
      BY <2>2 DEF CallAt
    <2> QED BY <2>1, <2>2
  <1> QED BY <1>3, <1>4, <1>5 DEF IInv

\* The other ends of a call.
LEMMA EndsInv ==
    ASSUME IInv, NEW r \in Requests, InsertConflicts(r) \/ QuoteTaken(r) \/ Advance(r) \/ Timeout(r)
    PROVE  IInv'
  <1>1. UNCHANGED <<status, limit, consumed, limits, clock>>
    BY DEF InsertConflicts, QuoteTaken, Advance, Timeout
  <1>2. \E a \in {"existing", "try_again", "conflict", "created", "timeout"} : Answer(r, a)
    BY DEF InsertConflicts, QuoteTaken, Advance, Timeout
  <1> QED BY <1>1, <1>2, AnswerDoes, QuietStep DEF IInv

\* The engine makes no transfer count that did not before.
LEMMA EngineMovesInv ==
    ASSUME IInv, NEW r \in Requests, EngineMoves(r)
    PROVE  IInv'
  <1>1. PICK m \in Moves : status[r] = m[1] /\ status' = [status EXCEPT ![r] = m[2]]
    BY DEF EngineMoves
  <1>2. /\ m[1] \in {"open", "completed", "reversing"} /\ m[2] \in {"completed", "final", "reversing"}
        /\ UNCHANGED <<limit, consumed, locked, pc, limits, reply, clock>>
    BY DEF Moves, EngineMoves
  <1>3. TypeOK'
    BY <1>1, <1>2 DEF IInv, TypeOK
  <1>4. \A o \in Requests : status'[o] # "none" <=> status[o] # "none"
    BY <1>1, <1>2 DEF IInv, TypeOK
  <1>5. \A o \in Requests : RowAt(o)'
    BY <1>2, <1>4 DEF IInv, RowAt, SameKey, customer, quote
  <1>6. ASSUME NEW o \in Requests PROVE CallAt(o)'
    <2>1. key_exists(o)' <=> key_exists(o)
      BY <1>4 DEF key_exists, customer
    <2>2. OpenBeside(o)' \in SUBSET OpenBeside(o) /\ OpenBeside(o) \in SUBSET Requests
      BY <1>1, <1>2 DEF OpenBeside, Book!OpenBeside, IInv, TypeOK
    <2>3. Total(OpenBeside(o)') <= Total(OpenBeside(o))
      BY <2>2, TotalMonotone
    <2>4. Total(OpenBeside(o))' = Total(OpenBeside(o)')
      BY DEF Total, Sums, IsSum, amount, pick, quote
    <2>5. /\ Total(OpenBeside(o)') \in Nat /\ Total(OpenBeside(o)) \in Nat
          /\ amount(o) \in Nat /\ MaxAggregate \in Nat
      BY <2>2, TotalType, AmountType, CreationAssumption
    <2> QED BY <1>2, <2>1, <2>3, <2>4, <2>5 DEF IInv, CallAt, customer, amount, quote
  <1> QED BY <1>3, <1>5, <1>6 DEF IInv

\* A ceiling changes only while nobody has its customer's row.
LEMMA SetLimitInv ==
    ASSUME IInv, NEW c \in Customers, set_transfer_limit(c)
    PROVE  IInv'
  <1>1. PICK n \in Limits : limit' = [limit EXCEPT ![c] = n]
    BY DEF set_transfer_limit
  <1>2. locked[c] = NoOne /\ UNCHANGED <<status, consumed, locked, pc, limits, reply, clock>>
    BY DEF set_transfer_limit
  <1>3. TypeOK'
    BY <1>1, <1>2 DEF IInv, TypeOK
  <1>4. \A o \in Requests : RowAt(o)'
    BY <1>2 DEF IInv, RowAt, SameKey, customer, quote
  <1>5. ASSUME NEW o \in Requests PROVE CallAt(o)'
    <2>1. (key_exists(o)' <=> key_exists(o)) /\ Total(OpenBeside(o))' = Total(OpenBeside(o))
      BY <1>2 DEF key_exists, OpenBeside, Book!OpenBeside, Total, Sums, IsSum, amount, pick, quote, customer
    <2>2. o # NoOne
      BY CreationAssumption
    <2> QED BY <1>1, <1>2, <2>1, <2>2 DEF IInv, TypeOK, CallAt, customer, amount, quote
  <1> QED BY <1>3, <1>4, <1>5 DEF IInv

\* IInv is inductive.
LEMMA NextInv == IInv /\ [Next]_vars => IInv'
  <1> SUFFICES ASSUME IInv, [Next]_vars PROVE IInv'
    OBVIOUS
  <1>1. CASE Tick \/ UNCHANGED vars
    <2>1. UNCHANGED <<status, limit, consumed, locked, pc, limits, reply>> /\ clock' \in 0 .. MaxTime
      BY <1>1, CreationAssumption DEF Tick, vars, IInv, TypeOK
    <2>2. TypeOK'
      BY <2>1 DEF IInv, TypeOK
    <2>3. \A o \in Requests : RowAt(o)'
      BY <2>1 DEF IInv, RowAt, SameKey, customer, quote
    <2>4. ASSUME NEW o \in Requests PROVE CallAt(o)'
      <3>1. (key_exists(o)' <=> key_exists(o)) /\ Total(OpenBeside(o))' = Total(OpenBeside(o))
        BY <2>1 DEF key_exists, OpenBeside, Book!OpenBeside, Total, Sums, IsSum, amount, pick, quote, customer
      <3> QED BY <2>1, <3>1 DEF IInv, CallAt, customer, amount, quote
    <2> QED BY <2>2, <2>3, <2>4 DEF IInv
  <1> QED BY <1>1, EarlyInv, LockInv, RecheckInv, CheckLimitsInv, CommitInv, EndsInv, EngineMovesInv,
          SetLimitInv DEF Next

\* ... and so it always holds.
LEMMA Invariant == Spec => []IInv
  BY InitInv, NextInv, PTL DEF Spec
-----------------------------------------------------------------------------
(* What POST /transfers promises.                                          *)

\* Type correctness of the rows, the lock and the calls.
THEOREM TypeCorrect == Spec => []TypeOK
  <1>1. IInv => TypeOK
    BY DEF IInv
  <1> QED BY <1>1, Invariant, PTL

\* A call is never refused for a limit or a consumed quote while a transfer with its
\* key exists (create_transfer: the second find_by_idempotency_key).
THEOREM ReplayIsServed == Spec => ReplayNeverRefused
  <1>1. IInv /\ [Next]_vars =>
          [\A r \in Requests :
              (reply[r] = "none" /\ reply'[r] \in {"limit", "conflict"}) => ~key_exists(r)]_vars
    <2> SUFFICES ASSUME IInv, Next, NEW r \in Requests, reply[r] = "none",
                        reply'[r] \in {"limit", "conflict"}
                 PROVE  ~key_exists(r)
      OBVIOUS
    <2>1. CASE reply' = reply
      BY <2>1
    <2>2. ASSUME NEW o \in Requests, NEW a, Answer(o, a) PROVE r = o /\ a \in {"limit", "conflict"}
      BY <2>2 DEF Answer, IInv, TypeOK
    <2>3. ASSUME NEW o \in Requests, CheckLimits(o), Answer(o, "limit") PROVE ~key_exists(r)
      BY <2>2, <2>3 DEF CheckLimits, IInv, CallAt
    <2>4. ASSUME NEW o \in Requests, QuoteTaken(o) PROVE ~key_exists(r)
      BY <2>2, <2>4 DEF QuoteTaken
    <2>5. ASSUME NEW o \in Requests,
                 FindKey(o) \/ ReadQuote(o) \/ Recheck(o) \/ InsertConflicts(o) \/ Advance(o) \/ Timeout(o)
          PROVE  \/ reply' = reply
                 \/ \E a \in {"existing", "not_found", "rate_expired", "try_again", "created", "timeout"} :
                       Answer(o, a)
      BY <2>5 DEF FindKey, ReadQuote, Recheck, InsertConflicts, Advance, Timeout
    <2>6. ASSUME NEW o \in Requests, Begin(o) \/ Lock(o) \/ Commit(o) \/ EngineMoves(o)
          PROVE  reply' = reply
      BY <2>6 DEF Begin, Lock, Commit, EngineMoves
    <2>7. ASSUME NEW o \in Requests, CheckLimits(o) PROVE reply' = reply \/ Answer(o, "limit")
      BY <2>7 DEF CheckLimits
    <2>8. (\E c \in Customers : set_transfer_limit(c)) \/ Tick => reply' = reply
      BY DEF set_transfer_limit, Tick
    <2> QED BY <2>1, <2>2, <2>3, <2>4, <2>5, <2>6, <2>7, <2>8 DEF Next
  <1> QED BY <1>1, Invariant, PTL DEF Spec, ReplayNeverRefused

\* A step of create_transfer, of the engine or of KYB is one of the book, or shows
\* nothing there.
LEMMA StepsBook == IInv /\ [Next]_vars => [Book!Next]_<<status, limit>>
  <1> SUFFICES ASSUME IInv, [Next]_vars PROVE Book!Next \/ UNCHANGED <<status, limit>>
    OBVIOUS
  <1>1. ASSUME NEW r \in Requests, Commit(r) PROVE Book!Create(r)
    <2>1. /\ pc[r] = "insert" /\ ~key_exists(r) /\ consumed[quote(r)] = NoOne
          /\ status' = [status EXCEPT ![r] = "open"] /\ limit' = limit
      BY <1>1 DEF Commit
    <2>2. \A o \in Requests : status[o] # "none" =>
             /\ RequestOf[o].quote # RequestOf[r].quote
             /\ <<RequestOf[o].customer, RequestOf[o].key>> # <<RequestOf[r].customer, RequestOf[r].key>>
      BY <2>1, CreationAssumption DEF IInv, RowAt, key_exists, quote, customer
    <2>3. Book!Amount(r) <= limit[RequestOf[r].customer]
      BY <2>1 DEF IInv, CallAt, Book!Amount, amount, quote, customer
    <2>4. Book!MapThenSumSet(Book!Amount, Book!OpenBeside(r)) + Book!Amount(r) <= MaxAggregate
      <3>1. Book!MapThenSumSet(Book!Amount, Book!OpenBeside(r)) = Total(OpenBeside(r))
        BY SumIsTotal DEF OpenBeside
      <3>2. Book!Amount(r) = amount(r)
        BY DEF Book!Amount, amount, quote
      <3> QED BY <2>1, <3>1, <3>2 DEF IInv, CallAt
    <2> QED BY <2>1, <2>2, <2>3, <2>4 DEF Book!Create
  <1>2. ASSUME NEW r \in Requests, EngineMoves(r) PROVE Book!Move(r)
    BY <1>2 DEF EngineMoves, Book!Move, Moves, Book!Moves
  <1>3. ASSUME NEW c \in Customers, set_transfer_limit(c) PROVE Book!SetLimit(c)
    BY <1>3 DEF set_transfer_limit, Book!SetLimit
  <1>4. ASSUME NEW r \in Requests,
               \/ FindKey(r) \/ ReadQuote(r) \/ Begin(r) \/ Lock(r) \/ Recheck(r) \/ CheckLimits(r)
               \/ InsertConflicts(r) \/ QuoteTaken(r) \/ Advance(r) \/ Timeout(r)
        PROVE  UNCHANGED <<status, limit>>
    BY <1>4 DEF FindKey, ReadQuote, Begin, Lock, Recheck, CheckLimits, InsertConflicts, QuoteTaken,
       Advance, Timeout
  <1>5. CASE Tick \/ UNCHANGED vars
    BY <1>5 DEF Tick, vars
  <1> QED BY <1>1, <1>2, <1>3, <1>4, <1>5 DEF Next, Book!Next

\* Concurrent creates, with the engine, KYB and timeouts between their awaits, make
\* transfers as if each were one step: one per key, one per quote, and within both
\* ceilings as they stand at the commit (create_transfer, check_exposure_limits).
THEOREM CreatesAreAtomic == Spec => CreationIsAtomic
  <1>1. Init => Book!Init
    BY DEF Init, Book!Init
  <1> QED BY <1>1, StepsBook, Invariant, PTL DEF Spec, CreationIsAtomic, Book!Spec
=============================================================================
