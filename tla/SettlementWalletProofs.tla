------------------------ MODULE SettlementWalletProofs ------------------------
(***************************************************************************)
(* Proofs about RateMath, for all amounts and rates, and about             *)
(* SettlementWallet, which trades by it, for every set of calls and        *)
(* postings and all amounts, rates and opening balances: running balances  *)
(* add up, and the calls implement the atomic trades of WalletBook.        *)
(***************************************************************************)
EXTENDS SettlementWallet, WellFoundedInduction, TLAPS

(***************************************************************************)
(* Part 1: the arithmetic.  Rounding, and the wrap of a cast, never create *)
(* value, and the vault recomputes what the backend quotes.                *)
(***************************************************************************)

\* Floor division is the largest quotient that fits.
LEMMA DivBounds ==
    ASSUME NEW a \in Nat, NEW d \in Nat \ {0}
    PROVE  /\ a \div d \in Nat
           /\ (a \div d) * d <= a
           /\ a < (a \div d + 1) * d
  BY SMT

\* ... and the only one.
LEMMA DivUnique ==
    ASSUME NEW a \in Nat, NEW d \in Nat \ {0}, NEW q \in Nat,
           q * d <= a, a < (q + 1) * d
    PROVE  a \div d = q
  BY SMT

LEMMA TimesMonotone ==
    ASSUME NEW a \in Nat, NEW b \in Nat, NEW d \in Nat, a <= b
    PROVE  a * d <= b * d
  BY SMT

\* A factor of both sides cancels.
LEMMA DivCancel ==
    ASSUME NEW x \in Nat, NEW d \in Nat \ {0}, NEW s \in Nat \ {0}
    PROVE  (x * d) \div (s * d) = x \div s
  <1> DEFINE q == x \div s
  <1>1. q \in Nat /\ q * s <= x /\ x < (q + 1) * s
    BY DivBounds
  <1>2. x + 1 <= (q + 1) * s
    BY <1>1, SMT
  <1> HIDE DEF q
  <1>3. (q * s) * d <= x * d
    BY <1>1, SMT
  <1>4. (x + 1) * d <= ((q + 1) * s) * d
    BY <1>1, <1>2, SMT
  <1>5. q * (s * d) <= x * d /\ x * d < (q + 1) * (s * d)
    BY <1>1, <1>3, <1>4, SMT
  <1>6. x * d \in Nat /\ s * d \in Nat \ {0}
    BY SMT
  <1>7. (x * d) \div (s * d) = q
    BY <1>1, <1>5, <1>6, DivUnique
  <1> QED
    BY <1>7 DEF q

\* A remainder is in range, and is the number itself when that is.
LEMMA ModBounds ==
    ASSUME NEW y \in Nat, NEW n \in Nat \ {0}
    PROVE  /\ y % n \in 0 .. n - 1
           /\ y % n <= y
           /\ y < n => y % n = y
  BY SMT

\* The cast keeps what fits and never makes a non-negative number larger.
LEMMA CastBounds ==
    ASSUME NEW x \in Nat
    PROVE  /\ as_i64(x) \in Int
           /\ as_i64(x) <= x
           /\ x < I64 => as_i64(x) = x
  <1> DEFINE r == (x + I64) % (2 * I64)
  <1>1. I64 \in Nat \ {0} /\ x + I64 \in Nat /\ 2 * I64 \in Nat \ {0}
    BY RateAssumption, SMT
  <1>2. /\ r \in 0 .. (2 * I64) - 1
        /\ r <= x + I64
        /\ x + I64 < 2 * I64 => r = x + I64
    BY <1>1, ModBounds
  <1>3. as_i64(x) = r - I64
    BY DEF as_i64
  <1> HIDE DEF r
  <1> QED
    BY <1>1, <1>2, <1>3, SMT

\* Both conversions stay below the exact value, cast included.
LEMMA ApplyBounds ==
    ASSUME NEW a \in Nat, NEW rate \in Nat \ {0}
    PROVE  /\ apply_rate(a, rate) \in Int
           /\ apply_rate(a, rate) * RATE_SCALE <= a * rate
  <1> DEFINE q == (a * rate) \div RATE_SCALE
  <1>1. a * rate \in Nat /\ RATE_SCALE \in Nat \ {0}
    BY RateAssumption, SMT
  <1>2. q \in Nat /\ q * RATE_SCALE <= a * rate
    BY <1>1, DivBounds
  <1>3. apply_rate(a, rate) = as_i64(q)
    BY <1>1, SMT DEF apply_rate, quotient
  <1> HIDE DEF q
  <1>4. as_i64(q) \in Int /\ as_i64(q) <= q
    BY <1>2, CastBounds
  <1>5. as_i64(q) * RATE_SCALE <= q * RATE_SCALE
    BY <1>1, <1>2, <1>4, SMT
  <1> QED
    BY <1>1, <1>2, <1>3, <1>4, <1>5, SMT

LEMMA InvertBounds ==
    ASSUME NEW a \in Nat, NEW rate \in Nat \ {0}
    PROVE  /\ invert_rate(a, rate) \in Int
           /\ invert_rate(a, rate) * rate <= a * RATE_SCALE
  <1> DEFINE q == (a * RATE_SCALE) \div rate
  <1>1. a * RATE_SCALE \in Nat
    BY RateAssumption, SMT
  <1>2. q \in Nat /\ q * rate <= a * RATE_SCALE
    BY <1>1, DivBounds
  <1>3. invert_rate(a, rate) = as_i64(q)
    BY <1>1, SMT DEF invert_rate, quotient
  <1> HIDE DEF q
  <1>4. as_i64(q) \in Int /\ as_i64(q) <= q
    BY <1>2, CastBounds
  <1>5. as_i64(q) * rate <= q * rate
    BY <1>2, <1>4, SMT
  <1> QED
    BY <1>1, <1>2, <1>3, <1>4, <1>5, SMT

\* A quotient of what is bounded by a product is bounded by the factor.
LEMMA FactorBound ==
    ASSUME NEW x \in Int, NEW a \in Int, NEW d \in Nat \ {0}, x * d <= a * d
    PROVE  x <= a
  BY SMT

\* "Both directions floor, so rounding never creates value": a purchase of the
\* wallet converted back at its rate returns at most what was paid, whatever
\* the casts wrap; the wallet refuses amounts that come to nothing.
THEOREM BuyThenConvertNeverGains ==
    ASSUME NEW amount \in Nat, NEW rate \in Nat \ {0}, invert_rate(amount, rate) > 0
    PROVE  apply_rate(invert_rate(amount, rate), rate) <= amount
  <1> DEFINE usdc == invert_rate(amount, rate)
  <1>1. usdc \in Nat /\ usdc * rate <= amount * RATE_SCALE
    BY InvertBounds, SMT
  <1> HIDE DEF usdc
  <1> DEFINE back == apply_rate(usdc, rate)
  <1>2. back \in Int /\ back * RATE_SCALE <= usdc * rate
    BY <1>1, ApplyBounds
  <1> HIDE DEF back
  <1>3. back * RATE_SCALE <= amount * RATE_SCALE
    BY <1>1, <1>2, RateAssumption, SMT
  <1>4. back <= amount
    BY <1>2, <1>3, RateAssumption, FactorBound
  <1> QED
    BY <1>4 DEF back, usdc

\* ... and a conversion bought back.
THEOREM ConvertThenBuyNeverGains ==
    ASSUME NEW usdc \in Nat, NEW rate \in Nat \ {0}, apply_rate(usdc, rate) > 0
    PROVE  invert_rate(apply_rate(usdc, rate), rate) <= usdc
  <1> DEFINE amount == apply_rate(usdc, rate)
  <1>1. amount \in Nat /\ amount * RATE_SCALE <= usdc * rate
    BY ApplyBounds, SMT
  <1> HIDE DEF amount
  <1> DEFINE back == invert_rate(amount, rate)
  <1>2. back \in Int /\ back * rate <= amount * RATE_SCALE
    BY <1>1, InvertBounds
  <1> HIDE DEF back
  <1>3. back * rate <= usdc * rate
    BY <1>1, <1>2, RateAssumption, SMT
  <1>4. back <= usdc
    BY <1>2, <1>3, FactorBound
  <1> QED
    BY <1>4 DEF back, amount

\* "Each one must match kimana_contract exactly": for USD cents and a currency
\* with two decimals, the vault's formula gives the receive amount of the
\* backend's quote, as long as neither side overflows.
THEOREM VaultRecomputesQuote ==
    ASSUME NEW cents \in Nat, NEW rate \in RateE8,
           cents_to_usdc(cents) * rate * CENTS <= U256_MAX,
           (cents * rate) \div RATE_SCALE < I64
    PROVE  receive_amount_minor(cents_to_usdc(cents), rate, CENTS)
             = derive_amounts("Send", cents, rate)[2]
  <1> DEFINE x == cents * rate
             d == USDC_PER_CENT * CENTS
  <1>1. /\ x \in Nat /\ d \in Nat \ {0} /\ RATE_SCALE \in Nat \ {0}
        /\ USDC_PER_CENT \in Nat \ {0} /\ CENTS \in Nat \ {0} /\ rate \in Nat \ {0}
    BY RateAssumption, SMT DEF RateE8
  <1>2. /\ cents_to_usdc(cents) * rate * CENTS = x * d
        /\ RECEIVE_DIVISOR = RATE_SCALE * d
    BY <1>1, RateAssumption, SMT DEF cents_to_usdc
  <1> DEFINE p == cents_to_usdc(cents) * rate
  <1>3. p \in Nat
    BY <1>1, SMT DEF cents_to_usdc
  <1> HIDE DEF p
  <1>4. p * CENTS \in Nat /\ p <= p * CENTS
    BY <1>1, <1>3, SMT
  <1>5. receive_amount_minor(cents_to_usdc(cents), rate, CENTS) = (x * d) \div (RATE_SCALE * d)
    <2>1. p * CENTS <= U256_MAX /\ p * CENTS = x * d
      BY <1>2 DEF p
    <2>2. ~(p > U256_MAX) /\ ~(p * CENTS > U256_MAX) /\ CENTS \in Scales
      BY <1>3, <1>4, <2>1, RateAssumption, SMT
    <2>3. receive_amount_minor(cents_to_usdc(cents), rate, CENTS) = (p * CENTS) \div RECEIVE_DIVISOR
      BY <2>2, Zenon DEF receive_amount_minor, p
    <2> QED
      BY <1>2, <2>1, <2>3
  <1>6. (x * d) \div (RATE_SCALE * d) = x \div RATE_SCALE
    BY <1>1, DivCancel
  <1>7. apply_rate(cents, rate) = x \div RATE_SCALE
    <2>1. x \div RATE_SCALE \in Nat
      BY <1>1, DivBounds
    <2>2. as_i64(x \div RATE_SCALE) = x \div RATE_SCALE
      BY <2>1, CastBounds
    <2> QED
      BY <1>1, <2>2, SMT DEF apply_rate, quotient
  <1> QED
    BY <1>5, <1>6, <1>7 DEF derive_amounts

\* A quote entered on the receive side is not recomputed exactly: its send
\* amount was floored, so the vault would give at most what was quoted.
THEOREM ReceiveSideNeverAbove ==
    ASSUME NEW amount \in Nat, NEW rate \in Nat \ {0},
           derive_amounts("Receive", amount, rate)[1] > 0
    PROVE  apply_rate(derive_amounts("Receive", amount, rate)[1], rate)
             <= derive_amounts("Receive", amount, rate)[2]
  BY BuyThenConvertNeverGains DEF derive_amounts

\* "errors instead of truncating a sub-cent remainder": conversion to cents
\* undoes the conversion from cents, and loses nothing when it answers.
THEOREM CentsRoundTrip ==
    /\ \A cents \in 0 .. U64_MAX : usdc_to_cents(cents_to_usdc(cents)) = cents
    /\ \A usdc \in Nat : usdc_to_cents(usdc) # Err => cents_to_usdc(usdc_to_cents(usdc)) = usdc
  <1>1. ASSUME NEW cents \in 0 .. U64_MAX
        PROVE  usdc_to_cents(cents_to_usdc(cents)) = cents
    <2>1. cents \in Nat /\ USDC_PER_CENT \in Nat \ {0} /\ cents <= U64_MAX
      BY RateAssumption, SMT
    <2>2. (cents * USDC_PER_CENT) \div USDC_PER_CENT = cents
      BY <2>1, DivUnique, SMT
    <2>3. (cents * USDC_PER_CENT) % USDC_PER_CENT = 0
      BY <2>1, <2>2, SMT
    <2> QED
      BY <2>1, <2>2, <2>3, RateAssumption, SMT DEF usdc_to_cents, cents_to_usdc
  <1>2. ASSUME NEW usdc \in Nat, usdc_to_cents(usdc) # Err
        PROVE  cents_to_usdc(usdc_to_cents(usdc)) = usdc
    <2>1. USDC_PER_CENT \in Nat \ {0}
      BY RateAssumption
    <2>2. usdc % USDC_PER_CENT = 0 /\ usdc_to_cents(usdc) = usdc \div USDC_PER_CENT
      BY <1>2 DEF usdc_to_cents
    <2> QED
      BY <2>1, <2>2, SMT DEF cents_to_usdc
  <1> QED
    BY <1>1, <1>2

(***************************************************************************)
(* Part 2: the wallet.                                                     *)
(***************************************************************************)

-----------------------------------------------------------------------------
(* The sum of a sequence of entries.  account_balance_minor is a recursive *)
(* function; the facts below are proved from a smallest index for which    *)
(* they would fail.                                                        *)

IsRun(s, n, f) == f = [i \in 0 .. n |-> IF i = 0 THEN 0 ELSE f[i - 1] + s[i].amount]
Run(s, n) == CHOOSE f : IsRun(s, n, f)
Balance(s) == Run(s, Len(s))[Len(s)]

Rows == [source : Calls \cup Postings \cup {NoCall}, amount : Int, running : Int]

\* A balance of the model is the sum of the account's entries.
LEMMA BalanceIsSum == ASSUME NEW a PROVE account_balance_minor(a) = Balance(entries[a])
  BY Zenon DEF account_balance_minor, Balance, Run, IsRun

\* Some numbers have a smallest one.
LEMMA Smallest ==
    ASSUME NEW B, B \subseteq Nat, B # {}
    PROVE  \E n \in B : \A m \in B : n <= m
  <1> DEFINE R == OpToRel(<, Nat)
  <1>1. IsWellFoundedOn(R, Nat)
    BY NatLessThanWellFounded
  <1> HIDE DEF R
  <1>2. PICK n \in B : \A m \in B : <<m, n>> \notin R
    BY <1>1, WFMin
  <1>3. ASSUME NEW m \in B PROVE n <= m
    <2>1. ~(m < n)
      BY <1>2 DEF R, OpToRel
    <2> QED BY <2>1
  <1> QED BY <1>3

\* Two sums agree as far as their sequences do.
LEMMA RunsAgree ==
    ASSUME NEW s, NEW u, NEW n \in Nat, NEW m \in Nat, NEW f, NEW g,
           IsRun(s, n, f), IsRun(u, m, g), NEW k \in Nat, k <= n, k <= m,
           \A i \in 1 .. k : s[i] = u[i]
    PROVE  f[k] = g[k]
  <1> DEFINE B == {j \in 0 .. k : f[j] # g[j]}
  <1> SUFFICES ASSUME B # {} PROVE FALSE
    OBVIOUS
  <1>0. B \subseteq Nat
    OBVIOUS
  <1> HIDE DEF B
  <1>1. PICK j \in B : \A i \in B : j <= i
    BY <1>0, Smallest
  <1> USE DEF B
  <1>2. j \in 0 .. n /\ j \in 0 .. m /\ f[j] # g[j]
    OBVIOUS
  <1>3. /\ f[j] = IF j = 0 THEN 0 ELSE f[j - 1] + s[j].amount
        /\ g[j] = IF j = 0 THEN 0 ELSE g[j - 1] + u[j].amount
    BY <1>2 DEF IsRun
  <1>4. j # 0 => j - 1 \in 0 .. k /\ j \in 1 .. k /\ ~(j <= j - 1)
    OBVIOUS
  <1>5. j # 0 => f[j - 1] = g[j - 1] /\ s[j] = u[j]
    BY <1>1, <1>4
  <1> QED BY <1>2, <1>3, <1>5

\* Every prefix of a sequence has its sum.
LEMMA RunsExist == ASSUME NEW s, NEW n \in Nat PROVE IsRun(s, n, Run(s, n))
  <1> DEFINE B == {j \in Nat : ~\E f : IsRun(s, j, f)}
  <1>1. ASSUME B # {} PROVE FALSE
    <2>0. B \subseteq Nat
      OBVIOUS
    <2> HIDE DEF B
    <2>1. PICK j \in B : \A i \in B : j <= i
      BY <1>1, <2>0, Smallest
    <2> USE DEF B
    <2>2. CASE j = 0
      <3>1. IsRun(s, 0, [i \in 0 .. 0 |-> 0])
        BY DEF IsRun
      <3> QED BY <2>2, <3>1
    <2>3. CASE j # 0
      <3>1. j - 1 \in Nat /\ j - 1 \notin B
        BY <2>1, <2>3
      <3>2. PICK f : IsRun(s, j - 1, f)
        BY <3>1
      <3> DEFINE g == [i \in 0 .. j |-> IF i = j THEN f[j - 1] + s[j].amount ELSE f[i]]
      <3>3. ASSUME NEW i \in 0 .. j
            PROVE  g[i] = IF i = 0 THEN 0 ELSE g[i - 1] + s[i].amount
        <4>1. i # 0 => i - 1 \in 0 .. j /\ i - 1 # j
          OBVIOUS
        <4>2. i # 0 => g[i - 1] = f[i - 1]
          BY <4>1
        <4>3. i # j => f[i] = IF i = 0 THEN 0 ELSE f[i - 1] + s[i].amount
          <5>1. i # j => i \in 0 .. j - 1
            OBVIOUS
          <5> QED BY <3>2, <5>1 DEF IsRun
        <4> QED BY <2>3, <4>2, <4>3
      <3>4. IsRun(s, j, g)
        BY <3>3 DEF IsRun
      <3> QED BY <3>4
    <2> QED BY <2>2, <2>3
  <1>2. \E f : IsRun(s, n, f)
    BY <1>1
  <1> QED BY <1>2 DEF Run

\* An account without entries has nothing.
LEMMA EmptyBalance == Balance(<<>>) = 0
  BY RunsExist DEF IsRun, Balance

\* An entry more is its amount more.
LEMMA AppendBalance ==
    ASSUME NEW s \in Seq(Rows), NEW e \in Rows
    PROVE  Balance(Append(s, e)) = Balance(s) + e.amount
  <1> DEFINE n == Len(s)
             u == Append(s, e)
  <1>1. n \in Nat /\ Len(u) = n + 1 /\ u[n + 1] = e /\ \A i \in 1 .. n : u[i] = s[i]
    OBVIOUS
  <1>2. IsRun(s, n, Run(s, n)) /\ IsRun(u, n + 1, Run(u, n + 1))
    BY <1>1, RunsExist
  <1> HIDE DEF n, u
  <1>3. Run(u, n + 1)[n] = Run(s, n)[n]
    BY <1>1, <1>2, RunsAgree
  <1>4. Run(u, n + 1)[n + 1] = Run(u, n + 1)[n] + u[n + 1].amount
    BY <1>1, <1>2 DEF IsRun
  <1> QED BY <1>1, <1>3, <1>4 DEF Balance, n, u

\* A balance is a number.
LEMMA BalanceType == ASSUME NEW s \in Seq(Rows) PROVE Balance(s) \in Int
  <1> DEFINE f == Run(s, Len(s))
             B == {j \in 0 .. Len(s) : f[j] \notin Int}
  <1> SUFFICES ASSUME B # {} PROVE FALSE
    BY DEF Balance
  <1>0. B \subseteq Nat
    OBVIOUS
  <1>1. IsRun(s, Len(s), f)
    BY RunsExist
  <1> HIDE DEF f
  <1> HIDE DEF B
  <1>2. PICK j \in B : \A i \in B : j <= i
    BY <1>0, Smallest
  <1> USE DEF B
  <1>3. f[j] = IF j = 0 THEN 0 ELSE f[j - 1] + s[j].amount
    BY <1>1 DEF IsRun
  <1>4. j # 0 => j - 1 \in 0 .. Len(s) /\ ~(j <= j - 1) /\ s[j] \in Rows
    OBVIOUS
  <1>5. j # 0 => f[j - 1] \in Int /\ s[j].amount \in Int
    BY <1>2, <1>4 DEF Rows
  <1> QED BY <1>3, <1>5
-----------------------------------------------------------------------------
(* The inductive invariant.                                                *)

\* Running balances add up, to the balance.
Good(s) ==
    /\ \A i \in DOMAIN s : s[i].running = s[i].amount + (IF i = 1 THEN 0 ELSE s[i - 1].running)
    /\ s # <<>> => s[Len(s)].running = Balance(s)

\* An entry whose running balance was computed from the entries before it.
LEMMA AppendGood ==
    ASSUME NEW s \in Seq(Rows), NEW e \in Rows, Good(s), e.running = Balance(s) + e.amount
    PROVE  /\ Append(s, e) \in Seq(Rows) /\ Good(Append(s, e))
           /\ Balance(Append(s, e)) = Balance(s) + e.amount
  <1> DEFINE n == Len(s)
             u == Append(s, e)
  <1>1. n \in Nat /\ DOMAIN s = 1 .. n /\ DOMAIN u = 1 .. n + 1 /\ Len(u) = n + 1 /\ u \in Seq(Rows)
    OBVIOUS
  <1>2. u[n + 1] = e /\ \A i \in 1 .. n : u[i] = s[i]
    OBVIOUS
  <1>3. Balance(u) = Balance(s) + e.amount
    BY AppendBalance
  <1>4. (n = 0 => Balance(s) = 0) /\ (n # 0 => s[n].running = Balance(s))
    BY EmptyBalance DEF Good
  <1>5. e.amount \in Int /\ e.running \in Int /\ Balance(s) \in Int
    BY BalanceType DEF Rows
  <1> HIDE DEF n, u
  <1>6. ASSUME NEW i \in 1 .. n + 1
        PROVE  u[i].running = u[i].amount + (IF i = 1 THEN 0 ELSE u[i - 1].running)
    <2>1. CASE i = n + 1
      <3>1. n # 0 => n \in 1 .. n /\ u[n] = s[n]
        BY <1>1, <1>2
      <3>2. i - 1 = n /\ u[i] = e
        BY <1>1, <1>2, <2>1
      <3> QED BY <1>1, <1>4, <1>5, <2>1, <3>1, <3>2
    <2>2. CASE i # n + 1
      <3>1. i \in 1 .. n /\ u[i] = s[i] /\ (i # 1 => u[i - 1] = s[i - 1])
        BY <1>1, <1>2, <2>2
      <3> QED BY <1>1, <3>1 DEF Good
    <2> QED BY <2>1, <2>2
  <1>7. u[Len(u)].running = Balance(u)
    BY <1>1, <1>2, <1>3
  <1> QED BY <1>1, <1>3, <1>6, <1>7 DEF Good, u

\* The statements a call can be at.
PCs == {<<"find">>, <<"price">>, <<"lock">>, <<"insert">>, <<"done">>}
         \cup {"select", "insert account", "post"} \X Accounts

TypeInv ==
    /\ exists \subseteq Accounts
    /\ entries \in [Accounts -> Seq(Rows)]
    /\ traded \subseteq Calls
    /\ creator \in [Accounts -> Calls \cup {NoCall}]
    /\ owner \in [Accounts -> Calls \cup {NoCall}]
    /\ pc \in [Calls -> PCs]
    /\ local \in [Calls -> [local : Nat, usdc : Nat, running : Int]]

\* Both amounts are above zero, at a rate and rounded against the customer.
PricedAt(c, mine) ==
    /\ mine.local > 0 /\ mine.usdc > 0
    /\ mine[Debited(c)] = AmountOf[c]
    /\ IF KindOf[c] = "BUY"
         THEN \E rate \in Rates : mine.usdc * rate <= AmountOf[c] * RATE_SCALE
         ELSE \E rate \in Rates : mine.local * RATE_SCALE <= AmountOf[c] * rate

\* From LockDebit on the balance covers the trade; from PostLocal on the running
\* balance is the local account's: the locks that were read under are still held.
HeldAt(c) ==
    /\ pc[c] \notin {<<"find">>, <<"price">>, <<"done">>} => PricedAt(c, local[c])
    /\ pc[c] \in {<<"insert">>, <<"post", "local">>, <<"post", "usdc">>} =>
          /\ owner[Debited(c)] = c
          /\ Balance(entries[Debited(c)]) >= local[c][Debited(c)]
    /\ pc[c] = <<"post", "usdc">> =>
          /\ owner["local"] = c
          /\ local[c].running = Balance(entries["local"]) + Signed(c, "local")

\* A key is traded once, or pending in one transaction.
KeysInv ==
    \A c \in Calls : Inserted(c) =>
        /\ ~KeyTraded(c)
        /\ \A o \in Calls : Inserted(o) /\ KeyOf[o] = KeyOf[c] => o = c

IInv ==
    /\ TypeInv
    /\ \A a \in Accounts : Good(entries[a])
    /\ \A c \in Calls : HeldAt(c)
    /\ KeysInv

LEMMA InitInv == Init => IInv
  <1> SUFFICES ASSUME Init PROVE IInv
    OBVIOUS
  <1>1. ASSUME NEW a \in Accounts, Opening[a] > 0
        PROVE  /\ entries[a] = Append(<<>>, Entry(NoCall, Opening[a], Opening[a]))
               /\ Entry(NoCall, Opening[a], Opening[a]) \in Rows
               /\ Entry(NoCall, Opening[a], Opening[a]).running = Balance(<<>>) + Opening[a]
    BY <1>1, WalletAssumption, EmptyBalance DEF Init, Entry, Rows
  <1>2. Good(<<>>) /\ <<>> \in Seq(Rows)
    BY DEF Good
  <1>3. \A a \in Accounts : entries[a] \in Seq(Rows) /\ Good(entries[a])
    <2> TAKE a \in Accounts
    <2>1. CASE Opening[a] > 0
      <3> DEFINE e == Entry(NoCall, Opening[a], Opening[a])
      <3>1. e.amount = Opening[a]
        BY DEF Entry
      <3> HIDE DEF e
      <3> QED BY <1>1, <1>2, <2>1, <3>1, AppendGood DEF e
    <2>2. CASE ~(Opening[a] > 0)
      BY <1>2, <2>2 DEF Init
    <2> QED BY <2>1, <2>2
  <1>4. TypeInv
    BY <1>3, WalletAssumption DEF Init, TypeInv, PCs, NoLocals
  <1>5. \A c \in Calls : pc[c] = <<"find">>
    BY DEF Init
  <1>6. \A c \in Calls : HeldAt(c)
    BY <1>5 DEF HeldAt
  <1>7. \A c \in Calls : ~Inserted(c)
    BY <1>5 DEF Inserted
  <1> QED BY <1>3, <1>4, <1>6, <1>7 DEF IInv, KeysInv
-----------------------------------------------------------------------------
(* What the actions have in common.                                        *)

Others(c) == Calls \ {c}

\* Another call keeps what it holds.
LEMMA OthersHeld ==
    ASSUME IInv, NEW o \in Calls, pc'[o] = pc[o], local'[o] = local[o],
           \A a \in Accounts : owner[a] = o => owner'[a] = o /\ entries'[a] = entries[a]
    PROVE  HeldAt(o)'
  <1>1. HeldAt(o) /\ Debited(o) \in Accounts /\ "local" \in Accounts
    BY WalletAssumption DEF IInv, Debited, Accounts
  <1>2. Debited(o)' = Debited(o) /\ Signed(o, "local")' = Signed(o, "local")
    BY DEF Debited, Signed
  <1>3. PricedAt(o, local[o]) => PricedAt(o, local[o])'
    BY DEF PricedAt, Debited
  <1> QED BY <1>1, <1>2, <1>3 DEF HeldAt

\* A call that ends keeps nothing.
LEMMA EndInv == ASSUME IInv, NEW c \in Calls, End(c), UNCHANGED table PROVE IInv'
  <1> USE DEF End, Go, table
  <1>1. pc'[c] = <<"done">> /\ \A o \in Others(c) : pc'[o] = pc[o] /\ local'[o] = local[o]
    BY DEF IInv, TypeInv, Others
  <1>2. TypeInv'
    <2>1. /\ creator' \in [Accounts -> Calls \cup {NoCall}]
          /\ owner' \in [Accounts -> Calls \cup {NoCall}]
      BY DEF IInv, TypeInv
    <2>2. <<"done">> \in PCs /\ pc' \in [Calls -> PCs]
      BY DEF IInv, TypeInv, PCs
    <2>3. NoLocals \in [local : Nat, usdc : Nat, running : Int]
      BY DEF NoLocals
    <2>4. local' \in [Calls -> [local : Nat, usdc : Nat, running : Int]]
      BY <2>3 DEF IInv, TypeInv
    <2> QED BY <2>1, <2>2, <2>4 DEF IInv, TypeInv
  <1>3. \A o \in Others(c) : HeldAt(o)'
    BY <1>1, OthersHeld, WalletAssumption DEF Others
  <1>4. HeldAt(c)'
    BY <1>1 DEF HeldAt
  <1>5. \A o \in Calls : Inserted(o)' => Inserted(o)
    BY <1>1 DEF Inserted, Others
  <1>6. KeysInv'
    BY <1>5 DEF IInv, KeysInv, KeyTraded
  <1> QED BY <1>2, <1>3, <1>4, <1>6 DEF IInv, Others

\* A call that goes on in its transaction: the tables stay, it may lock a row that
\* is free, and what it holds is as its next statement needs it.
LEMMA MoveInv ==
    ASSUME IInv, NEW c \in Calls, NEW to \in PCs, Go(c, to), UNCHANGED table,
           creator' \in [Accounts -> Calls \cup {NoCall}],
           \/ UNCHANGED owner
           \/ \E a \in Accounts : Lockable(c, a) /\ owner' = [owner EXCEPT ![a] = c],
           NEW mine \in [local : Nat, usdc : Nat, running : Int],
           local' = [local EXCEPT ![c] = mine],
           HeldAt(c)',
           Inserted(c)' => Inserted(c) \/ ~(KeyTraded(c) \/ KeyPending(c))
    PROVE  IInv'
  <1> USE DEF Go, table
  <1>1. pc'[c] = to /\ \A o \in Others(c) : pc'[o] = pc[o] /\ local'[o] = local[o]
    BY DEF IInv, TypeInv, Others
  <1>2. TypeInv'
    BY DEF IInv, TypeInv
  <1>3. \A o \in Others(c) : \A a \in Accounts : owner[a] = o => owner'[a] = o
    BY WalletAssumption DEF IInv, TypeInv, Others, Lockable
  <1>4. \A o \in Others(c) : HeldAt(o)'
    BY <1>1, <1>3, OthersHeld DEF Others
  <1>5. \A o \in Others(c) : Inserted(o)' => Inserted(o)
    BY <1>1 DEF Inserted
  <1>6. KeysInv'
    BY <1>5 DEF IInv, KeysInv, KeyTraded, KeyPending, Others
  <1> QED BY <1>2, <1>4, <1>6 DEF IInv, Others
-----------------------------------------------------------------------------
(* Every action keeps the invariant.                                       *)

LEMMA FindKeyInv == ASSUME IInv, NEW c \in Calls, FindKey(c) PROVE IInv'
  <1>1. CASE End(c)
    BY <1>1, EndInv DEF FindKey
  <1>2. CASE Go(c, <<"price">>) /\ UNCHANGED <<creator, owner, local>>
    <2>1. <<"price">> \in PCs /\ UNCHANGED table
      BY DEF PCs, FindKey
    <2>2. pc'[c] = <<"price">>
      BY <1>2 DEF IInv, TypeInv, Go
    <2>3. HeldAt(c)' /\ ~Inserted(c)'
      BY <2>2 DEF HeldAt, Inserted
    <2>4. creator' \in [Accounts -> Calls \cup {NoCall}] /\ local' = [local EXCEPT ![c] = local[c]]
          /\ local[c] \in [local : Nat, usdc : Nat, running : Int] /\ UNCHANGED owner
      BY <1>2 DEF IInv, TypeInv
    <2> QED BY <1>2, <2>1, <2>3, <2>4, MoveInv
  <1> QED BY <1>1, <1>2 DEF FindKey

\* What Price prices.
LEMMA PriceIsRounded ==
    ASSUME NEW c \in Calls, NEW rate \in Rates,
           NEW mine,
           mine = IF KindOf[c] = "BUY"
                    THEN [local |-> AmountOf[c], usdc |-> invert_rate(AmountOf[c], rate), running |-> 0]
                    ELSE [local |-> apply_rate(AmountOf[c], rate), usdc |-> AmountOf[c], running |-> 0],
           mine.local > 0, mine.usdc > 0
    PROVE  PricedAt(c, mine) /\ mine \in [local : Nat, usdc : Nat, running : Int]
  <1>1. AmountOf[c] \in Nat /\ rate \in Nat \ {0}
    BY WalletAssumption
  <1>2. /\ invert_rate(AmountOf[c], rate) \in Int
        /\ invert_rate(AmountOf[c], rate) * rate <= AmountOf[c] * RATE_SCALE
        /\ apply_rate(AmountOf[c], rate) \in Int
        /\ apply_rate(AmountOf[c], rate) * RATE_SCALE <= AmountOf[c] * rate
    BY <1>1, ApplyBounds, InvertBounds
  <1>3. CASE KindOf[c] = "BUY"
    <2>1. mine.local = AmountOf[c] /\ mine.usdc = invert_rate(AmountOf[c], rate)
      BY <1>3
    <2>2. mine[Debited(c)] = AmountOf[c]
      BY <1>3, <2>1 DEF Debited
    <2>3. mine.usdc * rate <= AmountOf[c] * RATE_SCALE
      BY <1>2, <2>1
    <2>4. mine \in [local : Nat, usdc : Nat, running : Int]
      BY <1>1, <1>2, <1>3
    <2> QED BY <1>3, <2>2, <2>3, <2>4 DEF PricedAt
  <1>4. CASE KindOf[c] # "BUY"
    <2>1. mine.usdc = AmountOf[c] /\ mine.local = apply_rate(AmountOf[c], rate)
      BY <1>4
    <2>2. mine[Debited(c)] = AmountOf[c]
      BY <1>4, <2>1 DEF Debited
    <2>3. mine.local * RATE_SCALE <= AmountOf[c] * rate
      BY <1>2, <2>1
    <2>4. mine \in [local : Nat, usdc : Nat, running : Int]
      BY <1>1, <1>2, <1>4
    <2> QED BY <1>4, <2>2, <2>3, <2>4 DEF PricedAt
  <1> QED BY <1>3, <1>4

LEMMA PriceInv == ASSUME IInv, NEW c \in Calls, NEW rate \in Rates, Price(c, rate) PROVE IInv'
  <1> DEFINE mine ==
          IF KindOf[c] = "BUY"
            THEN [local |-> AmountOf[c], usdc |-> invert_rate(AmountOf[c], rate), running |-> 0]
            ELSE [local |-> apply_rate(AmountOf[c], rate), usdc |-> AmountOf[c], running |-> 0]
  <1>1. CASE End(c)
    BY <1>1, EndInv DEF Price
  <1>2. CASE ~End(c)
    <2>1. /\ mine.local > 0 /\ mine.usdc > 0
          /\ local' = [local EXCEPT ![c] = mine]
          /\ Go(c, <<"select", "local">>)
          /\ UNCHANGED <<creator, owner, table>>
      BY <1>2 DEF Price
    <2>2. PricedAt(c, mine) /\ mine \in [local : Nat, usdc : Nat, running : Int]
      BY <2>1, PriceIsRounded
    <2> HIDE DEF mine
    <2>3. <<"select", "local">> \in PCs /\ pc'[c] = <<"select", "local">> /\ local'[c] = mine
      BY <2>1 DEF PCs, IInv, TypeInv, Go, Accounts
    <2>4. PricedAt(c, local[c])'
      BY <2>2, <2>3 DEF PricedAt, Debited
    <2>5. HeldAt(c)' /\ ~Inserted(c)'
      BY <2>3, <2>4 DEF HeldAt, Inserted
    <2>6. creator' \in [Accounts -> Calls \cup {NoCall}] /\ UNCHANGED table /\ UNCHANGED owner
      BY <2>1 DEF IInv, TypeInv
    <2> QED BY <2>1, <2>2, <2>3, <2>5, <2>6, MoveInv
  <1> QED BY <1>1, <1>2

\* A call between Price and LockDebit has its amounts and nothing else.
LEMMA AccountsInv ==
    ASSUME IInv, NEW c \in Calls, NEW to \in PCs, Go(c, to), UNCHANGED <<table, owner, local>>,
           creator' \in [Accounts -> Calls \cup {NoCall}],
           pc[c] \notin {<<"find">>, <<"price">>, <<"done">>},
           to \notin {<<"insert">>, <<"post", "local">>, <<"post", "usdc">>}
    PROVE  IInv'
  <1>1. pc'[c] = to
    BY DEF IInv, TypeInv, Go
  <1>2. PricedAt(c, local[c])
    BY DEF IInv, HeldAt
  <1>3. PricedAt(c, local[c])'
    BY <1>2 DEF PricedAt, Debited
  <1>4. HeldAt(c)'
    BY <1>1, <1>3 DEF HeldAt
  <1>5. ~Inserted(c)'
    BY <1>1 DEF Inserted, Accounts
  <1>6. /\ local' = [local EXCEPT ![c] = local[c]]
        /\ local[c] \in [local : Nat, usdc : Nat, running : Int]
        /\ UNCHANGED table /\ UNCHANGED owner
    BY DEF IInv, TypeInv
  <1> QED BY <1>4, <1>5, <1>6, MoveInv

LEMMA SelectAccountInv ==
    ASSUME IInv, NEW c \in Calls, NEW a \in Accounts, SelectAccount(c, a) PROVE IInv'
  <1> DEFINE to == IF a \in exists THEN AfterAccount(a) ELSE <<"insert account", a>>
  <1>1. to \in PCs /\ to \notin {<<"insert">>, <<"post", "local">>, <<"post", "usdc">>}
    BY DEF PCs, AfterAccount, Accounts
  <1>2. pc[c] = <<"select", a>> /\ Go(c, to) /\ UNCHANGED <<table, owner, local>>
        /\ creator' \in [Accounts -> Calls \cup {NoCall}]
    BY DEF SelectAccount, IInv, TypeInv
  <1> HIDE DEF to
  <1>3. pc[c] \notin {<<"find">>, <<"price">>, <<"done">>}
    BY <1>2
  <1> QED BY <1>1, <1>2, <1>3, AccountsInv

\* A call at the insert of an account is past Price.
LEMMA InTransaction ==
    ASSUME NEW x, NEW y, y = <<"insert account", x>>
    PROVE  y \notin {<<"find">>, <<"price">>, <<"done">>}
  OBVIOUS

LEMMA InsertAccountInv ==
    ASSUME IInv, NEW c \in Calls, NEW a \in Accounts, InsertAccount(c, a) PROVE IInv'
  <1> DEFINE to == AfterAccount(a)
  <1>1. to \in PCs /\ to \notin {<<"insert">>, <<"post", "local">>, <<"post", "usdc">>}
    BY DEF PCs, AfterAccount, Accounts
  <1>2. pc[c] = <<"insert account", a>> /\ Go(c, to) /\ UNCHANGED <<table, owner, local>>
        /\ creator' \in [Accounts -> Calls \cup {NoCall}]
    BY DEF InsertAccount, IInv, TypeInv
  <1> HIDE DEF to
  <1>3. pc[c] \notin {<<"find">>, <<"price">>, <<"done">>}
    BY InTransaction, Zenon DEF InsertAccount
  <1> QED BY <1>1, <1>2, <1>3, AccountsInv
-----------------------------------------------------------------------------
LEMMA LockDebitInv == ASSUME IInv, NEW c \in Calls, LockDebit(c) PROVE IInv'
  <1>1. Debited(c) \in Accounts /\ <<"insert">> \in PCs
    BY DEF Debited, Accounts, PCs
  <1>2. /\ pc[c] = <<"lock">> /\ Go(c, <<"insert">>) /\ UNCHANGED <<table, creator, local>>
        /\ Lockable(c, Debited(c)) /\ owner' = [owner EXCEPT ![Debited(c)] = c]
        /\ Balance(entries[Debited(c)]) >= local[c][Debited(c)]
    BY BalanceIsSum DEF LockDebit
  <1>3. pc'[c] = <<"insert">> /\ owner'[Debited(c)] = c
    BY <1>1, <1>2 DEF IInv, TypeInv, Go
  <1>4. PricedAt(c, local[c])
    BY <1>2 DEF IInv, HeldAt
  <1>5. PricedAt(c, local[c])'
    BY <1>2, <1>4 DEF PricedAt, Debited
  <1>6. Debited(c)' = Debited(c) /\ entries' = entries /\ local' = local
    BY <1>2 DEF Debited, table
  <1>7. HeldAt(c)'
    BY <1>2, <1>3, <1>5, <1>6 DEF HeldAt
  <1>8. ~Inserted(c)'
    BY <1>3 DEF Inserted, Accounts
  <1>9. /\ local' = [local EXCEPT ![c] = local[c]]
        /\ local[c] \in [local : Nat, usdc : Nat, running : Int]
        /\ creator' \in [Accounts -> Calls \cup {NoCall}] /\ UNCHANGED table
    BY <1>2 DEF IInv, TypeInv
  <1> QED BY <1>1, <1>2, <1>7, <1>8, <1>9, MoveInv

LEMMA InsertTradeInv == ASSUME IInv, NEW c \in Calls, InsertTrade(c) PROVE IInv'
  <1>1. <<"post", "local">> \in PCs
    BY DEF Accounts, PCs
  <1>2. /\ pc[c] = <<"insert">> /\ Go(c, <<"post", "local">>)
        /\ UNCHANGED <<table, creator, owner, local>> /\ ~KeyTraded(c) /\ ~KeyPending(c)
    BY DEF InsertTrade
  <1>3. pc'[c] = <<"post", "local">>
    BY <1>2 DEF IInv, TypeInv, Go
  <1>a. HeldAt(c)
    BY DEF IInv
  <1>4. /\ PricedAt(c, local[c]) /\ owner[Debited(c)] = c
        /\ Balance(entries[Debited(c)]) >= local[c][Debited(c)]
    BY <1>2, <1>a DEF HeldAt
  <1>5. PricedAt(c, local[c])'
    BY <1>2, <1>4 DEF PricedAt, Debited
  <1>6. Debited(c)' = Debited(c) /\ entries' = entries /\ local' = local /\ owner' = owner
    BY <1>2 DEF Debited, table
  <1>7. HeldAt(c)'
    BY <1>3, <1>4, <1>5, <1>6 DEF HeldAt
  <1>9. /\ local' = [local EXCEPT ![c] = local[c]]
        /\ local[c] \in [local : Nat, usdc : Nat, running : Int]
        /\ creator' \in [Accounts -> Calls \cup {NoCall}] /\ UNCHANGED table /\ UNCHANGED owner
    BY <1>2 DEF IInv, TypeInv
  <1> QED BY <1>1, <1>2, <1>7, <1>9, MoveInv

LEMMA PostLocalInv == ASSUME IInv, NEW c \in Calls, PostLocal(c) PROVE IInv'
  <1> DEFINE running == Balance(entries["local"]) + Signed(c, "local")
             mine == [local[c] EXCEPT !.running = running]
  <1>1. <<"post", "usdc">> \in PCs /\ "local" \in Accounts /\ Debited(c) \in Accounts
    BY DEF Accounts, PCs, Debited
  <1>2. /\ pc[c] = <<"post", "local">> /\ Go(c, <<"post", "usdc">>) /\ UNCHANGED <<table, creator>>
        /\ Lockable(c, "local") /\ owner' = [owner EXCEPT !["local"] = c]
        /\ local' = [local EXCEPT ![c].running = running]
    BY BalanceIsSum DEF PostLocal
  <1>3. local[c] \in [local : Nat, usdc : Nat, running : Int] /\ Balance(entries["local"]) \in Int
    BY <1>1, BalanceType DEF IInv, TypeInv
  <1>4. running \in Int
    BY <1>3 DEF Signed
  <1> HIDE DEF running
  <1>5. mine \in [local : Nat, usdc : Nat, running : Int] /\ local' = [local EXCEPT ![c] = mine]
        /\ mine.local = local[c].local /\ mine.usdc = local[c].usdc /\ mine.running = running
    BY <1>2, <1>3, <1>4 DEF IInv, TypeInv
  <1> HIDE DEF mine
  <1>6. pc'[c] = <<"post", "usdc">> /\ local'[c] = mine /\ owner'["local"] = c
    BY <1>1, <1>2, <1>5 DEF IInv, TypeInv, Go
  <1>7. /\ PricedAt(c, local[c]) /\ owner[Debited(c)] = c
        /\ Balance(entries[Debited(c)]) >= local[c][Debited(c)]
    BY <1>2 DEF IInv, HeldAt
  <1>8. mine[Debited(c)] = local[c][Debited(c)] /\ Signed(c, "local")' = Signed(c, "local")
    BY <1>5, <1>6 DEF Debited, Signed
  <1>9. PricedAt(c, local[c])'
    BY <1>5, <1>6, <1>7, <1>8 DEF PricedAt, Debited
  <1>10. Debited(c)' = Debited(c) /\ entries' = entries /\ owner'[Debited(c)] = c
    BY <1>1, <1>2, <1>7 DEF Debited, table, IInv, TypeInv
  <1>11. HeldAt(c)'
    <2>1. local[c]'[Debited(c)] = local[c][Debited(c)] /\ local[c]'.running = running
      BY <1>5, <1>6, <1>8
    <2> QED BY <1>6, <1>7, <1>8, <1>9, <1>10, <2>1 DEF HeldAt, running
  <1>12. creator' \in [Accounts -> Calls \cup {NoCall}] /\ UNCHANGED table /\ Inserted(c)
    BY <1>1, <1>2 DEF IInv, TypeInv, Inserted
  <1> QED BY <1>1, <1>2, <1>5, <1>11, <1>12, MoveInv
-----------------------------------------------------------------------------
(* The two steps that write entries.                                       *)

Posted == {p \in Postings : \E i \in DOMAIN entries["local"] : entries["local"][i].source = p}

\* An entry more adds its source.
LEMMA AppendSource ==
    ASSUME NEW s \in Seq(Rows), NEW e \in Rows, NEW p
    PROVE  (\E i \in DOMAIN Append(s, e) : Append(s, e)[i].source = p)
             <=> (e.source = p \/ \E i \in DOMAIN s : s[i].source = p)
  <1> DEFINE n == Len(s)
             u == Append(s, e)
  <1>1. n \in Nat /\ DOMAIN s = 1 .. n /\ DOMAIN u = 1 .. n + 1
    OBVIOUS
  <1>2. u[n + 1] = e /\ \A i \in 1 .. n : u[i] = s[i]
    OBVIOUS
  <1> HIDE DEF n, u
  <1>3. n + 1 \in DOMAIN u /\ DOMAIN s \subseteq DOMAIN u /\ \A i \in DOMAIN u : i \in DOMAIN s \/ i = n + 1
    BY <1>1
  <1> QED BY <1>1, <1>2, <1>3 DEF u

LEMMA CommitEffect ==
    ASSUME IInv, NEW c \in Calls, PostUsdcAndCommit(c)
    PROVE  /\ entries' \in [Accounts -> Seq(Rows)]
           /\ \A a \in Accounts : Good(entries'[a])
           /\ \A a \in Accounts : Balance(entries'[a]) = Balance(entries[a]) + Signed(c, a)
           /\ Posted' = Posted
  <1> DEFINE eL == Entry(c, Signed(c, "local"), local[c].running)
             eU == Entry(c, Signed(c, "usdc"), Balance(entries["usdc"]) + Signed(c, "usdc"))
  <1>0. "local" \in Accounts /\ "usdc" \in Accounts /\ Accounts = {"local", "usdc"}
    BY DEF Accounts
  <1>1. entries' = [entries EXCEPT !["local"] = Append(@, eL), !["usdc"] = Append(@, eU)]
    BY BalanceIsSum, Zenon DEF PostUsdcAndCommit
  <1>2. local[c].running = Balance(entries["local"]) + Signed(c, "local")
    BY DEF PostUsdcAndCommit, IInv, HeldAt
  <1>3. /\ entries["local"] \in Seq(Rows) /\ Good(entries["local"])
        /\ entries["usdc"] \in Seq(Rows) /\ Good(entries["usdc"])
    BY <1>0 DEF IInv, TypeInv
  <1>4. /\ Signed(c, "local") \in Int /\ Signed(c, "usdc") \in Int
        /\ Balance(entries["local"]) \in Int /\ Balance(entries["usdc"]) \in Int
    BY <1>3, BalanceType DEF IInv, TypeInv, Signed
  <1>5. /\ eL \in Rows /\ eL.source = c /\ eL.amount = Signed(c, "local")
        /\ eL.running = Balance(entries["local"]) + eL.amount
    BY <1>2, <1>4 DEF Entry, Rows
  <1>6. /\ eU \in Rows /\ eU.source = c /\ eU.amount = Signed(c, "usdc")
        /\ eU.running = Balance(entries["usdc"]) + eU.amount
    BY <1>4 DEF Entry, Rows
  <1> HIDE DEF eL, eU
  <1>7. entries'["local"] = Append(entries["local"], eL) /\ entries'["usdc"] = Append(entries["usdc"], eU)
        /\ DOMAIN entries' = Accounts
    BY <1>0, <1>1 DEF IInv, TypeInv
  <1>8. /\ entries'["local"] \in Seq(Rows) /\ Good(entries'["local"])
        /\ Balance(entries'["local"]) = Balance(entries["local"]) + Signed(c, "local")
    BY <1>3, <1>5, <1>7, AppendGood
  <1>9. /\ entries'["usdc"] \in Seq(Rows) /\ Good(entries'["usdc"])
        /\ Balance(entries'["usdc"]) = Balance(entries["usdc"]) + Signed(c, "usdc")
    BY <1>3, <1>6, <1>7, AppendGood
  <1>10. entries' \in [Accounts -> Seq(Rows)]
    BY <1>0, <1>1, <1>7, <1>8, <1>9 DEF IInv, TypeInv
  <1>11. \A p \in Postings : p # c
    BY WalletAssumption
  <1>12. \A p : (\E i \in DOMAIN entries'["local"] : entries'["local"][i].source = p)
             <=> (c = p \/ \E i \in DOMAIN entries["local"] : entries["local"][i].source = p)
    <2>1. /\ entries["local"] \in Seq(Rows) /\ eL \in Rows /\ eL.source = c
          /\ entries'["local"] = Append(entries["local"], eL)
      BY <1>3, <1>5, <1>7
    <2> QED BY <2>1, AppendSource
  <1>13. Posted' = Posted
    BY <1>11, <1>12 DEF Posted
  <1> QED BY <1>0, <1>8, <1>9, <1>10, <1>13

LEMMA CommitInv == ASSUME IInv, NEW c \in Calls, PostUsdcAndCommit(c) PROVE IInv'
  <1>1. /\ entries' \in [Accounts -> Seq(Rows)] /\ \A a \in Accounts : Good(entries'[a])
    BY CommitEffect
  <1>2. /\ pc[c] = <<"post", "usdc">> /\ Lockable(c, "usdc") /\ End(c)
        /\ traded' = traded \cup {c} /\ exists' = exists \cup {a \in Accounts : creator[a] = c}
    BY DEF PostUsdcAndCommit
  <1>3. owner["local"] = c
    BY <1>2 DEF IInv, HeldAt
  <1>4. pc'[c] = <<"done">> /\ \A o \in Others(c) : pc'[o] = pc[o] /\ local'[o] = local[o]
    BY <1>2 DEF IInv, TypeInv, Others, End, Go
  <1>5. TypeInv'
    <2>1. /\ creator' \in [Accounts -> Calls \cup {NoCall}]
          /\ owner' \in [Accounts -> Calls \cup {NoCall}]
      BY <1>2 DEF IInv, TypeInv, End
    <2>2. <<"done">> \in PCs /\ pc' \in [Calls -> PCs]
      BY <1>2 DEF IInv, TypeInv, PCs, End, Go
    <2>3. NoLocals \in [local : Nat, usdc : Nat, running : Int]
      BY DEF NoLocals
    <2>4. local' \in [Calls -> [local : Nat, usdc : Nat, running : Int]]
      BY <1>2, <2>3 DEF IInv, TypeInv, End
    <2>5. exists' \subseteq Accounts /\ traded' \subseteq Calls
      BY <1>2 DEF IInv, TypeInv
    <2> QED BY <1>1, <2>1, <2>2, <2>4, <2>5 DEF TypeInv
  <1>6. \A o \in Others(c) : \A a \in Accounts : owner[a] # o
    BY <1>2, <1>3, WalletAssumption DEF Lockable, Others, Accounts
  <1>7. \A o \in Others(c) : HeldAt(o)'
    BY <1>4, <1>6, OthersHeld DEF Others
  <1>8. HeldAt(c)'
    BY <1>4 DEF HeldAt
  <1>9. \A o \in Calls : Inserted(o)' => Inserted(o) /\ o # c
    BY <1>4 DEF Inserted, Others
  <1>10. Inserted(c)
    BY <1>2 DEF Inserted, Accounts
  <1>11. KeysInv'
    BY <1>2, <1>9, <1>10 DEF IInv, KeysInv, KeyTraded
  <1> QED BY <1>1, <1>5, <1>7, <1>8, <1>11 DEF IInv, Others

LEMMA PostEffect ==
    ASSUME IInv, NEW p \in Postings, Post(p)
    PROVE  /\ entries' \in [Accounts -> Seq(Rows)]
           /\ \A a \in Accounts : Good(entries'[a])
           /\ entries'["usdc"] = entries["usdc"]
           /\ Balance(entries'["local"]) = Balance(entries["local"]) + PostingOf[p]
           /\ p \notin Posted /\ Posted' = Posted \cup {p}
  <1> DEFINE e == Entry(p, PostingOf[p], Balance(entries["local"]) + PostingOf[p])
  <1>0. "local" \in Accounts /\ "usdc" \in Accounts /\ Accounts = {"local", "usdc"}
    BY DEF Accounts
  <1>1. entries' = [entries EXCEPT !["local"] = Append(@, e)]
    BY BalanceIsSum, Zenon DEF Post
  <1>2. entries["local"] \in Seq(Rows) /\ Good(entries["local"])
    BY <1>0 DEF IInv, TypeInv
  <1>3. PostingOf[p] \in Int /\ Balance(entries["local"]) \in Int
    BY <1>2, BalanceType, WalletAssumption
  <1>4. /\ e \in Rows /\ e.source = p /\ e.amount = PostingOf[p]
        /\ e.running = Balance(entries["local"]) + e.amount
    BY <1>3 DEF Entry, Rows
  <1> HIDE DEF e
  <1>5. entries'["local"] = Append(entries["local"], e) /\ entries'["usdc"] = entries["usdc"]
    BY <1>0, <1>1 DEF IInv, TypeInv
  <1>6. /\ entries'["local"] \in Seq(Rows) /\ Good(entries'["local"])
        /\ Balance(entries'["local"]) = Balance(entries["local"]) + PostingOf[p]
    BY <1>2, <1>4, <1>5, AppendGood
  <1>7. entries' \in [Accounts -> Seq(Rows)]
    BY <1>0, <1>1, <1>5, <1>6 DEF IInv, TypeInv
  <1>8. \A q : (\E i \in DOMAIN entries'["local"] : entries'["local"][i].source = q)
             <=> (p = q \/ \E i \in DOMAIN entries["local"] : entries["local"][i].source = q)
    BY <1>2, <1>4, <1>5, AppendSource
  <1>9. p \notin Posted
    BY DEF Post, Posted
  <1>10. Posted' = Posted \cup {p}
    BY <1>8 DEF Posted
  <1> QED BY <1>0, <1>5, <1>6, <1>7, <1>9, <1>10 DEF IInv

LEMMA PostInv == ASSUME IInv, NEW p \in Postings, Post(p) PROVE IInv'
  <1>1. /\ entries' \in [Accounts -> Seq(Rows)] /\ \A a \in Accounts : Good(entries'[a])
        /\ entries'["usdc"] = entries["usdc"]
    BY PostEffect
  <1>2. owner["local"] = NoCall /\ UNCHANGED <<exists, traded, creator, owner, pc, local>>
    BY DEF Post
  <1>3. TypeInv'
    BY <1>1, <1>2 DEF IInv, TypeInv
  <1>4. ASSUME NEW o \in Calls PROVE HeldAt(o)'
    <2>1. \A a \in Accounts : owner[a] = o => owner'[a] = o /\ entries'[a] = entries[a]
      BY <1>1, <1>2, WalletAssumption DEF Accounts
    <2> QED BY <1>2, <2>1, OthersHeld
  <1>5. KeysInv'
    BY <1>2 DEF IInv, KeysInv, KeyTraded, Inserted
  <1> QED BY <1>1, <1>3, <1>4, <1>5 DEF IInv
-----------------------------------------------------------------------------
LEMMA StutterInv == ASSUME IInv, UNCHANGED vars PROVE IInv'
  <1>1. /\ exists' = exists /\ entries' = entries /\ traded' = traded /\ creator' = creator
        /\ owner' = owner /\ pc' = pc /\ local' = local
    BY DEF vars
  <1>2. \A o \in Calls : HeldAt(o)'
    BY <1>1, OthersHeld
  <1>3. KeysInv'
    BY <1>1 DEF IInv, KeysInv, KeyTraded, Inserted
  <1> QED BY <1>1, <1>2, <1>3 DEF IInv, TypeInv

LEMMA NextInv == IInv /\ [Next]_vars => IInv'
  <1> SUFFICES ASSUME IInv, [Next]_vars PROVE IInv'
    OBVIOUS
  <1>1. CASE UNCHANGED vars
    BY <1>1, StutterInv
  <1>2. ASSUME NEW c \in Calls, execute_trade(c) PROVE IInv'
    <2>1. CASE FindKey(c)
      BY <2>1, FindKeyInv
    <2>2. ASSUME NEW rate \in Rates, Price(c, rate) PROVE IInv'
      BY <2>2, PriceInv
    <2>3. ASSUME NEW a \in Accounts, SelectAccount(c, a) PROVE IInv'
      BY <2>3, SelectAccountInv
    <2>4. ASSUME NEW a \in Accounts, InsertAccount(c, a) PROVE IInv'
      BY <2>4, InsertAccountInv
    <2>5. ASSUME NEW a \in Accounts, InsertAccountFails(c, a) PROVE IInv'
      BY <2>5, EndInv DEF InsertAccountFails
    <2>6. CASE LockDebit(c)
      BY <2>6, LockDebitInv
    <2>7. CASE Insufficient(c)
      BY <2>7, EndInv DEF Insufficient
    <2>8. CASE InsertTrade(c)
      BY <2>8, InsertTradeInv
    <2>9. CASE InsertConflicts(c)
      BY <2>9, EndInv DEF InsertConflicts
    <2>10. CASE PostLocal(c)
      BY <2>10, PostLocalInv
    <2>11. CASE PostUsdcAndCommit(c)
      BY <2>11, CommitInv
    <2> QED
      BY <1>2, <2>1, <2>2, <2>3, <2>4, <2>5, <2>6, <2>7, <2>8, <2>9, <2>10, <2>11 DEF execute_trade
  <1>3. ASSUME NEW c \in Calls, DeadlockVictim(c) PROVE IInv'
    BY <1>3, EndInv DEF DeadlockVictim
  <1>4. ASSUME NEW c \in Calls, Dropped(c) PROVE IInv'
    BY <1>4, EndInv DEF Dropped
  <1>5. ASSUME NEW p \in Postings, Post(p) PROVE IInv'
    BY <1>5, PostInv
  <1> QED BY <1>1, <1>2, <1>3, <1>4, <1>5 DEF Next

LEMMA Invariant == Spec => []IInv
  BY InitInv, NextInv, PTL DEF Spec
-----------------------------------------------------------------------------
(* The calls implement WalletBook.                                         *)

BalanceMap == [a \in Accounts |-> account_balance_minor(a)]

\* The book's balance of an account is the sum of its entries.
LEMMA BalanceOf ==
    /\ BalanceMap = [a \in Accounts |-> Balance(entries[a])]
    /\ BalanceMap' = [a \in Accounts |-> Balance(entries'[a])]
  <1>1. \A a : account_balance_minor(a) = Balance(entries[a])
    BY BalanceIsSum
  <1>2. \A a : account_balance_minor(a)' = Balance(entries'[a])
    BY Zenon DEF account_balance_minor, Balance, Run, IsRun
  <1> QED BY <1>1, <1>2, Zenon DEF BalanceMap

LEMMA BookInit == Init => Book!Init
  <1> SUFFICES ASSUME Init PROVE Book!Init
    OBVIOUS
  <1>1. ASSUME NEW a \in Accounts PROVE Balance(entries[a]) = Opening[a]
    <2>1. Opening[a] \in Nat
      BY WalletAssumption
    <2>2. CASE Opening[a] > 0
      <3> DEFINE e == Entry(NoCall, Opening[a], Opening[a])
      <3>1. e \in Rows /\ e.amount = Opening[a] /\ entries[a] = Append(<<>>, e) /\ <<>> \in Seq(Rows)
        BY <2>1, <2>2 DEF Init, Entry, Rows
      <3> HIDE DEF e
      <3>2. Balance(Append(<<>>, e)) = Balance(<<>>) + e.amount
        BY <3>1, AppendBalance
      <3>3. Balance(entries[a]) = Balance(Append(<<>>, e))
        BY <3>1, Zenon
      <3> QED BY <2>1, <3>1, <3>2, <3>3, EmptyBalance
    <2>3. CASE ~(Opening[a] > 0)
      BY <2>1, <2>3, EmptyBalance DEF Init
    <2> QED BY <2>2, <2>3
  <1>2. BalanceMap = Opening
    BY <1>1, BalanceOf, WalletAssumption
  <1>3. Posted = {}
    BY WalletAssumption DEF Init, Posted, Entry, Accounts
  <1> QED BY <1>2, <1>3 DEF Init, Book!Init, BalanceMap, Posted

\* The commit of a trade is the book's trade.
LEMMA CommitIsTrade ==
    ASSUME IInv, NEW c \in Calls, PostUsdcAndCommit(c)
    PROVE  \/ Book!Buy(c, BalanceMap'["usdc"] - BalanceMap["usdc"])
           \/ Book!Convert(c, BalanceMap'["local"] - BalanceMap["local"])
  <1> DEFINE mine == local[c]
             bL == Balance(entries["local"])
             bU == Balance(entries["usdc"])
  <1>0. "local" \in Accounts /\ "usdc" \in Accounts /\ Accounts = {"local", "usdc"}
    BY DEF Accounts
  <1>1. /\ pc[c] = <<"post", "usdc">> /\ traded' = traded \cup {c} /\ Inserted(c)
    BY <1>0 DEF PostUsdcAndCommit, Inserted
  <1>2. \A o \in traded : KeyOf[o] # KeyOf[c]
    BY <1>1 DEF IInv, KeysInv, KeyTraded
  <1>3. PricedAt(c, mine) /\ Balance(entries[Debited(c)]) >= mine[Debited(c)]
    BY <1>1 DEF IInv, HeldAt
  <1>4. /\ mine.local \in Nat /\ mine.usdc \in Nat /\ bL \in Int /\ bU \in Int
    BY <1>0, BalanceType DEF IInv, TypeInv
  <1>5. /\ Balance(entries'["local"]) = bL + Signed(c, "local")
        /\ Balance(entries'["usdc"]) = bU + Signed(c, "usdc")
        /\ Posted' = Posted
    BY <1>0, CommitEffect
  <1>6. /\ BalanceMap["local"] = bL /\ BalanceMap["usdc"] = bU
        /\ BalanceMap'["local"] = bL + Signed(c, "local")
        /\ BalanceMap'["usdc"] = bU + Signed(c, "usdc")
        /\ BalanceMap \in [Accounts -> Int]
        /\ DOMAIN BalanceMap' = Accounts
        /\ BalanceMap' = [a \in Accounts |-> BalanceMap'[a]]
    BY <1>0, <1>4, <1>5, BalanceOf
  <1> HIDE DEF mine, bL, bU
  <1>7. CASE KindOf[c] = "BUY"
    <2>1. Signed(c, "local") = -mine.local /\ Signed(c, "usdc") = mine.usdc /\ Debited(c) = "local"
      BY <1>7 DEF Signed, Debited, mine
    <2>2. mine.local = AmountOf[c] /\ mine.local > 0 /\ mine.usdc > 0
          /\ \E rate \in Rates : mine.usdc * rate <= AmountOf[c] * RATE_SCALE
      BY <1>3, <1>7, <2>1 DEF PricedAt
    <2>3. AmountOf[c] <= BalanceMap["local"] /\ BalanceMap'["usdc"] - BalanceMap["usdc"] = mine.usdc
      BY <1>3, <1>4, <1>6, <2>1, <2>2 DEF bL
    <2>4. BalanceMap' = [BalanceMap EXCEPT !["local"] = @ - AmountOf[c], !["usdc"] = @ + mine.usdc]
      BY <1>0, <1>4, <1>6, <2>1, <2>2
    <2>5. Book!Exchange(c, mine.usdc, AmountOf[c])
      BY <1>1, <1>2, <1>5, <2>2 DEF Book!Exchange, Posted
    <2>6. Book!Buy(c, mine.usdc)
      BY <1>7, <2>2, <2>3, <2>4, <2>5 DEF Book!Buy, BalanceMap
    <2> QED BY <2>3, <2>6
  <1>8. CASE KindOf[c] # "BUY"
    <2>1. Signed(c, "local") = mine.local /\ Signed(c, "usdc") = -mine.usdc /\ Debited(c) = "usdc"
          /\ KindOf[c] = "CONVERT"
      BY <1>8, WalletAssumption DEF Signed, Debited, mine
    <2>2. mine.usdc = AmountOf[c] /\ mine.local > 0 /\ mine.usdc > 0
          /\ \E rate \in Rates : mine.local * RATE_SCALE <= AmountOf[c] * rate
      BY <1>3, <1>8, <2>1 DEF PricedAt
    <2>3. AmountOf[c] <= BalanceMap["usdc"] /\ BalanceMap'["local"] - BalanceMap["local"] = mine.local
      BY <1>3, <1>4, <1>6, <2>1, <2>2 DEF bU
    <2>4. BalanceMap' = [BalanceMap EXCEPT !["local"] = @ + mine.local, !["usdc"] = @ - AmountOf[c]]
      BY <1>0, <1>4, <1>6, <2>1, <2>2
    <2>5. Book!Exchange(c, AmountOf[c], mine.local)
      BY <1>1, <1>2, <1>5, <2>2 DEF Book!Exchange, Posted
    <2>6. Book!Convert(c, mine.local)
      BY <2>1, <2>2, <2>3, <2>4, <2>5 DEF Book!Convert, BalanceMap
    <2> QED BY <2>3, <2>6
  <1> QED BY <1>7, <1>8

LEMMA PostIsPost == ASSUME IInv, NEW p \in Postings, Post(p) PROVE Book!Post(p)
  <1>0. "local" \in Accounts /\ "usdc" \in Accounts /\ Accounts = {"local", "usdc"}
    BY DEF Accounts
  <1>1. /\ Balance(entries'["local"]) = Balance(entries["local"]) + PostingOf[p]
        /\ entries'["usdc"] = entries["usdc"]
        /\ p \notin Posted /\ Posted' = Posted \cup {p} /\ traded' = traded
    BY PostEffect DEF Post
  <1>2. BalanceMap' = [BalanceMap EXCEPT !["local"] = @ + PostingOf[p]]
    BY <1>0, <1>1, BalanceOf
  <1> QED BY <1>1, <1>2 DEF Book!Post, BalanceMap, Posted

LEMMA BookStep == IInv /\ [Next]_vars => [Book!Next]_Book!vars
  <1> SUFFICES ASSUME IInv, [Next]_vars PROVE [Book!Next]_Book!vars
    OBVIOUS
  <1>1. ASSUME UNCHANGED <<entries, traded>> PROVE UNCHANGED Book!vars
    <2>1. BalanceMap' = BalanceMap /\ Posted' = Posted /\ traded' = traded
      BY <1>1, BalanceOf DEF Posted
    <2> QED BY <2>1 DEF Book!vars, BalanceMap, Posted
  <1>2. CASE UNCHANGED vars
    BY <1>1, <1>2 DEF vars
  <1>3. ASSUME NEW c \in Calls, execute_trade(c) PROVE [Book!Next]_Book!vars
    <2>1. CASE PostUsdcAndCommit(c)
      BY <2>1, CommitIsTrade DEF Book!Next, BalanceMap
    <2>2. CASE ~PostUsdcAndCommit(c)
      <3>1. UNCHANGED table
        BY <1>3, <2>2 DEF execute_trade, FindKey, Price, SelectAccount, InsertAccount,
           InsertAccountFails, LockDebit, Insufficient, InsertTrade, InsertConflicts, PostLocal, table
      <3> QED BY <1>1, <3>1 DEF table
    <2> QED BY <2>1, <2>2
  <1>4. ASSUME NEW c \in Calls, DeadlockVictim(c) \/ Dropped(c) PROVE [Book!Next]_Book!vars
    BY <1>1, <1>4 DEF DeadlockVictim, Dropped, table
  <1>5. ASSUME NEW p \in Postings, Post(p) PROVE [Book!Next]_Book!vars
    BY <1>5, PostIsPost DEF Book!Next
  <1> QED BY <1>2, <1>3, <1>4, <1>5 DEF Next
-----------------------------------------------------------------------------
(* What the wallet promises.                                               *)

\* Type correctness of the tables, the locks and the calls.
THEOREM TypeCorrect == Spec => []TypeOK
  <1>1. IInv => TypeOK
    <2> SUFFICES ASSUME IInv PROVE TypeOK
      OBVIOUS
    <2>1. ASSUME NEW a \in Accounts, NEW i \in DOMAIN entries[a] PROVE entries[a][i] \in Rows
      BY DEF IInv, TypeInv
    <2> QED BY <2>1 DEF IInv, TypeInv, TypeOK, PCs, Rows
  <1> QED BY <1>1, Invariant, PTL

\* Whoever posts, each entry's running balance is the sum of the entries up to it
\* (append_entry, under the lock of the account row).
THEOREM RunningBalancesAddUp == Spec => []RunningBalances
  <1>1. IInv => RunningBalances
    BY DEF IInv, Good, RunningBalances
  <1> QED BY <1>1, Invariant, PTL

\* Concurrent buys and conversions, lost anywhere, are atomic trades: once per key,
\* both legs together, covered by the balance, rounded against the customer
\* (execute_trade).
THEOREM ImplementsWalletBook == Spec => WalletBookSpec
  <1> QED BY BookInit, BookStep, Invariant, PTL DEF Spec, WalletBookSpec, Book!Spec
=============================================================================
