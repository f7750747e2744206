------------------------------ MODULE RateMath ------------------------------
(***************************************************************************)
(* Money arithmetic: fixed-point rates (util.rs), the two sides of a quote *)
(* (derive_amounts in domain/quote.rs) and the units shared with the vault *)
(* (settlement/units.rs), which recomputes what the backend quotes.        *)
(*                                                                         *)
(* A rate is a scaled integer here: scale_rate rounds the f64 once, before *)
(* any of this.  The code's powers of ten and of two are parameters.       *)
(***************************************************************************)
EXTENDS Integers

CONSTANTS
    RATE_SCALE,         \* 10^RATE_DECIMALS
    I64,                \* 2^63
    USDC_PER_CENT,      \* base units of USDC to a cent
    RECEIVE_DIVISOR,    \* 10^(USDC_DECIMALS + RATE_DECIMALS)
    MAX_RATE_E8,
    U64_MAX, U256_MAX,
    Scales,             \* 10^decimals of the supported currencies
    CENTS,              \* the scale of the ledger's currencies, 10^2
    Err

ASSUME RateAssumption ==
    /\ {RATE_SCALE, I64, USDC_PER_CENT, MAX_RATE_E8} \subseteq Nat \ {0}
    /\ {U64_MAX, U256_MAX} \subseteq Nat
    /\ CENTS \in Scales /\ Scales \subseteq Nat \ {0}
    /\ RECEIVE_DIVISOR = USDC_PER_CENT * CENTS * RATE_SCALE
    /\ Err \notin Int

\* `as i64` of an i128.
as_i64(x) == ((x + I64) % (2 * I64)) - I64

\* Integer division truncates toward zero.
quotient(a, b) == IF a >= 0 THEN a \div b ELSE -((-a) \div b)

apply_rate(amount_minor, rate) == as_i64(quotient(amount_minor * rate, RATE_SCALE))

invert_rate(amount_minor, rate) == as_i64(quotient(amount_minor * RATE_SCALE, rate))

\* The send and the receive amount of a quote.
derive_amounts(field, amount_minor, rate) ==
    IF field = "Send" THEN <<amount_minor, apply_rate(amount_minor, rate)>>
                      ELSE <<invert_rate(amount_minor, rate), amount_minor>>

cents_to_usdc(cents) == cents * USDC_PER_CENT

usdc_to_cents(usdc) ==
    IF usdc % USDC_PER_CENT # 0 \/ usdc \div USDC_PER_CENT > U64_MAX
    THEN Err
    ELSE usdc \div USDC_PER_CENT

RateE8 == 1 .. MAX_RATE_E8

\* The vault's formula; an unsupported scale and an overflow are errors.
receive_amount_minor(usdc, rate, scale) ==
    IF scale \notin Scales \/ usdc * rate > U256_MAX \/ usdc * rate * scale > U256_MAX
    THEN Err
    ELSE (usdc * rate * scale) \div RECEIVE_DIVISOR
=============================================================================
