----------------------------- MODULE WalletBook -----------------------------
(***************************************************************************)
(* What the settlement wallet promises: a trade is one atomic exchange     *)
(* between the customer's local account and the USDC account, at an        *)
(* indicative rate rounded in the platform's favour, never from a balance  *)
(* that does not cover it, and once per idempotency key.                   *)
(***************************************************************************)
EXTENDS Integers

CONSTANTS
    Calls,          \* buy and convert calls; a trade is named by its call
    KeyOf,          \* [Calls -> idempotency keys]
    KindOf,         \* [Calls -> {"BUY", "CONVERT"}]
    AmountOf,       \* [Calls -> minor units of the side entered]
    Rates,          \* indicative rates, scaled by RATE_SCALE
    RATE_SCALE,
    Postings,       \* entries of transfers and inbound payments
    PostingOf,      \* [Postings -> signed minor units]
    Opening         \* [{"local", "usdc"} -> balances at the start]

VARIABLES
    balance,    \* [{"local", "usdc"} -> Int]
    traded,     \* calls that made a trade
    posted      \* postings made

vars == <<balance, traded, posted>>

Init == balance = Opening /\ traded = {} /\ posted = {}

Exchange(c, usdc, local) ==
    /\ usdc > 0 /\ local > 0
    /\ \A o \in traded : KeyOf[o] # KeyOf[c]
    /\ traded' = traded \cup {c}
    /\ UNCHANGED posted

\* The customer never gets more USDC than the local amount is worth.
Buy(c, usdc) ==
    /\ KindOf[c] = "BUY"
    /\ Exchange(c, usdc, AmountOf[c])
    /\ \E rate \in Rates : usdc * rate <= AmountOf[c] * RATE_SCALE
    /\ AmountOf[c] <= balance["local"]
    /\ balance' = [balance EXCEPT !["local"] = @ - AmountOf[c], !["usdc"] = @ + usdc]

Convert(c, local) ==
    /\ KindOf[c] = "CONVERT"
    /\ Exchange(c, AmountOf[c], local)
    /\ \E rate \in Rates : local * RATE_SCALE <= AmountOf[c] * rate
    /\ AmountOf[c] <= balance["usdc"]
    /\ balance' = [balance EXCEPT !["local"] = @ + local, !["usdc"] = @ - AmountOf[c]]

Post(p) ==
    /\ p \notin posted
    /\ posted' = posted \cup {p}
    /\ balance' = [balance EXCEPT !["local"] = @ + PostingOf[p]]
    /\ UNCHANGED traded

Next ==
    \/ \E c \in Calls : Buy(c, balance'["usdc"] - balance["usdc"])
    \/ \E c \in Calls : Convert(c, balance'["local"] - balance["local"])
    \/ \E p \in Postings : Post(p)

Spec == Init /\ [][Next]_vars
=============================================================================
