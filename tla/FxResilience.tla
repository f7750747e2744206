---------------------------- MODULE FxResilience -----------------------------
(***************************************************************************)
(* The circuit breaker (domain/resilience.rs) around the FX feed and its   *)
(* last-known-good cache (FxResilience in domain/fx.rs), called by several *)
(* requests at once. The two mutexes of the breaker and the one of the     *)
(* cache are taken one after the other, so each is a step.  The feed is    *)
(* the database, and each of its statements is an await.  Behind a live    *)
(* rate get_indicative_rate goes there again, to compare two providers.    *)
(* Rates are not told apart: that they drift decides nothing.              *)
(*                                                                         *)
(* Instants are modelled by the time that has passed since them, which     *)
(* stops growing where the code's comparisons stop telling values apart.   *)
(***************************************************************************)
EXTENDS Integers, FiniteSetsExt

CONSTANTS
    Calls,          \* concurrent callers of resolve
    Quoted,         \* pairs the feed has a rate for
    Seconded,       \* those the second provider has one for too
    Unknown,        \* pairs without a rate
    failure_threshold, reset_timeout, max_cache_age,
    MaxDrops        \* bound: requests dropped in mid-fetch

Pairs == Quoted \cup Unknown
Never == max_cache_age + 1

ASSUME ResilienceAssumption ==
    /\ failure_threshold \in Nat \ {0}      \* new() takes its max with 1
    /\ reset_timeout \in Nat \ {0} /\ max_cache_age \in Nat /\ MaxDrops \in Nat
    /\ Quoted \cap Unknown = {} /\ Seconded \subseteq Quoted

VARIABLES
    state,      \* [mode, elapsed]: Closed, Open (with the time since) or HalfOpen
    failures,   \* consecutive_failures, up to the threshold
    cache,      \* [Quoted -> time since cached_at], Never when absent
    pc, pair, is_trial,     \* each caller's place, pair and is_trial
    up,         \* external: the feed answers within call_timeout
    given,      \* history: [Quoted -> time since the feed gave a rate]
    drops

vars == <<state, failures, cache, pc, pair, is_trial, up, given, drops>>
-----------------------------------------------------------------------------
Closed == [mode |-> "Closed", elapsed |-> 0]
HalfOpen == [mode |-> "HalfOpen", elapsed |-> 0]
OpenedNow == [mode |-> "Open", elapsed |-> 0]

Cooling == state.mode = "Open" /\ state.elapsed < reset_timeout

Go(c, to) == pc' = [pc EXCEPT ![c] = to]

\* Mutant of Attempt: a half-open breaker refuses while a trial is out.
AttemptOneTrial(c, p) ==
    /\ pc[c] = "idle"
    /\ ~Cooling
    /\ state.mode # "HalfOpen"
    /\ state' = IF state.mode = "Open" THEN HalfOpen ELSE state
    /\ is_trial' = [is_trial EXCEPT ![c] = state.mode # "Closed"]
    /\ pair' = [pair EXCEPT ![c] = p]
    /\ Go(c, "fetch")
    /\ UNCHANGED <<failures, cache, up, given, drops>>

\* call, when op is attempted: an Open breaker whose cooldown has elapsed turns
\* HalfOpen; a HalfOpen one lets everybody through as a trial.
Attempt(c, p) ==
    /\ pc[c] = "idle"
    /\ ~Cooling
    /\ state' = IF state.mode = "Open" THEN HalfOpen ELSE state
    /\ is_trial' = [is_trial EXCEPT ![c] = state.mode # "Closed"]
    /\ pair' = [pair EXCEPT ![c] = p]
    /\ Go(c, "fetch")
    /\ UNCHANGED <<failures, cache, up, given, drops>>

\* call, when the breaker is open: op is never called.
FailFast(c, p) ==
    /\ pc[c] = "idle"
    /\ Cooling
    /\ pair' = [pair EXCEPT ![c] = p]
    /\ Go(c, "fallback")
    /\ UNCHANGED <<state, failures, cache, is_trial, up, given, drops>>

\* current_rate finds a row, and goes on to save the drifted rate.
current_rate(c) ==
    /\ pc[c] = "fetch"
    /\ up
    /\ pair[c] \in Quoted
    /\ Go(c, "update")
    /\ UNCHANGED <<state, failures, cache, pair, is_trial, up, given, drops>>

\* op answers Ok, with the saved rate or with None where no row was found; the
\* counter is reset, under its own mutex.
FetchOk(c) ==
    /\ pc[c] = IF pair[c] \in Quoted THEN "update" ELSE "fetch"
    /\ up
    /\ failures' = 0
    /\ given' = [p \in Quoted |-> IF p = pair[c] THEN 0 ELSE given[p]]
    /\ Go(c, "close")
    /\ UNCHANGED <<state, cache, pair, is_trial, up, drops>>

\* ... and then the state, under the other, whatever it has become.
Close(c) ==
    /\ pc[c] = "close"
    /\ state' = Closed
    /\ Go(c, IF pair[c] \in Quoted THEN "store" ELSE "idle")
    /\ UNCHANGED <<failures, cache, pair, is_trial, up, given, drops>>

\* Mutant of Store: an entry that is there is kept.
StoreFirst(c) ==
    /\ pc[c] = "store"
    /\ cache' = [cache EXCEPT ![pair[c]] = IF @ = Never THEN 0 ELSE @]
    /\ Go(c, "jitter")
    /\ UNCHANGED <<state, failures, pair, is_trial, up, given, drops>>

\* resolve caches the live rate.
Store(c) ==
    /\ pc[c] = "store"
    /\ cache' = [cache EXCEPT ![pair[c]] = 0]
    /\ Go(c, "jitter")
    /\ UNCHANGED <<state, failures, pair, is_trial, up, given, drops>>

\* jitter_secondary reads the second provider's row and saves it drifted.
jitter_secondary(c) ==
    /\ up
    /\ \/ pc[c] = "jitter" /\ Go(c, IF pair[c] \in Seconded THEN "nudge" ELSE "diverge")
       \/ pc[c] = "nudge" /\ Go(c, "diverge")
    /\ UNCHANGED <<state, failures, cache, pair, is_trial, up, given, drops>>

\* check_divergence reads the one rate and then the other, and where both are
\* there and far apart inserts an alert; the request has its live rate.
check_divergence(c) ==
    /\ up
    /\ \/ pc[c] = "diverge" /\ Go(c, "compare")
       \/ pc[c] = "compare" /\ pair[c] \in Seconded /\ Go(c, "alert")
       \/ pc[c] \in {"compare", "alert"} /\ Go(c, "idle")
    /\ UNCHANGED <<state, failures, cache, pair, is_trial, up, given, drops>>

Diverging == {"jitter", "nudge", "diverge", "compare", "alert"}

\* An error of any of these statements fails the request, live rate and all; the
\* breaker does not hear of it.
LiveRateLost(c) ==
    /\ pc[c] \in Diverging
    /\ ~up
    /\ Go(c, "idle")
    /\ UNCHANGED <<state, failures, cache, pair, is_trial, up, given, drops>>

\* Mutant of FetchFails: only a trial's failure opens the breaker.
FetchFailsTrialOnly(c) ==
    /\ pc[c] \in {"fetch", "update"}
    /\ ~up
    /\ failures' = Min({failures + 1, failure_threshold})
    /\ state' = IF is_trial[c] THEN OpenedNow ELSE state
    /\ Go(c, "fallback")
    /\ UNCHANGED <<cache, pair, is_trial, up, given, drops>>

\* Mutant of FetchFails: the counter leaves its range.
FetchFailsUncapped(c) ==
    /\ pc[c] \in {"fetch", "update"}
    /\ ~up
    /\ failures' = failures - 1
    /\ state' = IF is_trial[c] THEN OpenedNow ELSE state
    /\ Go(c, "fallback")
    /\ UNCHANGED <<cache, pair, is_trial, up, given, drops>>

\* op fails, or outlives call_timeout: one step, for the counter's mutex is
\* held while the state is set.
FetchFails(c) ==
    /\ pc[c] \in {"fetch", "update"}
    /\ ~up
    /\ failures' = Min({failures + 1, failure_threshold})
    /\ state' = IF is_trial[c] \/ failures' >= failure_threshold THEN OpenedNow ELSE state
    /\ Go(c, "fallback")
    /\ UNCHANGED <<cache, pair, is_trial, up, given, drops>>

YoungRate(c) == pair[c] \in Quoted /\ cache[pair[c]] <= max_cache_age

\* resolve's error path: the cached rate while it is young enough.
FallBackToCache(c) ==
    /\ pc[c] = "fallback"
    /\ YoungRate(c)
    /\ Go(c, "idle")
    /\ UNCHANGED <<state, failures, cache, pair, is_trial, up, given, drops>>

\* ... else partner_unavailable.
Unavailable(c) ==
    /\ pc[c] = "fallback"
    /\ ~YoungRate(c)
    /\ Go(c, "idle")
    /\ UNCHANGED <<state, failures, cache, pair, is_trial, up, given, drops>>

\* The request is dropped (client gone, enforce_timeout) at an await; in op,
\* call's future ends there, and the breaker never hears of it.
Dropped(c) ==
    /\ pc[c] \in {"fetch", "update"} \cup Diverging
    /\ drops < MaxDrops
    /\ drops' = drops + 1
    /\ Go(c, "idle")
    /\ UNCHANGED <<state, failures, cache, pair, is_trial, up, given>>

Step(c) ==
    \/ \E p \in Pairs : Attempt(c, p) \/ FailFast(c, p)
    \/ current_rate(c) \/ FetchOk(c) \/ Close(c) \/ Store(c) \/ FetchFails(c)
    \/ jitter_secondary(c) \/ check_divergence(c) \/ LiveRateLost(c)
    \/ FallBackToCache(c) \/ Unavailable(c)
-----------------------------------------------------------------------------
Older(ages) == [p \in Quoted |-> Min({ages[p] + 1, Never})]

Tick ==
    /\ state' = IF state.mode = "Open"
                  THEN [state EXCEPT !.elapsed = Min({@ + 1, reset_timeout})]
                  ELSE state
    /\ cache' = Older(cache)
    /\ given' = Older(given)
    /\ UNCHANGED <<failures, pc, pair, is_trial, up, drops>>

FeedChanges ==
    /\ up' = ~up
    /\ UNCHANGED <<state, failures, cache, pc, pair, is_trial, given, drops>>

Init ==
    /\ state = Closed
    /\ failures = 0
    /\ cache = [p \in Quoted |-> Never]
    /\ given = [p \in Quoted |-> Never]
    /\ pc = [c \in Calls |-> "idle"]
    /\ pair \in [Calls -> Quoted]
    /\ is_trial = [c \in Calls |-> FALSE]
    /\ up = TRUE
    /\ drops = 0

Next ==
    \/ \E c \in Calls : Step(c) \/ Dropped(c)
    \/ Tick
    \/ FeedChanges

Spec == Init /\ [][Next]_vars

\* Callers keep calling and their calls end; time passes.
FairSpec == Spec /\ WF_vars(Tick) /\ \A c \in Calls : WF_vars(Step(c))
-----------------------------------------------------------------------------
\* Type invariant of the breaker, the cache and the callers.
TypeOK ==
    /\ state \in {Closed, HalfOpen} \cup [mode : {"Open"}, elapsed : 0 .. reset_timeout]
    /\ failures \in 0 .. failure_threshold
    /\ cache \in [Quoted -> 0 .. Never]
    /\ given \in [Quoted -> 0 .. Never]
    /\ pc \in [Calls -> {"idle", "fetch", "update", "close", "store", "fallback"} \cup Diverging]
    /\ pair \in [Calls -> Pairs]
    /\ is_trial \in [Calls -> BOOLEAN]
    /\ up \in BOOLEAN
    /\ drops \in 0 .. MaxDrops

\* Once the feed stays up, the breaker ends up closed for good, although trial
\* calls may be dropped and failures of earlier calls may still come in.
RecoversOnceFeedIsUp == <>[]up => <>[](state.mode = "Closed")

\* While the feed stays down, the breaker keeps going back to open, although
\* late answers of earlier calls may close it.
TripsWhileFeedDown == <>[]~up => []<>(state.mode = "Open")

\* The caller has been given a rate of p by the feed and is about to cache it.
Caching(c, p) == pair[c] = p /\ pc[c] \in {"close", "store"}

\* "a lone transient failure still gets served (from cache, ...)": nobody is told
\* that a pair is unavailable within max_cache_age of the feed's last rate for it,
\* whoever the feed gave it to and whatever became of that caller later, unless
\* that caller is just now about to cache it. (A caller whose own live rate is
\* lost is not told that, but fails all the same: see LiveRateLost.)
NoOutageWhileFresh ==
    [][\A c \in Calls : Unavailable(c) /\ pair[c] \in Quoted =>
          \/ given[pair[c]] > max_cache_age
          \/ \E d \in Calls : Caching(d, pair[c])]_vars
=============================================================================
