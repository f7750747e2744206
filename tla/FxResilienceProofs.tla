------------------------- MODULE FxResilienceProofs -------------------------
(***************************************************************************)
(* Proofs about FxResilience, for any number of callers and pairs and      *)
(* every threshold, cooldown and cache age.                                *)
(***************************************************************************)
EXTENDS FxResilience, TLAPS

LEMMA MinOfTwo ==
    ASSUME NEW a \in Int, NEW b \in Int
    PROVE  Min({a, b}) = IF a <= b THEN a ELSE b
  <1>1. \E x \in {a, b} : \A y \in {a, b} : x <= y
    OBVIOUS
  <1>2. Min({a, b}) \in {a, b} /\ \A y \in {a, b} : Min({a, b}) <= y
    BY <1>1 DEF Min
  <1> QED BY <1>2

\* Ages stay in their range.
LEMMA OlderTyped ==
    ASSUME NEW ages \in [Quoted -> 0 .. Never]
    PROVE  Older(ages) \in [Quoted -> 0 .. Never]
  <1>1. Never \in Nat
    BY ResilienceAssumption DEF Never
  <1>2. ASSUME NEW p \in Quoted PROVE Min({ages[p] + 1, Never}) \in 0 .. Never
    BY <1>1, MinOfTwo
  <1> QED BY <1>2 DEF Older

\* Whatever rate the feed gave is cached, or a caller is about to cache it.
CacheIsFresh ==
    \A p \in Quoted : cache[p] <= given[p] \/ \E d \in Calls : Caching(d, p)

IInv == TypeOK /\ CacheIsFresh

\* A caller's step, but for what it does to the breaker.
LEMMA StepTyped ==
    ASSUME TypeOK, NEW c \in Calls, Step(c) \/ Dropped(c)
    PROVE  TypeOK'
  <1> DEFINE Places == {"idle", "fetch", "update", "close", "store", "fallback"} \cup Diverging
             Modes == {Closed, HalfOpen} \cup [mode : {"Open"}, elapsed : 0 .. reset_timeout]
  <1>0. /\ state \in Modes /\ failures \in 0 .. failure_threshold /\ drops \in 0 .. MaxDrops
        /\ cache \in [Quoted -> 0 .. Never] /\ given \in [Quoted -> 0 .. Never]
        /\ pc \in [Calls -> Places] /\ pair \in [Calls -> Pairs] /\ is_trial \in [Calls -> BOOLEAN]
        /\ up \in BOOLEAN
    BY DEF TypeOK
  <1>13. {"jitter", "nudge", "diverge", "compare", "alert"} \subseteq Places
    BY DEF Diverging
  <1>1. OpenedNow \in Modes /\ Closed \in Modes /\ HalfOpen \in Modes /\ 0 \in 0 .. Never
    BY ResilienceAssumption DEF OpenedNow, Never
  <1>2. ASSUME NEW to \in Places, Go(c, to), state' \in Modes, failures' \in 0 .. failure_threshold,
               drops' \in 0 .. MaxDrops, cache' \in [Quoted -> 0 .. Never],
               given' \in [Quoted -> 0 .. Never], pair' \in [Calls -> Pairs],
               is_trial' \in [Calls -> BOOLEAN], up' \in BOOLEAN
        PROVE  TypeOK'
    <2>1. pc' \in [Calls -> Places]
      BY <1>0, <1>2 DEF Go
    <2> QED BY <1>2, <2>1 DEF TypeOK
  <1>3. ASSUME NEW p \in Pairs, Attempt(c, p) PROVE TypeOK'
    <2>1. is_trial' = [is_trial EXCEPT ![c] = state.mode # "Closed"]
      BY <1>3 DEF Attempt
    <2>2. (state.mode # "Closed") \in BOOLEAN
      OBVIOUS
    <2>3. is_trial' \in [Calls -> BOOLEAN]
      BY <1>0, <2>1, <2>2
    <2>4. /\ state' \in Modes /\ Go(c, "fetch") /\ pair' \in [Calls -> Pairs]
          /\ UNCHANGED <<failures, cache, up, given, drops>>
      BY <1>0, <1>1, <1>3 DEF Attempt
    <2> QED BY <1>0, <1>2, <2>3, <2>4
  <1>4. ASSUME NEW p \in Pairs, FailFast(c, p) PROVE TypeOK'
    <2>1. /\ Go(c, "fallback") /\ pair' \in [Calls -> Pairs]
          /\ UNCHANGED <<state, failures, cache, is_trial, up, given, drops>>
      BY <1>0, <1>4 DEF FailFast
    <2> QED BY <1>0, <1>2, <2>1
  <1>5. CASE FetchOk(c)
    <2>1. /\ Go(c, "close") /\ failures' = 0 /\ 0 \in 0 .. failure_threshold
          /\ UNCHANGED <<state, cache, pair, is_trial, up, drops>>
      BY <1>5, ResilienceAssumption DEF FetchOk
    <2>2. given' \in [Quoted -> 0 .. Never]
      BY <1>0, <1>1, <1>5 DEF FetchOk
    <2> QED BY <1>0, <1>2, <2>1, <2>2
  <1>6. CASE Close(c)
    <2>1. /\ \E to \in {"store", "idle"} : Go(c, to)
          /\ state' = Closed /\ UNCHANGED <<failures, cache, pair, is_trial, up, given, drops>>
      BY <1>6 DEF Close
    <2> QED BY <1>0, <1>1, <1>2, <2>1
  <1>7. CASE Store(c)
    <2>1. /\ Go(c, "jitter") /\ UNCHANGED <<state, failures, pair, is_trial, up, given, drops>>
          /\ cache' \in [Quoted -> 0 .. Never]
      BY <1>0, <1>1, <1>7 DEF Store
    <2> QED BY <1>0, <1>13, <1>2, <2>1
  <1>8. CASE FetchFails(c)
    <2>1. failures' \in 0 .. failure_threshold
      BY <1>0, <1>8, MinOfTwo, ResilienceAssumption DEF FetchFails
    <2>2. /\ Go(c, "fallback") /\ state' \in Modes
          /\ UNCHANGED <<cache, pair, is_trial, up, given, drops>>
      BY <1>0, <1>1, <1>8 DEF FetchFails
    <2> QED BY <1>0, <1>2, <2>1, <2>2
  <1>9. CASE current_rate(c) \/ jitter_secondary(c) \/ check_divergence(c) \/ LiveRateLost(c)
               \/ FallBackToCache(c) \/ Unavailable(c)
    <2>1. /\ \E to \in {"update", "nudge", "diverge", "compare", "alert", "idle"} : Go(c, to)
          /\ UNCHANGED <<state, failures, cache, pair, is_trial, up, given, drops>>
      BY <1>9 DEF current_rate, jitter_secondary, check_divergence, LiveRateLost,
                  FallBackToCache, Unavailable
    <2> QED BY <1>0, <1>13, <1>2, <2>1
  <1>10. CASE Dropped(c)
    <2>1. /\ Go(c, "idle") /\ drops' \in 0 .. MaxDrops
          /\ UNCHANGED <<state, failures, cache, pair, is_trial, up, given>>
      BY <1>0, <1>10, ResilienceAssumption DEF Dropped
    <2> QED BY <1>0, <1>2, <2>1
  <1> QED BY <1>3, <1>4, <1>5, <1>6, <1>7, <1>8, <1>9, <1>10 DEF Step

\* Ages grow together: what was no older stays no older.
LEMMA OlderKeepsOrder ==
    ASSUME TypeOK, NEW p \in Quoted, cache[p] <= given[p]
    PROVE  Older(cache)[p] <= Older(given)[p]
  <1>1. Never \in Int /\ cache[p] \in Int /\ given[p] \in Int
    BY ResilienceAssumption DEF TypeOK, Never
  <1>2. /\ Older(cache)[p] = Min({cache[p] + 1, Never})
        /\ Older(given)[p] = Min({given[p] + 1, Never})
    BY DEF Older
  <1> QED BY <1>1, <1>2, MinOfTwo

\* A caller's step leaves every rate the feed gave cached, or about to be.
LEMMA StepFresh ==
    ASSUME IInv, NEW c \in Calls, Step(c) \/ Dropped(c)
    PROVE  CacheIsFresh'
  <1> SUFFICES ASSUME NEW p \in Quoted
               PROVE  cache'[p] <= given'[p] \/ \E d \in Calls : Caching(d, p)'
    BY DEF CacheIsFresh
  <1> DEFINE Places == {"idle", "fetch", "update", "close", "store", "fallback"} \cup Diverging
  <1>0. /\ cache[p] <= given[p] \/ \E d \in Calls : Caching(d, p)
        /\ cache \in [Quoted -> 0 .. Never] /\ given \in [Quoted -> 0 .. Never]
        /\ pc \in [Calls -> Places] /\ pair \in [Calls -> Pairs]
    BY DEF IInv, CacheIsFresh, TypeOK
  \* What keeps the ages, and the caller where it is not about to cache.
  <1>1. ASSUME UNCHANGED <<cache, given>>,
               \A d \in Calls : Caching(d, p) => Caching(d, p)'
        PROVE  cache'[p] <= given'[p] \/ \E d \in Calls : Caching(d, p)'
    BY <1>0, <1>1
  <1>2. ASSUME NEW q \in Pairs, Attempt(c, q) \/ FailFast(c, q)
        PROVE  \A d \in Calls : Caching(d, p) => Caching(d, p)'
    BY <1>0, <1>2 DEF Attempt, FailFast, Caching, Go
  <1>3. CASE FetchOk(c)
    <2>1. CASE pair[c] = p
      BY <1>0, <1>3, <2>1 DEF FetchOk, Caching, Go
    <2>2. CASE pair[c] # p
      <3>1. given'[p] = given[p] /\ cache' = cache
        BY <1>3, <2>2 DEF FetchOk
      <3>2. \A d \in Calls : Caching(d, p) => Caching(d, p)'
        BY <1>0, <1>3 DEF FetchOk, Caching, Go
      <3> QED BY <1>0, <3>1, <3>2
    <2> QED BY <2>1, <2>2
  <1>4. CASE Close(c)
    <2>1. \A d \in Calls : Caching(d, p) => Caching(d, p)'
      BY <1>0, <1>4 DEF Close, Caching, Go
    <2> QED BY <1>1, <1>4, <2>1 DEF Close
  <1>5. CASE Store(c)
    <2>1. CASE pair[c] = p
      <3>1. cache'[p] = 0 /\ given'[p] \in 0 .. Never
        BY <1>0, <1>5, <2>1 DEF Store
      <3> QED BY <3>1
    <2>2. CASE pair[c] # p
      <3>1. given' = given /\ cache'[p] = cache[p]
        BY <1>0, <1>5, <2>2 DEF Store
      <3>2. \A d \in Calls : Caching(d, p) => Caching(d, p)'
        BY <1>0, <1>5, <2>2 DEF Store, Caching, Go
      <3> QED BY <1>0, <3>1, <3>2
    <2> QED BY <2>1, <2>2
  <1>6. CASE current_rate(c) \/ FetchFails(c) \/ jitter_secondary(c) \/ check_divergence(c)
               \/ LiveRateLost(c) \/ FallBackToCache(c) \/ Unavailable(c) \/ Dropped(c)
    <2>1. /\ UNCHANGED <<cache, given, pair>>
          /\ pc[c] \notin {"close", "store"}
          /\ \E to \in {"update", "nudge", "diverge", "compare", "alert", "idle", "fallback"} : Go(c, to)
      BY <1>6 DEF current_rate, FetchFails, jitter_secondary, check_divergence, LiveRateLost,
                  FallBackToCache, Unavailable, Dropped, Diverging
    <2>2. \A d \in Calls : Caching(d, p) => Caching(d, p)'
      BY <1>0, <2>1 DEF Caching, Go
    <2> QED BY <1>1, <2>1, <2>2
  <1> QED BY <1>1, <1>2, <1>3, <1>4, <1>5, <1>6 DEF Step, Attempt, FailFast

LEMMA NextTyped == TypeOK /\ [Next]_vars => TypeOK'
  <1> SUFFICES ASSUME TypeOK, [Next]_vars PROVE TypeOK'
    OBVIOUS
  <1>1. CASE \E c \in Calls : Step(c) \/ Dropped(c)
    BY <1>1, StepTyped
  <1>2. CASE Tick
    <2>1. cache' \in [Quoted -> 0 .. Never] /\ given' \in [Quoted -> 0 .. Never]
      BY <1>2, OlderTyped DEF TypeOK, Tick
    <2>2. state' \in {Closed, HalfOpen} \cup [mode : {"Open"}, elapsed : 0 .. reset_timeout]
      <3>1. CASE state.mode = "Open"
        <4>1. state \in [mode : {"Open"}, elapsed : 0 .. reset_timeout]
          BY <3>1 DEF TypeOK, Closed, HalfOpen
        <4>2. Min({state.elapsed + 1, reset_timeout}) \in 0 .. reset_timeout
          BY <4>1, MinOfTwo, ResilienceAssumption
        <4>3. state' = [state EXCEPT !.elapsed = Min({state.elapsed + 1, reset_timeout})]
          BY <1>2, <3>1 DEF Tick
        <4> QED BY <4>1, <4>2, <4>3
      <3>2. CASE state.mode # "Open"
        BY <1>2, <3>2 DEF Tick, TypeOK
      <3> QED BY <3>1, <3>2
    <2> QED BY <1>2, <2>1, <2>2 DEF TypeOK, Tick
  <1>3. CASE FeedChanges
    BY <1>3 DEF TypeOK, FeedChanges
  <1>4. CASE UNCHANGED vars
    BY <1>4 DEF TypeOK, vars
  <1> QED BY <1>1, <1>2, <1>3, <1>4 DEF Next

LEMMA NextInv == IInv /\ [Next]_vars => IInv'
  <1> SUFFICES ASSUME IInv, [Next]_vars PROVE IInv'
    OBVIOUS
  <1>1. TypeOK'
    BY NextTyped DEF IInv
  <1>2. CacheIsFresh'
    <2>1. CASE \E c \in Calls : Step(c) \/ Dropped(c)
      BY <2>1, StepFresh
    <2>2. CASE Tick
      BY <2>2, OlderKeepsOrder DEF IInv, CacheIsFresh, Tick, Caching
    <2>3. CASE FeedChanges \/ UNCHANGED vars
      BY <2>3 DEF IInv, CacheIsFresh, FeedChanges, vars, Caching
    <2> QED BY <2>1, <2>2, <2>3 DEF Next
  <1> QED BY <1>1, <1>2 DEF IInv

LEMMA Invariant == Spec => []IInv
  <1>1. ASSUME Init PROVE IInv
    <2>1. TypeOK
      BY <1>1, ResilienceAssumption DEF Init, TypeOK, Never, Pairs, Closed
    <2>2. \A p \in Quoted : cache[p] = Never /\ given[p] = Never
      BY <1>1 DEF Init
    <2>3. Never \in Int
      BY ResilienceAssumption DEF Never
    <2> QED BY <2>1, <2>2, <2>3 DEF IInv, CacheIsFresh
  <1> QED BY <1>1, NextInv, PTL DEF Spec

\* The breaker's state and counter and the cached ages keep their types for any
\* number of callers, whatever threshold, cooldown and cache age are configured.
THEOREM TypeCorrect == Spec => []TypeOK
  <1>1. IInv => TypeOK
    BY DEF IInv
  <1> QED BY <1>1, Invariant, PTL

\* resolve's fallback: nobody is told that a pair is unavailable within
\* max_cache_age of the feed's last rate for it, although the breaker, the cache
\* and the callers take their mutexes one after the other and the caller the feed
\* answered may be dropped, or lose its rate, right after it cached it.
THEOREM NoOutage == Spec => NoOutageWhileFresh
  <1>1. IInv /\ [Next]_vars =>
            [\A c \in Calls : Unavailable(c) /\ pair[c] \in Quoted =>
                \/ given[pair[c]] > max_cache_age
                \/ \E d \in Calls : Caching(d, pair[c])]_vars
    <2> SUFFICES ASSUME IInv, NEW c \in Calls, Unavailable(c), pair[c] \in Quoted,
                        ~ \E d \in Calls : Caching(d, pair[c])
                 PROVE  given[pair[c]] > max_cache_age
      OBVIOUS
    <2>1. cache[pair[c]] <= given[pair[c]]
      BY DEF IInv, CacheIsFresh
    <2>2. given[pair[c]] \in Int /\ cache[pair[c]] \in Int /\ max_cache_age \in Int
      BY ResilienceAssumption DEF IInv, TypeOK, Never
    <2>3. ~(cache[pair[c]] <= max_cache_age)
      BY DEF Unavailable, YoungRate
    <2> QED BY <2>1, <2>2, <2>3
  <1> QED BY <1>1, Invariant, PTL DEF Spec, NoOutageWhileFresh
=============================================================================
