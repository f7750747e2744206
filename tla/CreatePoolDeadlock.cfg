SPECIFICATION Spec
CONSTANTS
    first = first
    retry = retry
    rival = rival
    second = second
    alice = alice
    NGN = NGN
    q1 = q1
    q2 = q2
    Requests = {first, second}
    RequestOf <- RequestCalls
    QuoteOf <- QuoteTable
    MaxAggregate = 4
    Customers = {alice}
    Limits = {2, 3}
    NoOne = NoOne
    PoolSize = 2
    MaxTime = 1
INVARIANT
    PoolNeverDeadlocked
CHECK_DEADLOCK FALSE
