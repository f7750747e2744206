SPECIFICATION FairSpec
CONSTANTS
    c1 = c1
    c2 = c2
    USDNGN = USDNGN
    USDGHS = USDGHS
    USDXXX = USDXXX
    Calls = {c1, c2}
    Quoted = {USDNGN, USDGHS}
    Seconded = {USDNGN}
    Unknown = {USDXXX}
    failure_threshold = 2
    reset_timeout = 2
    max_cache_age = 1
    MaxDrops = 1
INVARIANT
    TypeOK
PROPERTIES
    RecoversOnceFeedIsUp
    TripsWhileFeedDown
    NoOutageWhileFresh
