SPECIFICATION FairSpec
CONSTANTS
    Submits = {s1, s2}
    Rescreens = {j1}
    Uploads = {u1, u2}
    Removes = {r1}
    Businesses <- LowMediumAdverse
    Principals <- CleanOrBvn
    None = None
INVARIANTS
    TypeOK
    StatusMatchesDecision
    LimitMatchesRating
    DocumentHasFile
PROPERTY
    ReviewEnds
