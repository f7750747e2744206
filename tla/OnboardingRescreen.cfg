SPECIFICATION Spec
CONSTANTS
    Submits = {s1, s2}
    Rescreens = {j1}
    Uploads = {}
    Removes = {}
    Businesses <- LowMediumAdverse
    Principals <- CleanOrBvn
    None = None
PROPERTY
    RescreenKeepsStatus
