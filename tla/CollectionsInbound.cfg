SPECIFICATION Spec
CONSTANTS
    ngn = ngn
    replay = replay
    usd = usd
    d1 = d1
    d2 = d2
    k1 = k1
    w1 = w1
    w2 = w2
    Requests = {ngn, replay, usd}
    KeyOf <- Keys
    Receives = {ngn, replay}
    Deposits = {d1, d2}
    MemoOf <- Memos
    NoRequest = NoRequest
    NotRecorded = NotRecorded
    Cancels = {k1}
    Webhooks = {w1, w2}
    NoCall = NoCall
INVARIANTS
    TypeOK
    CancelledIsClosed
    AckedIsCredited
PROPERTY
    InboundLedgerSpec
SYMMETRY Interchangeable
