SPECIFICATION FairFlowSpec
CONSTANTS
    t1 = t1
    t2 = t2
    USD = USD
    NGN = NGN
    Transfers = {t1, t2}
    Accounts = {USD, NGN}
    Send <- MCSend
    Recv <- MCRecv
    SendAccount <- CrossSendAccount
    RecvAccount <- CrossRecvAccount
    Opening <- MCOpening
    Watchlisted = {t2}
    Threshold = 4
    Ordered = {t1}
    AutoAdvance = TRUE
CHECK_DEADLOCK FALSE
INVARIANTS
    FlowTypeOK
    MoneyFollowsStatus
    HistoryIsPath
    HoldRespected
    ParkedKnown
    OrderedNeverIgnored
    BooksFollowChain
PROPERTIES
    ClosedIsFinal
    MoneyFlowSpec
    CreatedCompletes
    SettledIsSeen
