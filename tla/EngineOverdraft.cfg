SPECIFICATION Spec
CONSTANTS
    t1 = t1
    t2 = t2
    USD = USD
    NGN = NGN
    Transfers = {t1, t2}
    Accounts = {USD, NGN}
    Send <- MCSend
    Recv <- MCRecv
    SendAccount <- SameSendAccount
    RecvAccount <- SameRecvAccount
    Opening <- MCOpening
    Watchlisted = {}
    Threshold = 4
    AutoAdvance = TRUE
CHECK_DEADLOCK FALSE
INVARIANT
    NoOverdraft
