SPECIFICATION FairSpec
CONSTANTS
    buy = buy
    replay = replay
    rival = rival
    convert = convert
    debit = debit
    Calls = {buy, replay, rival, convert}
    KeyOf <- Keys
    KindOf <- Kinds
    AmountOf <- Amounts
    Rates = {2, 3}
    RATE_SCALE = 2
    I64 = 128
    USDC_PER_CENT = 4
    CENTS = 10
    Scales = {1, 10}
    RECEIVE_DIVISOR = 80
    MAX_RATE_E8 = 100
    U64_MAX = 255
    U256_MAX = 65535
    Err = Err
    Postings = {debit}
    PostingOf <- PostingAmounts
    Opening <- Balances
    NoCall = NoCall
INVARIANTS
    TypeOK
    RunningBalances
PROPERTIES
    WalletBookSpec
    EveryCallAnswered
CHECK_DEADLOCK FALSE
