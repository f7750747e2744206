SPECIFICATION Spec
CONSTANTS
    lockA = lockA
    cancelA = cancelA
    settleB = settleB
    foreign = foreign
    l1 = l1
    l2 = l2
    Listeners = {l1}
    Events = {lockA, cancelA, foreign}
    Ours = {lockA, cancelA}
    Locks = {lockA}
    Cancels = {cancelA}
    TransferOf <- Transfer
    ExpiresAt <- Expiry
    Before <- VaultOrder
    Confirmations = 1
    StartBlock = 1
    MaxRange = 2
    MaxBlocks = 3
    MaxLogs = 2
    ReorgDepth = 2
    MaxReorgs = 1
    MaxFailures = 1
INVARIANT
    CursorBlockProcessed
CHECK_DEADLOCK FALSE
