CONSTANTS
    ann = ann
    bob = bob
    cid = cid
    None = None
    Accounts = {ann, bob, cid}
    AddrNum <- MCAddrNum
    ShardNum = 2
    ShardData <- MCShardData
    ShardID = 0
    Init_Balance = 3
    VirtualInit_Balance = 0
    NodeID = 1
    BlockSize = 2
    Txs <- ReplayTxs
    Injections <- NoInjections
    Updates <- MoveHere
    MaxHeight = 2
    MaxTime = 2
SPECIFICATION MovedSpec
INVARIANTS SupplyPreservedBetween ReplayAgreesBetween SupplyNeverGrows
PROPERTY CallsAdvance
