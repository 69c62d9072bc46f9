CONSTANTS
    ann = ann
    bob = bob
    cid = cid
    None = None
    Accounts = {ann, bob, cid}
    AddrNum <- MCAddrNum
    ShardNum = 2
    ShardData <- MCShardData
    ShardID = 0
    Init_Balance = 3
    VirtualInit_Balance = 0
    NodeID = 0
    BlockSize = 2
    Txs <- OneTx
    Injections <- NoInjections
    Updates <- MoveHere
    MaxHeight = 2
    MaxTime = 1
SPECIFICATION Spec
INVARIANT SupplyPreserved
