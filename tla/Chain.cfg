CONSTANTS
    ann = ann
    bob = bob
    cid = cid
    None = None
    Accounts = {ann, bob, cid}
    AddrNum <- MCAddrNum
    ShardNum = 2
    ShardData <- MCShardData
    ShardID = 0
    Init_Balance = 3
    VirtualInit_Balance = 0
    NodeID = 1
    BlockSize = 2
    Txs <- ChainTxs
    Injections <- OneInjection
    Updates <- NoUpdates
    MaxHeight = 2
    MaxTime = 2
SPECIFICATION Spec
INVARIANTS TypeOK NewestComplete ChainIntact HeightImpliesValid CurrentReadable ExecutedRootsDurable AtMostOnce ParentOfInjectionDurable
PROPERTIES TipExtends IsBlockFile
