CONSTANTS
    t1 = t1
    t2 = t2
    t3 = t3
    None = None
    Txs = {t1, t2, t3}
    Sender <- MCSender
    Shards = {0, 1}
    BlockSize = 1
    MinRelaySize = 1
    MaxRelaySize = 1
    Clients = {"c1"}
    MaxOut = 2
    NewestOnly = TRUE
    MaxRound = 0
SPECIFICATION FairSpec
INVARIANTS TypeOK Conserved
PROPERTIES IsPool OrderKept QueueDrains
\* A write to the nil map ends the process.
CHECK_DEADLOCK FALSE
