CONSTANTS
    t1 = t1
    t2 = t2
    t3 = t3
    None = None
    Txs = {t1, t2, t3}
    Sender <- MCSender
    Shards = {0}
    BlockSize = 1
    MinRelaySize = 1
    MaxRelaySize = 1
    Clients = {"c1"}
    MaxOut = 2
    NewestOnly = FALSE
    MaxRound = 1
SPECIFICATION Spec
INVARIANT Conserved
\* A write to the nil map ends the process.
CHECK_DEADLOCK FALSE
