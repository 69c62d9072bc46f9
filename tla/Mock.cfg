CONSTANTS
    None = None
    t1 = t1
    t2 = t2
    r1 = r1
    r2 = r2
    NodeFiles <- MCNodeFiles
    Shards = {0}
    Requests = {r1, r2}
    Bodies <- MCBodies
    Limit = 1
    MaxHeight = 1
    OldFiles <- MCOldFiles
    MaxStarts = 2
    MaxClicks = 2
SPECIFICATION Spec
INVARIANT MockWhenUnavailable
