CONSTANTS
    p1 = p1
    p2 = p2
    t1 = t1
    t2 = t2
    NoThread = NoThread
    NoProc = NoProc
    Procs <- MCProcs
    Threads <- MCThreads
    MaxExp = 2
    MaxCnt = 2
    Leftovers <- MCLeftovers
SPECIFICATION Spec
INVARIANTS ListedAreOwn StoreLifetime
PROPERTY IdsRefined
