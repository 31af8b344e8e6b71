\* Two workers, three tasks, two of them for the same worker.
SPECIFICATION FairSpec
CONSTANTS
    t1 = t1
    t2 = t2
    t3 = t3
    Task <- MCTask
    TaskId <- MCTaskId
    NoTask = NoTask
    Num = 2
INVARIANTS
    PoolOrder
    StopIsABarrier
    EndsForAReason
PROPERTIES
    StartIsSeen
    TaskIsRun
    StopReturns
    PoolSpec
\* The pool is quiet once it is stopped.
CHECK_DEADLOCK FALSE
