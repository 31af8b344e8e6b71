\* Two workers, up to three targets, two news: the second news is broadcast
\* while the first is queued, being sent or over.
SPECIFICATION Spec
CONSTANTS
    desk = desk
    g1 = g1
    g2 = g2
    g3 = g3
    Group <- MCGroup
    ConfigForward <- MCConfigForward
    Num = 2
    MaxNews = 2
    MaxTasks = 6
    NoTask = NoTask
    Caller = {"forward", "helper"}
    ConfigInterval <- MCInterval
    ConfigLimit <- MCLimit
    StartTime = 20001
    MaxTime = 20004
    MaxCalls = 1
    MaxSetBack = 1
INVARIANTS
    NewsSpacing
    SendRate
    NullPoolNeverUsed
    EveryTargetOnce
\* The clock and the messages are bounded.
CHECK_DEADLOCK FALSE
