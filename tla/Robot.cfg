\* The scenes are in MCRobot; time and the calls of Grant as in the traffic
\* limit alone.
SPECIFICATION RobotSpec
CONSTANTS
    Caller = {"group", "private"}
    ConfigInterval <- MCConfigInterval
    ConfigLimit <- MCConfigLimit
    StartTime = 20001
    MaxTime = 20006
    MaxCalls = 7
    MaxSetBack = 2
    Public <- MCPublic
    GroupChat <- MCGroupChat
    Scenes <- MCScenes
    Hash <- MCHash
    NumPush = 4
    NoTask = NoTask
INVARIANTS
    WindowQuota
    OneTipPerWindow
    SlidingBound
    RefusalsJustified
    EveryMessageOnce
    AnswersInOrder
\* The robot waits for the next message.
CHECK_DEADLOCK FALSE
