SPECIFICATION BridgeSpec
CONSTANTS
    Friend <- MCFriend
    Shortened <- MCShortened
    NoText = NoText
    Junk = Junk
    AtText = "@p3 hello"
    Group <- MCGroup
    GroupOf <- MCGroupOf
    Other = "bob"
    Typed <- MCTyped
    LengthOf <- MCLengthOf
    me1 = me1
    me2 = me2
    Account <- MCAccount
    NoRoom = NoRoom
    Worker <- MCWorker
    Contact <- MCContact
    WorkerOf <- MCWorkerOf
    Url <- MCUrl
    File <- MCFile
    FileOf <- MCFileOf
    Idle = Idle
    MaxMessages = 4
    MaxTime = 2
    MaxExtra = 1
    NoSave = NoSave
    Scenes <- MCScenes
    ApiCommand <- MCApiCommand
    TuLing = "tuling"
SYMMETRY MCSymmetry
INVARIANTS
    StuckForAReason
    FriendsKept
    CommandDone
    RowsAreMembers
    KnowsItself
    OwnWholeFile
    PictureOfTheSecond
    LostForAReason
\* Every scene comes to an end.
CHECK_DEADLOCK FALSE
