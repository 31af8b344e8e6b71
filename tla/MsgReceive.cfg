\* Two handlers, three messages of two kinds: the third message is received
\* while the first is handled or while the second is stranded.
SPECIFICATION FairSpec
CONSTANTS
    Message = {m1, m2}
    Handler = {autoForward, helper}
    NoMsg = NoMsg
    MaxMsgs = 3
INVARIANTS
    EveryHandlerEveryRound
    NoStaleMessage
PROPERTIES
    NotifiedWaiterDrains
    ChannelSpec
\* The program stops when no message comes: the consumer waits for ever.
CHECK_DEADLOCK FALSE
