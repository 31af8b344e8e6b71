\* One handler, two messages: enough for a message that is pushed when the
\* consumer has found the queue empty and does not wait yet.
SPECIFICATION FairSpec
CONSTANTS
    Message = {m1}
    Handler = {helper}
    NoMsg = NoMsg
    MaxMsgs = 2
PROPERTY EveryMessageHandled
CHECK_DEADLOCK FALSE
