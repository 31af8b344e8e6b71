\* Two different messages, the second received while the first is handled.
SPECIFICATION Spec
CONSTANTS
    Message = {m1, m2}
    Handler = {autoForward, helper}
    NoMsg = NoMsg
    MaxMsgs = 2
INVARIANT HandlerSeesItsMessage
CHECK_DEADLOCK FALSE
