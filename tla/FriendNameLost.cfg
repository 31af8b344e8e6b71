\* One friend, who asks a question before his entry of the friend list comes.
SPECIFICATION Spec
CONSTANTS
    a1 = a1
    a2 = a2
    b1 = b1
    ann = ann
    bob = bob
    g1 = g1
    Answer <- MCAnswer
    User <- MCUser
    Friend <- MCFriend
    Group <- MCGroup
    UserOf <- MCUserOf
    GroupOf <- MCGroupOf
    Hash <- MCHash
    NoAnswer = NoAnswer
    NoUser = NoUser
    Num = 2
INVARIANT FriendNameKept
CHECK_DEADLOCK FALSE
