\* Two workers, three questions: two of one user, answered by one worker, and
\* one of another, answered by the other worker.
SPECIFICATION FairSpec
CONSTANTS
    a1 = a1
    a2 = a2
    b1 = b1
    ann = ann
    bob = bob
    g1 = g1
    Answer <- MCAnswer
    User <- MCUser
    Friend <- MCFriend
    Group <- MCGroup
    UserOf <- MCUserOf
    GroupOf <- MCGroupOf
    Hash <- MCHash
    NoAnswer = NoAnswer
    NoUser = NoUser
    Num = 2
INVARIANTS
    InOnePlace
    NeverNameless
    WaitedInOrder
PROPERTIES
    NotAddedWhileWalked
    NamedIsSent
\* The program is quiet once its questions are answered.
CHECK_DEADLOCK FALSE
