CONSTANTS
    Requests <- MCRequests
    Width = 8
SPECIFICATION ParserSpec
INVARIANT DeliversRequest
\* A client that has sent its request sends nothing more.
CHECK_DEADLOCK FALSE
