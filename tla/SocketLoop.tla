----------------------------- MODULE SocketLoop -----------------------------
(***************************************************************************)
(* The socket layer of the HTTP server: netlib.cpp, BaseSocket.cpp and     *)
(* the Windows half of EventDispatch.cpp.  A descriptor is a number that   *)
(* the operating system gives out again as soon as it has been closed; the *)
(* map of sockets, the select sets and every CHttpConn name a socket by    *)
(* that number alone.  The operators below are the parts the actions of    *)
(* HttpServer are put together from, one for each netlib call.             *)
(***************************************************************************)
EXTENDS Naturals, FiniteSets

CONSTANTS
    Fd,         \* descriptors the system hands out
    Client,
    None,       \* nobody at the other end: the descriptor is closed
    FdSetSize   \* sockets an fd_set holds, the listening one included

ASSUME SocketAssumption ==
    /\ FdSetSize \in Nat \ {0}
    /\ None \notin Client

VARIABLES
    peer,       \* the client at the other end of each open descriptor
    socketMap,  \* g_socket_map: callback data of the CBaseSocket, 0 if none
    watchRead,  \* m_read_set without the listening socket
    watchWrite  \* m_write_set

SendResult == {"all", "part", "block", "error"}

sockVars == <<peer, socketMap, watchRead, watchWrite>>

SocketInit ==
    /\ peer = [f \in Fd |-> None]
    /\ socketMap = [f \in Fd |-> 0]
    /\ watchRead = {}
    /\ watchWrite = {}

IsOpen(f) == peer[f] # None

\* FD_SET leaves a full set as it is and reports nothing.
FdSet(set, f) ==
    IF Cardinality(set) + 1 < FdSetSize THEN set \cup {f} ELSE set

\* accept, AddBaseSocket and AddEvent(SOCKET_READ) for a new client, then the
\* connect callback, which makes the connection's handle the callback data.
AcceptSocket(f, c, handle) ==
    /\ peer' = [peer EXCEPT ![f] = c]
    /\ socketMap' = [socketMap EXCEPT ![f] = handle]
    /\ watchRead' = FdSet(watchRead, f)
    /\ UNCHANGED watchWrite

\* netlib_send: nothing is sent to a descriptor without a registered socket;
\* otherwise the system takes all of it, a part, none for now, or fails.
SendResults(f) ==
    IF socketMap[f] = 0 THEN {"error"} ELSE SendResult

\* CBaseSocket::Send asks for a write event only when nothing was taken.
SendSocket(f, result) ==
    /\ result \in SendResults(f)
    /\ watchWrite' = IF result = "block" THEN watchWrite \cup {f} ELSE watchWrite
    /\ UNCHANGED <<peer, socketMap, watchRead>>

\* netlib_close and CBaseSocket::Close: the read bit goes, the socket leaves
\* the map, the descriptor is free.
RemoveSocket(f) ==
    IF socketMap[f] = 0
    THEN UNCHANGED <<peer, socketMap, watchRead>>
    ELSE /\ watchRead' = watchRead \ {f}
         /\ socketMap' = [socketMap EXCEPT ![f] = 0]
         /\ peer' = [peer EXCEPT ![f] = None]

\* SOCKET_CLOSE is 0x9: the read bit and a bit RemoveEvent does not know, so
\* the write set keeps the descriptor.
CloseSocket(f) == RemoveSocket(f) /\ UNCHANGED watchWrite

\* select fails with WSAENOTSOCK as long as one watched descriptor is closed.
StaleWatch == \E f \in watchRead \cup watchWrite : ~IsOpen(f)
=============================================================================
