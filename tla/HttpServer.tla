----------------------------- MODULE HttpServer -----------------------------
(***************************************************************************)
(* The HTTP server of the robot: CHttpServer, the CHttpConn connections,   *)
(* the event loop of EventDispatch.cpp and the requests for the members of *)
(* a group, which another thread answers.                                  *)
(*                                                                         *)
(* Four threads: "loop" is CHttpServer::m_loop, which accepts, reads and   *)
(* answers; "queue" is m_groupQueueService, which runs the callbacks of    *)
(* the group tasks in the order they were handed on; the UI thread takes   *)
(* the messages of the helper; the main thread starts and stops the        *)
(* server.  Loop and queue send to and close sockets without a lock.       *)
(*                                                                         *)
(* The HTTP parser is the module HttpParser: here a request is complete    *)
(* with its last piece.  CHttpConn::OnTimer has no action: _CheckTimer     *)
(* walks m_timer_list, which nothing fills, and never the tree in which    *)
(* init_http_conn has registered its timer.                                *)
(*                                                                         *)
(* Loop and queue are threads of common_thread, born before their m_exec   *)
(* and m_runFlag are set: either may end before start() is called for it   *)
(* (module ThreadPool has the race), and nothing starts it again.          *)
(***************************************************************************)
EXTENDS SocketLoop, GroupMembers, HttpHandlers

CONSTANTS
    Request,   \* [url, body, pieces, extra]: what a client may ask for
    Asking,    \* who may ask for what at the same time; the others stay away
    NoJob      \* no connection is being answered

VARIABLES
    request,   \* what each client asks for
    client,    \* how far each client is: "new", "backlog" or "in"
    sent,      \* pieces each client has sent
    hungUp,    \* the clients that have closed their side
    conns,     \* the CHttpConn objects, by m_conn_handle; none is deleted
    connMap,   \* g_http_conn_map
    pc, job,   \* of both threads: the next step, the handle being answered
    readReady, writeReady,  \* the sets select has returned
    running,   \* CEventDispatch::running
    runFlag,   \* m_runFlag of m_loop
    phase,     \* of the main thread
    ran        \* history: the group tasks run and deleted

connVars == <<conns, connMap>>
clientVars == <<request, client, sent, hungUp>>
readyVars == <<readReady, writeReady>>
mainVars == <<running, runFlag, phase>>
vars == <<sockVars, groupVars, connVars, clientVars, readyVars, mainVars, pc,
          job, ran>>

Thread == {"loop", "queue"}
Handle == 1 .. Len(conns)
Replying == {"send", "close1", "close2"}
LoopLoc == {"while", "enter", "select", "accept", "read", "walking",
            "walked", "write", "exited"}
Building == {"building", "bound"}
Phase == Building \cup {"starting", "serving", "stop", "flag", "join", "joined"}

\* CHttpServer's constructor has begun m_loop's thread.  The queue's, born with
\* CGroupTaskMgr, is shown as it is once the first task has come: started in
\* time, or ended.
HttpInit ==
    /\ SocketInit /\ GroupInit
    /\ request \in Asking
    /\ client = [c \in Client |-> "new"]
    /\ sent = [c \in Client |-> 0]
    /\ hungUp = {}
    /\ conns = <<>> /\ connMap = {}
    /\ \E queueLoc \in {"idle", "exited"} :
           pc = [t \in Thread |-> IF t = "loop" THEN "while" ELSE queueLoc]
    /\ job = [t \in Thread |-> NoJob]
    /\ readReady = {} /\ writeReady = {}
    /\ running = FALSE /\ runFlag \in BOOLEAN
    /\ phase = "building"
    /\ ran = {}

Goto(t, loc) == pc' = [pc EXCEPT ![t] = loc]

\* CHttpConn::Close: a second call erases nothing, but closes the descriptor
\* whoever it belongs to by then.
Close(h) ==
    /\ connMap' = connMap \ {h}
    /\ CloseSocket(conns[h].fd)

-----------------------------------------------------------------------------
\* The clients.  What they do on a connection that is closed, or after the
\* robot has begun to stop, is left out: nobody looks at it.

Gone(c) == client[c] = "in" /\ \A f \in Fd : peer[f] # c
Talks(c) == phase = "serving" /\ client[c] # "new" /\ c \notin hungUp /\ ~Gone(c)

Connect(c) ==
    /\ phase = "serving" /\ client[c] = "new" /\ c \in DOMAIN request
    /\ client' = [client EXCEPT ![c] = "backlog"]
    /\ UNCHANGED <<sockVars, groupVars, connVars, request, sent, hungUp,
                   readyVars, mainVars, pc, job, ran>>

SendPiece(c) ==
    /\ Talks(c)
    /\ sent[c] < request[c].pieces + request[c].extra
    /\ sent' = [sent EXCEPT ![c] = @ + 1]
    /\ UNCHANGED <<sockVars, groupVars, connVars, request, client, hungUp,
                   readyVars, mainVars, pc, job, ran>>

HangUp(c) ==
    /\ Talks(c)
    /\ hungUp' = hungUp \cup {c}
    /\ UNCHANGED <<sockVars, groupVars, connVars, request, client, sent,
                   readyVars, mainVars, pc, job, ran>>

-----------------------------------------------------------------------------
\* The event loop.

\* The thread ends when its wait does, flag or no flag.
EndAtTimeout ==
    /\ pc["loop"] = "while"
    /\ Goto("loop", "exited")
    /\ runFlag' = FALSE
    /\ UNCHANGED <<sockVars, groupVars, connVars, clientVars, readyVars,
                   running, phase, job, ran>>

\* The while of common_thread::run: the thread ends without the flag, and where
\* m_exec is not yet set.  It comes here first at any time, for its wait ends
\* after five seconds, flag or no flag.
LoopWhile ==
    /\ pc["loop"] = "while"
    /\ runFlag' = (runFlag /\ phase # "building")
    /\ Goto("loop", IF runFlag' THEN "enter" ELSE "exited")
    /\ UNCHANGED <<sockVars, groupVars, connVars, clientVars, readyVars,
                   running, phase, job, ran>>

\* StartDispatch up to its while; no second thread ever calls it.
StartDispatch ==
    /\ pc["loop"] = "enter"
    /\ running' = TRUE
    /\ Goto("loop", "select")
    /\ UNCHANGED <<sockVars, groupVars, connVars, clientVars, readyVars,
                   runFlag, phase, job, ran>>

LeaveDispatch ==
    /\ pc["loop"] = "select" /\ ~running
    /\ Goto("loop", "while")
    /\ UNCHANGED <<sockVars, groupVars, connVars, clientVars, readyVars,
                   mainVars, job, ran>>

Backlog == {c \in Client : client[c] = "backlog"}

Unread(f) ==
    IsOpen(f) /\ socketMap[f] # 0 /\ sent[peer[f]] > conns[socketMap[f]].got

Readable == {f \in watchRead : Unread(f) \/ peer[f] \in hungUp}

\* One pass of the while, up to select.  Passes in which select fails or
\* returns nothing change no state.
Select ==
    /\ pc["loop"] = "select" /\ running
    /\ ~StaleWatch
    /\ Backlog # {} \/ Readable # {} \/ watchWrite # {}
    /\ readReady' = Readable
    /\ writeReady' = watchWrite
    /\ Goto("loop", IF Backlog # {} THEN "accept" ELSE "read")
    /\ UNCHANGED <<sockVars, groupVars, connVars, clientVars, mainVars, job,
                   ran>>

\* The handle is taken before the generator is incremented.
AcceptLast(c, f) ==
    /\ pc["loop"] = "accept"
    /\ c \in Backlog /\ ~IsOpen(f)
    /\ conns' = Append(conns, [client |-> c, fd |-> f, got |-> 0, busy |-> FALSE])
    /\ connMap' = connMap \cup {Len(conns) + 1}
    /\ AcceptSocket(f, c, Len(conns))
    /\ client' = [client EXCEPT ![c] = "in"]
    /\ UNCHANGED <<groupVars, request, sent, hungUp, readyVars, mainVars, pc,
                   job, ran>>

\* A thread of its own accepts the clients.
AcceptBeside(c, f) ==
    /\ c \in Backlog /\ ~IsOpen(f)
    /\ conns' = Append(conns, [client |-> c, fd |-> f, got |-> 0, busy |-> FALSE])
    /\ connMap' = connMap \cup {Len(conns) + 1}
    /\ AcceptSocket(f, c, Len(conns) + 1)
    /\ client' = [client EXCEPT ![c] = "in"]
    /\ UNCHANGED <<groupVars, request, sent, hungUp, readyVars, mainVars, pc,
                   job, ran>>

\* One turn of _AcceptNewSocket, http_callback and CHttpConn::OnConnect.
Accept(c, f) ==
    /\ pc["loop"] = "accept"
    /\ c \in Backlog /\ ~IsOpen(f)
    /\ conns' = Append(conns, [client |-> c, fd |-> f, got |-> 0, busy |-> FALSE])
    /\ connMap' = connMap \cup {Len(conns) + 1}
    /\ AcceptSocket(f, c, Len(conns) + 1)
    /\ client' = [client EXCEPT ![c] = "in"]
    /\ UNCHANGED <<groupVars, request, sent, hungUp, readyVars, mainVars, pc,
                   job, ran>>

AcceptEnd ==
    /\ pc["loop"] = "accept"
    /\ Backlog = {} \/ \A f \in Fd : IsOpen(f)
    /\ Goto("loop", "read")
    /\ UNCHANGED <<sockVars, groupVars, connVars, clientVars, readyVars,
                   mainVars, job, ran>>

ReadEnd ==
    /\ pc["loop"] = "read" /\ readReady = {}
    /\ Goto("loop", IF writeReady = {} THEN "select" ELSE "write")
    /\ UNCHANGED <<sockVars, groupVars, connVars, clientVars, readyVars,
                   mainVars, job, ran>>

\* A ready descriptor closed by the queue thread in the meantime.
ReadClosed(f) ==
    /\ pc["loop"] = "read" /\ f \in readReady
    /\ socketMap[f] = 0
    /\ readReady' = readReady \ {f}
    /\ UNCHANGED <<sockVars, groupVars, connVars, clientVars, writeReady,
                   mainVars, pc, job, ran>>

\* CBaseSocket::OnRead without data: the client has hung up, or the
\* descriptor is a new client's by now.
ReadNothing(f) ==
    /\ pc["loop"] = "read" /\ f \in readReady
    /\ socketMap[f] # 0 /\ ~Unread(f)
    /\ Close(socketMap[f])
    /\ readReady' = readReady \ {f}
    /\ UNCHANGED <<groupVars, conns, clientVars, writeReady, mainVars, pc, job,
                   ran>>

Asked(h) == request[conns[h].client]
GroupOf(h) == Asked(h).body.has["wxGroupId"]

\* An incomplete request waits for the rest.
WaitForMore(h, got) ==
    LET r == Asked(h)
    IN  IF got < r.pieces THEN "silent"
        ELSE HandleRequest(r.url, r.body, status)

\* What becomes of the request on connection h once got pieces have arrived:
\* an incomplete or unknown one is closed at once.
WhatBecomes(h, got) ==
    LET r == Asked(h)
    IN  IF got < r.pieces THEN "unknown"
        ELSE HandleRequest(r.url, r.body, status)

\* CHttpConn::OnRead takes all there is and handles it; m_in_buf is never
\* emptied, so a piece that comes later has the request handled again.  For
\* members it adds a task, then SendGroupMemberRequest has the helper walk
\* over the group, which ends without a report if no member dialog is open.
OnRead(f) ==
    LET h == socketMap[f]
        got == sent[peer[f]]
        o == WhatBecomes(h, got)
    IN  /\ pc["loop"] = "read" /\ f \in readReady
        /\ h # 0 /\ Unread(f)
        /\ readReady' = readReady \ {f}
        /\ conns' = [conns EXCEPT ![h].got = got]
        /\ \/ /\ o = "unknown"
              /\ Close(h)
              /\ UNCHANGED <<groupVars, pc, job>>
           \/ /\ o = "silent"
              /\ UNCHANGED <<sockVars, groupVars, connMap, pc, job>>
           \/ /\ o = "reply"
              /\ Goto("loop", "send")
              /\ job' = [job EXCEPT !["loop"] = h]
              /\ UNCHANGED <<sockVars, groupVars, connMap>>
           \/ /\ o = "members"
              /\ AddGroupTask(GroupOf(h), <<h, got>>)
              /\ IF dialogOpen
                 THEN /\ Goto("loop", "walking")
                      /\ job' = [job EXCEPT !["loop"] = h]
                 ELSE UNCHANGED <<pc, job>>
              /\ UNCHANGED <<sockVars, connMap>>
        /\ UNCHANGED <<clientVars, writeReady, mainVars, ran>>

\* The walk waits for a window that is gone.
WalkWaits ==
    /\ pc["loop"] = "walked" /\ uiGroup = NoGroup
    /\ Goto("loop", "read")
    /\ job' = [job EXCEPT !["loop"] = NoJob]
    /\ UNCHANGED <<sockVars, groupVars, connVars, clientVars, readyVars,
                   mainVars, ran>>

\* The UI thread has handled the report, or its window is gone.
WalkEnd ==
    /\ \/ pc["loop"] = "walked" /\ uiGroup = NoGroup
       \/ pc["loop"] = "walking" /\ phase # "serving"
    /\ Goto("loop", "read")
    /\ job' = [job EXCEPT !["loop"] = NoJob]
    /\ UNCHANGED <<sockVars, groupVars, connVars, clientVars, readyVars,
                   mainVars, ran>>

\* CBaseSocket::OnWrite stops watching; CHttpConn::OnWrite sends what is left
\* of a busy connection and closes it when all has gone.
OnWrite(f) ==
    LET h == socketMap[f]
    IN  /\ pc["loop"] = "write" /\ f \in writeReady
        /\ writeReady' = writeReady \ {f}
        /\ \/ h = 0 /\ UNCHANGED <<sockVars, connVars>>
           \/ /\ h # 0
              /\ h \notin connMap \/ ~conns[h].busy
              /\ watchWrite' = watchWrite \ {f}
              /\ UNCHANGED <<peer, socketMap, watchRead, connVars>>
           \/ /\ h \in connMap /\ conns[h].busy
              /\ \E result \in SendResult \ {"all"} :
                     watchWrite' = IF result = "block" THEN watchWrite
                                   ELSE watchWrite \ {f}
              /\ UNCHANGED <<peer, socketMap, watchRead, connVars>>
           \/ /\ h \in connMap /\ conns[h].busy
              /\ watchWrite' = watchWrite \ {f}
              /\ RemoveSocket(f)
              /\ connMap' = connMap \ {h}
              /\ conns' = [conns EXCEPT ![h].busy = FALSE]
        /\ UNCHANGED <<groupVars, clientVars, readReady, mainVars, pc, job, ran>>

WriteEnd ==
    /\ pc["loop"] = "write" /\ writeReady = {}
    /\ Goto("loop", "select")
    /\ UNCHANGED <<sockVars, groupVars, connVars, clientVars, readyVars,
                   mainVars, job, ran>>

-----------------------------------------------------------------------------
\* A reply, in the loop thread or in the queue thread.

\* CHttpConn::Send: a busy connection keeps the bytes for OnWrite.
SendReply(t) ==
    LET h == job[t]
    IN  /\ pc[t] = "send"
        /\ \/ /\ conns[h].busy
              /\ Goto(t, "close2")
              /\ UNCHANGED <<sockVars, conns>>
           \/ /\ ~conns[h].busy
              /\ \E result \in SendResults(conns[h].fd) :
                     /\ SendSocket(conns[h].fd, result)
                     /\ conns' = [conns EXCEPT ![h].busy = result # "all"]
                     /\ Goto(t, IF result = "all" THEN "close1" ELSE "close2")
        /\ UNCHANGED <<groupVars, connMap, clientVars, readyVars, mainVars, job,
                       ran>>

\* OnWriteComplete closes the connection ...
CloseWritten(t) ==
    /\ pc[t] = "close1"
    /\ Close(job[t])
    /\ Goto(t, "close2")
    /\ UNCHANGED <<groupVars, conns, clientVars, readyVars, mainVars, job, ran>>

\* ... and SendJson closes it again, or with the rest of the reply unsent.
CloseReplied(t) ==
    /\ pc[t] = "close2"
    /\ Close(job[t])
    /\ Goto(t, IF t = "loop" THEN "read" ELSE "idle")
    /\ job' = [job EXCEPT ![t] = NoJob]
    /\ UNCHANGED <<groupVars, conns, clientVars, readyVars, mainVars, ran>>

\* The queue thread runs the callback of a group task; _sendJson looks for
\* the connection and drops the answer when it is closed.
RunGroupTask ==
    /\ pc["queue"] = "idle" /\ queue # <<>>
    /\ LET h == Head(queue)[1]
       IN  IF h \in connMap
           THEN /\ Goto("queue", "send")
                /\ job' = [job EXCEPT !["queue"] = h]
           ELSE UNCHANGED <<pc, job>>
    /\ queue' = Tail(queue)
    /\ ran' = ran \cup {Head(queue)}
    /\ UNCHANGED <<sockVars, pending, status, dialogOpen, uiGroup, connVars,
                   clientVars, readyVars, mainVars>>

-----------------------------------------------------------------------------
\* The UI thread.

\* The report of the walk that the loop thread waits for ...
UiWalkDone ==
    /\ phase = "serving" /\ pc["loop"] = "walking"
    /\ MembersDone(GroupOf(job["loop"]))
    /\ Goto("loop", "walked")
    /\ UNCHANGED <<sockVars, connVars, clientVars, readyVars, mainVars, job, ran>>

\* ... or of one that the user's member dialog has begun.
UiDialogDone(g) ==
    /\ phase = "serving" /\ dialogOpen
    /\ MembersDone(g)
    /\ UNCHANGED <<sockVars, connVars, clientVars, readyVars, mainVars, pc, job,
                   ran>>

UiErase ==
    /\ EraseGroup
    /\ UNCHANGED <<sockVars, connVars, clientVars, readyVars, mainVars, pc, job,
                   ran>>

UiDialog ==
    /\ phase = "serving" /\ uiGroup = NoGroup
    /\ ToggleDialog
    /\ UNCHANGED <<sockVars, connVars, clientVars, readyVars, mainVars, pc, job,
                   ran>>

-----------------------------------------------------------------------------
\* The main thread.

\* CHttpServer's constructor sets m_exec ...
SetExec ==
    /\ phase = "building"
    /\ phase' = "bound"
    /\ UNCHANGED <<sockVars, groupVars, connVars, clientVars, readyVars, running,
                   runFlag, pc, job, ran>>

\* ... and starts the thread.
StartLoop ==
    /\ phase = "bound"
    /\ runFlag' = TRUE
    /\ phase' = "starting"
    /\ UNCHANGED <<sockVars, groupVars, connVars, clientVars, readyVars, running,
                   pc, job, ran>>

\* CHttpServer::Start listens, or fails on its address; then InitInstance
\* returns and the destructor stops the server.
Start ==
    /\ phase = "starting"
    /\ phase' \in {"serving", "stop"}
    /\ UNCHANGED <<sockVars, groupVars, connVars, clientVars, readyVars, running,
                   runFlag, pc, job, ran>>

\* The main window is closed: the dialogs are gone.
CloseWindow ==
    /\ phase = "serving" /\ uiGroup = NoGroup
    /\ phase' = "stop"
    /\ dialogOpen' = FALSE
    /\ UNCHANGED <<sockVars, pending, status, queue, uiGroup, connVars,
                   clientVars, readyVars, running, runFlag, pc, job, ran>>

\* CHttpServer::Stop: netlib_stop_event ...
StopDispatch ==
    /\ phase = "stop"
    /\ running' = FALSE
    /\ phase' = "flag"
    /\ UNCHANGED <<sockVars, groupVars, connVars, clientVars, readyVars, runFlag,
                   pc, job, ran>>

\* ... and common_thread::stop, which joins the thread.
StopThread ==
    /\ phase = "flag"
    /\ runFlag' = FALSE
    /\ phase' = "join"
    /\ UNCHANGED <<sockVars, groupVars, connVars, clientVars, readyVars, running,
                   pc, job, ran>>

Join ==
    /\ phase = "join" /\ pc["loop"] = "exited"
    /\ phase' = "joined"
    /\ UNCHANGED <<sockVars, groupVars, connVars, clientVars, readyVars, running,
                   runFlag, pc, job, ran>>

-----------------------------------------------------------------------------
ClientNext == \E c \in Client : Connect(c) \/ SendPiece(c) \/ HangUp(c)

LoopNext ==
    \/ LoopWhile \/ StartDispatch \/ LeaveDispatch \/ Select
    \/ \E c \in Client, f \in Fd : Accept(c, f)
    \/ AcceptEnd
    \/ \E f \in Fd : ReadClosed(f) \/ ReadNothing(f) \/ OnRead(f)
    \/ ReadEnd \/ WalkEnd
    \/ \E f \in Fd : OnWrite(f)
    \/ WriteEnd
    \/ SendReply("loop") \/ CloseWritten("loop") \/ CloseReplied("loop")

QueueNext ==
    RunGroupTask \/ SendReply("queue") \/ CloseWritten("queue")
    \/ CloseReplied("queue")

UiNext == UiWalkDone \/ UiErase \/ UiDialog \/ \E g \in Group : UiDialogDone(g)

MainNext ==
    SetExec \/ StartLoop \/ Start \/ CloseWindow \/ StopDispatch \/ StopThread
    \/ Join

Next == ClientNext \/ LoopNext \/ QueueNext \/ UiNext \/ MainNext

\* The threads go on with what they have begun; clients, the user and the
\* moment the robot is closed are free.
Fairness ==
    /\ WF_vars(LoopNext) /\ WF_vars(QueueNext)
    /\ WF_vars(UiWalkDone \/ UiErase)
    /\ WF_vars(SetExec \/ StartLoop \/ Start \/ StopDispatch \/ StopThread \/ Join)

Spec == HttpInit /\ [][Next]_vars /\ Fairness

-----------------------------------------------------------------------------
ASSUME HttpAssumption ==
    /\ \A r \in Request :
           /\ r.pieces \in Nat \ {0} /\ r.extra \in Nat
           /\ r.body.json /\ "wxGroupId" \in DOMAIN r.body.has =>
                  r.body.has["wxGroupId"] \in Group
    /\ Asking \subseteq UNION {[C -> Request] : C \in SUBSET Client}
    /\ NoJob \notin Nat
    /\ NoGroup \notin Group

Task == Nat \X Nat

\* Type invariant.
HttpTypeOK ==
    /\ peer \in [Fd -> Client \cup {None}]
    /\ socketMap \in [Fd -> 0 .. Len(conns)]
    /\ watchRead \subseteq Fd /\ watchWrite \subseteq Fd
    /\ pending \in [Group -> Seq(Task)]
    /\ status \in [Group -> BOOLEAN]
    /\ queue \in Seq(Task)
    /\ dialogOpen \in BOOLEAN
    /\ uiGroup \in Group \cup {NoGroup}
    /\ request \in Asking
    /\ client \in [Client -> {"new", "backlog", "in"}]
    /\ sent \in [Client -> Nat]
    /\ hungUp \subseteq Client
    /\ conns \in Seq([client : Client, fd : Fd, got : Nat, busy : BOOLEAN])
    /\ connMap \subseteq Handle
    /\ pc \in [Thread -> LoopLoc \cup Replying \cup {"idle"}]
    /\ job \in [Thread -> Handle \cup {NoJob}]
    /\ readReady \subseteq Fd /\ writeReady \subseteq Fd
    /\ running \in BOOLEAN /\ runFlag \in BOOLEAN
    /\ phase \in Phase
    /\ ran \subseteq Task

\* The descriptor on which thread t is sending or which it is closing is
\* still the one of the client it answers, or nobody's.
RepliesToOwner(t) ==
    pc[t] \in Replying =>
        peer[conns[job[t]].fd] \in {conns[job[t]].client, None}

\* The event loop never answers or closes another client's connection, though
\* descriptors are reused and the queue thread closes them at any time.
LoopRepliesToOwner == RepliesToOwner("loop")

\* No thread does: what the comment at HttpConn.cpp:41 says of the handles.
OwnSocketOnly == \A t \in Thread : RepliesToOwner(t)

\* Every open socket leads to a connection that is still in the map and was
\* made for it: an event on it reaches the right CHttpConn, and no close
\* leaves a socket behind that nobody will ever close.
NoOrphanSocket ==
    \A f \in Fd : IsOpen(f) =>
        /\ socketMap[f] \in connMap
        /\ conns[socketMap[f]].fd = f
        /\ conns[socketMap[f]].client = peer[f]

\* A group task is run and deleted once: none is queued twice, queued again
\* after its run, or left in the map for a later walk to queue once more.
TaskRunOnce ==
    /\ \A i, j \in 1 .. Len(queue) : queue[i] = queue[j] => i = j
    /\ \A i \in 1 .. Len(queue) : queue[i] \notin ran
    /\ \A g \in Group \ {uiGroup} : \A i \in 1 .. Len(pending[g]) :
           /\ pending[g][i] \notin ran
           /\ \A j \in 1 .. Len(queue) : pending[g][i] # queue[j]

\* The loop has yet to read what client c has sent, and will answer or refuse
\* it by itself: for members, because the group is known by now.
Direct(c) ==
    /\ \/ c \in Backlog /\ sent[c] > 0
       \/ \E f \in Fd : peer[f] = c /\ Unread(f)
    /\ HandleRequest(request[c].url, request[c].body, status)
           \in {"reply", "unknown"}

Unwatched(c) == \E f \in Fd \ watchRead : peer[f] = c

\* The loop's thread ends only where start() comes too late for it, before the
\* server listens, or after stop() has reset its flag: never while it serves.
LoopOutlivesServer ==
    [][pc'["loop"] = "exited" /\ pc["loop"] # "exited"
           => phase \in Building \cup {"join"}]_vars

\* Such a client is let go, complete request or not, whatever the others and
\* the queue thread do, as long as the fd_set had room for its connection, no
\* closed descriptor makes select fail, and the loop's thread has not ended;
\* and that thread ends only before it was started or once it is to stop.
NoClientHangs ==
    /\ LoopOutlivesServer
    /\ \A c \in Client :
           Direct(c) ~> \/ Gone(c) \/ Unwatched(c) \/ StaleWatch
                        \/ phase # "serving" \/ pc["loop"] = "exited"

\* CHttpServer::Stop returns unless the loop has begun anew between its two
\* flags: in particular no client and no walk over a group can hold it up.
StopReturns ==
    (phase = "join" /\ ~running /\ pc["loop"] # "enter") ~> (phase = "joined")
=============================================================================
