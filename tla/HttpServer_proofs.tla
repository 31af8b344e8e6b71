--------------------------- MODULE HttpServer_proofs ---------------------------
(***************************************************************************)
(* Proofs about the HTTP server.  First its threads and connections, for   *)
(* any number of clients, descriptors and groups, any requests, and any    *)
(* size of an fd_set.  Then its parser, for requests of any length.        *)
(***************************************************************************)
EXTENDS HttpServer, HttpRequest, SequenceTheorems, TLAPS

Conn == [client : Client, fd : Fd, got : Nat, busy : BOOLEAN]

\* A thread that answers has a connection, one that walks over a group has a
\* group; whoever has come in asks for something.
JobInv ==
    /\ \A t \in Thread : pc[t] \in Replying => job[t] \in Handle
    /\ pc["loop"] \in {"walking", "walked"} =>
           job["loop"] \in Handle /\ GroupOf(job["loop"]) \in Group
AskInv ==
    /\ \A c \in Client : client[c] # "new" => c \in DOMAIN request
    /\ \A h \in Handle : conns[h].client \in DOMAIN request

HttpInv == HttpTypeOK /\ JobInv /\ AskInv
-----------------------------------------------------------------------------
(* Requests and connections. *)

LEMMA RequestsKnown ==
    ASSUME HttpTypeOK, NEW c \in DOMAIN request
    PROVE  c \in Client /\ request[c] \in Request
  BY HttpAssumption DEF HttpTypeOK

\* Only a request that names a group waits for its members.
LEMMA MembersOfAGroup ==
    ASSUME NEW r \in Request, HandleRequest(r.url, r.body, status) = "members"
    PROVE  r.body.has["wxGroupId"] \in Group
<1>1. r.url = "/group/memberlist" /\ MemberList(r.body, status) = "members"
  BY DEF HandleRequest, FriendUrl, GroupUrl, MemberUrl, PushUrl, EmptyUrl, SendMsg
<1>2. r.body.json /\ "wxGroupId" \in DOMAIN r.body.has
  BY <1>1 DEF MemberList, Lacks
<1> QED
  BY <1>2, HttpAssumption

LEMMA ConnAdded ==
    ASSUME NEW s \in Seq(Conn), NEW x \in Conn
    PROVE  /\ Append(s, x) \in Seq(Conn) /\ Len(Append(s, x)) = Len(s) + 1
           /\ Len(s) \in Nat /\ DOMAIN Append(s, x) = 1 .. Len(s) + 1
           /\ \A h \in 1 .. Len(s) : Append(s, x)[h] = s[h]
           /\ Append(s, x)[Len(s) + 1] = x
  OBVIOUS

LEMMA ConnTyped ==
    ASSUME NEW s \in Seq(Conn), NEW h \in 1 .. Len(s)
    PROVE  /\ s[h] \in Conn /\ s[h].client \in Client /\ s[h].fd \in Fd
           /\ s[h].got \in Nat /\ s[h].busy \in BOOLEAN
<1>1. s[h] \in Conn
  OBVIOUS
<1> QED
  BY <1>1 DEF Conn

LEMMA ConnChanged ==
    ASSUME NEW s \in Seq(Conn), NEW h \in 1 .. Len(s), NEW x \in Conn
    PROVE  /\ [s EXCEPT ![h] = x] \in Seq(Conn)
           /\ Len([s EXCEPT ![h] = x]) = Len(s)
           /\ \A k \in 1 .. Len(s) :
                  [s EXCEPT ![h] = x][k] = IF k = h THEN x ELSE s[k]
  OBVIOUS

\* A connection remembers its client and its descriptor, and what it has got
\* only grows.
ConnsKept ==
    /\ conns' \in Seq(Conn) /\ Len(conns') >= Len(conns)
    /\ \A h \in Handle : h \in Handle' /\ conns'[h].client = conns[h].client
                         /\ conns'[h].fd = conns[h].fd /\ conns'[h].got >= conns[h].got
-----------------------------------------------------------------------------
(* Types, and who has a connection in hand. *)

LEMMA HttpTypeInit == HttpInit => HttpInv
<1> SUFFICES ASSUME HttpInit PROVE HttpInv
  OBVIOUS
<1>1. /\ peer \in [Fd -> Client \cup {None}]
      /\ socketMap \in [Fd -> 0 .. Len(conns)]
      /\ conns \in Seq(Conn) /\ connMap \subseteq Handle
  BY DEF HttpInit, SocketInit, Handle
<1>2. /\ pending \in [Group -> Seq(Task)] /\ status \in [Group -> BOOLEAN]
      /\ queue \in Seq(Task) /\ dialogOpen \in BOOLEAN /\ uiGroup = NoGroup
  <2>1. <<>> \in Seq(Task)
    OBVIOUS
  <2> QED
    BY <2>1 DEF HttpInit, GroupInit
<1>3. /\ pc \in [Thread -> LoopLoc \cup Replying \cup {"idle"}]
      /\ job \in [Thread -> Handle \cup {NoJob}]
  BY DEF HttpInit, Thread, LoopLoc
<1>4. HttpTypeOK
  BY <1>1, <1>2, <1>3 DEF HttpInit, SocketInit, HttpTypeOK, Phase, Building, Conn
<1>5. JobInv
  BY DEF HttpInit, JobInv, Replying, Thread
<1>6. AskInv
  BY DEF HttpInit, AskInv, Handle
<1> QED
  BY <1>4, <1>5, <1>6 DEF HttpInv

LEMMA ClientTypes == HttpInv /\ ClientNext => HttpInv'
<1> SUFFICES ASSUME HttpInv, NEW c \in Client, Connect(c) \/ SendPiece(c) \/ HangUp(c)
             PROVE  HttpInv'
  BY DEF ClientNext
<1> USE DEF HttpInv
<1>1. UNCHANGED <<sockVars, groupVars, connVars, request, readyVars, mainVars, pc, job,
                  ran>>
  BY DEF Connect, SendPiece, HangUp
<1>2. /\ client' \in [Client -> {"new", "backlog", "in"}]
      /\ sent' \in [Client -> Nat]
      /\ hungUp' \subseteq Client
  <2>1. CASE Connect(c)
    BY <2>1 DEF Connect, HttpTypeOK
  <2>2. CASE SendPiece(c)
    BY <2>2 DEF SendPiece, HttpTypeOK
  <2>3. CASE HangUp(c)
    BY <2>3 DEF HangUp, HttpTypeOK
  <2> QED
    BY <2>1, <2>2, <2>3
<1>3. HttpTypeOK'
  BY <1>1, <1>2 DEF HttpTypeOK, sockVars, groupVars, connVars, readyVars, mainVars, Handle
<1>4. JobInv'
  BY <1>1 DEF JobInv, GroupOf, Asked, Handle, connVars
<1>5. AskInv'
  <2>1. \A d \in Client : client'[d] # "new" => client[d] # "new" \/ d \in DOMAIN request
    BY DEF Connect, SendPiece, HangUp, HttpTypeOK
  <2> QED
    BY <1>1, <2>1 DEF AskInv, Handle, connVars
<1> QED
  BY <1>3, <1>4, <1>5

\* The steps of the event loop that only go on to another place.
LEMMA LoopMoves ==
    HttpInv /\ (LoopWhile \/ StartDispatch \/ LeaveDispatch \/ Select \/ AcceptEnd
                \/ ReadEnd \/ WalkEnd \/ WriteEnd) => HttpInv'
<1> SUFFICES ASSUME HttpInv,
                    LoopWhile \/ StartDispatch \/ LeaveDispatch \/ Select \/ AcceptEnd
                        \/ ReadEnd \/ WalkEnd \/ WriteEnd
             PROVE  HttpInv'
  OBVIOUS
<1> USE DEF HttpInv
<1>1. UNCHANGED <<sockVars, groupVars, connVars, clientVars, phase, ran>>
  BY DEF LoopWhile, StartDispatch, LeaveDispatch, Select, AcceptEnd, ReadEnd, WalkEnd,
         WriteEnd, mainVars
<1>2. /\ readReady' \subseteq Fd /\ writeReady' \subseteq Fd
      /\ running' \in BOOLEAN /\ runFlag' \in BOOLEAN
  BY DEF LoopWhile, StartDispatch, LeaveDispatch, Select, AcceptEnd, ReadEnd, WalkEnd,
         WriteEnd, mainVars, readyVars, HttpTypeOK, Readable
<1>3. \E loc \in LoopLoc \ {"walking", "walked"} : pc' = [pc EXCEPT !["loop"] = loc]
  BY DEF LoopWhile, StartDispatch, LeaveDispatch, Select, AcceptEnd, ReadEnd, WalkEnd,
         WriteEnd, Goto, LoopLoc
<1>4. job' = job \/ job' = [job EXCEPT !["loop"] = NoJob]
  BY DEF LoopWhile, StartDispatch, LeaveDispatch, Select, AcceptEnd, ReadEnd, WalkEnd,
         WriteEnd
<1>5. HttpTypeOK'
  BY <1>1, <1>2, <1>3, <1>4, SMTT(30)
     DEF HttpTypeOK, sockVars, groupVars, connVars, clientVars, Handle, Thread
<1>6. JobInv'
  BY <1>1, <1>3, <1>4
     DEF JobInv, HttpTypeOK, GroupOf, Asked, Handle, connVars, Thread, LoopLoc, Replying
<1>7. AskInv'
  BY <1>1 DEF AskInv, Handle, connVars, clientVars
<1> QED
  BY <1>5, <1>6, <1>7

LEMMA AcceptTypes ==
    ASSUME HttpInv, NEW c \in Client, NEW f \in Fd, Accept(c, f)
    PROVE  HttpInv' /\ ConnsKept
<1> USE DEF HttpInv
<1> DEFINE new == [client |-> c, fd |-> f, got |-> 0, busy |-> FALSE]
<1>1. conns \in Seq(Conn) /\ new \in Conn /\ conns' = Append(conns, new)
  BY DEF Accept, HttpTypeOK, Conn
<1>2. /\ conns' \in Seq(Conn) /\ Len(conns') = Len(conns) + 1 /\ Len(conns) \in Nat
      /\ \A h \in Handle : conns'[h] = conns[h]
      /\ conns'[Len(conns) + 1] = new
  BY <1>1, ConnAdded DEF Handle
<1>3. Handle' = Handle \cup {Len(conns) + 1}
  BY <1>2 DEF Handle
<1>4. UNCHANGED <<groupVars, request, sent, hungUp, readyVars, mainVars, pc, job, ran>>
  BY DEF Accept
<1>5. /\ peer' \in [Fd -> Client \cup {None}]
      /\ socketMap' \in [Fd -> 0 .. Len(conns')]
      /\ watchRead' \subseteq Fd /\ watchWrite' \subseteq Fd
      /\ client' \in [Client -> {"new", "backlog", "in"}]
      /\ connMap' \subseteq Handle'
  BY <1>2, <1>3 DEF Accept, AcceptSocket, FdSet, HttpTypeOK
<1>6. HttpTypeOK'
  BY <1>2, <1>3, <1>4, <1>5
     DEF HttpTypeOK, Conn, groupVars, readyVars, mainVars
<1>7. JobInv'
  BY <1>2, <1>3, <1>4 DEF JobInv, GroupOf, Asked, Replying
<1>8. AskInv'
  <2>1. c \in DOMAIN request
    BY DEF Accept, Backlog, AskInv
  <2>2. \A d \in Client : client'[d] # "new" => client[d] # "new"
    BY DEF Accept, Backlog, HttpTypeOK
  <2>3. \A h \in Handle' : conns'[h].client \in DOMAIN request
    BY <1>2, <1>3, <2>1 DEF AskInv
  <2> QED
    BY <1>4, <2>2, <2>3 DEF AskInv
<1>9. ConnsKept
  <2>1. \A h \in Handle : conns[h].got \in Nat
    BY <1>1, ConnTyped DEF Handle
  <2> QED
    BY <1>2, <1>3, <2>1 DEF ConnsKept
<1> QED
  BY <1>6, <1>7, <1>8, <1>9

\* A close, of whomever the descriptor belongs to.
LEMMA RemovedTypes ==
    ASSUME HttpTypeOK, NEW f \in Fd, RemoveSocket(f)
    PROVE  /\ peer' \in [Fd -> Client \cup {None}]
           /\ socketMap' \in [Fd -> 0 .. Len(conns)]
           /\ watchRead' \subseteq Fd
<1>1. /\ peer \in [Fd -> Client \cup {None}]
      /\ socketMap \in [Fd -> 0 .. Len(conns)]
      /\ watchRead \subseteq Fd /\ 0 \in 0 .. Len(conns)
  <2>1. Len(conns) \in Nat
    BY DEF HttpTypeOK
  <2> QED
    BY <2>1 DEF HttpTypeOK
<1>2. CASE socketMap[f] = 0
  BY <1>1, <1>2 DEF RemoveSocket
<1>3. CASE socketMap[f] # 0
  BY <1>1, <1>3 DEF RemoveSocket
<1> QED
  BY <1>2, <1>3

LEMMA ClosedTypes ==
    ASSUME HttpTypeOK, NEW h \in Handle, Close(h)
    PROVE  /\ peer' \in [Fd -> Client \cup {None}]
           /\ socketMap' \in [Fd -> 0 .. Len(conns)]
           /\ watchRead' \subseteq Fd /\ watchWrite' \subseteq Fd
           /\ connMap' \subseteq Handle
<1>1. conns[h].fd \in Fd
  BY ConnTyped DEF HttpTypeOK, Conn, Handle
<1>2. RemoveSocket(conns[h].fd) /\ UNCHANGED watchWrite /\ connMap' = connMap \ {h}
  BY DEF Close, CloseSocket
<1> QED
  BY <1>1, <1>2, RemovedTypes DEF HttpTypeOK

\* Where only the sockets, the map of connections and the sets change, ...
LEMMA SocketsTypes ==
    ASSUME HttpInv,
           UNCHANGED <<groupVars, conns, clientVars, mainVars, pc, job, ran>>,
           peer' \in [Fd -> Client \cup {None}],
           socketMap' \in [Fd -> 0 .. Len(conns)],
           watchRead' \subseteq Fd, watchWrite' \subseteq Fd,
           readReady' \subseteq Fd, writeReady' \subseteq Fd,
           connMap' \subseteq Handle
    PROVE  HttpInv'
<1>1. HttpTypeOK'
  BY DEF HttpInv, HttpTypeOK, groupVars, clientVars, mainVars, Handle
<1>2. JobInv' /\ AskInv'
  BY DEF HttpInv, JobInv, AskInv, GroupOf, Asked, clientVars, Handle
<1> QED
  BY <1>1, <1>2 DEF HttpInv

LEMMA HandleOf ==
    ASSUME HttpTypeOK, NEW f \in Fd, socketMap[f] # 0
    PROVE  socketMap[f] \in Handle
  BY DEF HttpTypeOK, Handle

LEMMA ReadTypes ==
    ASSUME HttpInv, NEW f \in Fd, ReadClosed(f) \/ ReadNothing(f)
    PROVE  HttpInv'
<1>1. HttpTypeOK
  BY DEF HttpInv
<1>2. CASE ReadClosed(f)
  BY <1>1, <1>2, SocketsTypes DEF ReadClosed, sockVars, connVars, HttpTypeOK
<1>3. CASE ReadNothing(f)
  <2>1. socketMap[f] \in Handle
    BY <1>1, <1>3, HandleOf DEF ReadNothing
  <2>2. /\ UNCHANGED <<groupVars, conns, clientVars, writeReady, mainVars, pc, job, ran>>
        /\ readReady' \subseteq Fd /\ Close(socketMap[f])
    BY <1>1, <1>3 DEF ReadNothing, HttpTypeOK
  <2>3. writeReady' \subseteq Fd
    BY <1>1, <2>2 DEF HttpTypeOK
  <2> QED
    BY <1>1, <2>1, <2>2, <2>3, ClosedTypes, SocketsTypes
<1> QED
  BY <1>2, <1>3

\* ... where a connection changes too, and what a thread does: the job of a thread
\* that answers, or walks, is a connection.
LEMMA ConnsTypes ==
    ASSUME HttpInv, NEW h \in Handle, NEW x \in Conn,
           conns' = [conns EXCEPT ![h] = x],
           x.client = conns[h].client, x.fd = conns[h].fd, x.got >= conns[h].got
    PROVE  /\ conns' \in Seq(Conn) /\ Len(conns') = Len(conns) /\ Handle' = Handle
           /\ \A k \in Handle : conns'[k].client = conns[k].client
           /\ ConnsKept
<1>1. conns \in Seq(Conn)
  BY DEF HttpInv, HttpTypeOK, Conn
<1>2. /\ conns' \in Seq(Conn) /\ Len(conns') = Len(conns)
      /\ \A k \in Handle : conns'[k] = IF k = h THEN x ELSE conns[k]
  BY <1>1, ConnChanged DEF Handle
<1>3. \A k \in Handle : conns[k].got \in Nat
  BY <1>1, ConnTyped DEF Handle
<1>4. Len(conns) \in Nat
  BY <1>1
<1> QED
  BY <1>2, <1>3, <1>4 DEF ConnsKept, Handle

LEMMA OnReadTypes ==
    ASSUME HttpInv, NEW f \in Fd, OnRead(f)
    PROVE  HttpInv' /\ ConnsKept
<1> DEFINE h == socketMap[f]
           got == sent[peer[f]]
           x == [conns[h] EXCEPT !.got = got]
<1>1. HttpTypeOK /\ conns \in Seq(Conn)
  BY DEF HttpInv, HttpTypeOK, Conn
<1>2. h \in Handle
  BY <1>1, HandleOf DEF OnRead
<1>3. conns[h] \in Conn /\ conns[h].got \in Nat
  BY <1>1, <1>2, ConnTyped DEF Handle
<1>4. got \in Nat /\ got > conns[h].got
  BY <1>1 DEF OnRead, Unread, IsOpen, HttpTypeOK
<1>5. x \in Conn /\ x.client = conns[h].client /\ x.fd = conns[h].fd /\ x.got = got
  BY <1>3, <1>4 DEF Conn
<1>6. conns' = [conns EXCEPT ![h] = x]
  BY DEF OnRead
<1>7. /\ conns' \in Seq(Conn) /\ Len(conns') = Len(conns) /\ Handle' = Handle
      /\ \A k \in Handle : conns'[k].client = conns[k].client
      /\ ConnsKept
  <2> HIDE DEF x, got, h
  <2>1. x.got >= conns[h].got
    BY <1>3, <1>4, <1>5
  <2> QED
    BY <1>2, <1>5, <1>6, <2>1, ConnsTypes
<1>8. /\ UNCHANGED <<clientVars, writeReady, mainVars, ran>>
      /\ readReady' = readReady \ {f} /\ pc["loop"] = "read"
  BY DEF OnRead
<1>9. Asked(h) \in Request
  BY <1>1, <1>2, RequestsKnown DEF Asked, HttpInv, AskInv
<1>10. CASE WhatBecomes(h, got) = "members" /\ AddGroupTask(GroupOf(h), <<h, got>>)
            /\ UNCHANGED <<sockVars, connMap>>
            /\ IF dialogOpen
               THEN Goto("loop", "walking") /\ job' = [job EXCEPT !["loop"] = h]
               ELSE UNCHANGED <<pc, job>>
  <2>1. GroupOf(h) \in Group
    BY <1>9, <1>10, MembersOfAGroup DEF WhatBecomes, GroupOf
  <2>2. <<h, got>> \in Task
    BY <1>2, <1>4 DEF Task, Handle
  <2>3. pending' \in [Group -> Seq(Task)] /\ UNCHANGED <<status, queue, dialogOpen, uiGroup>>
    BY <1>1, <1>10, <2>1, <2>2 DEF AddGroupTask, HttpTypeOK
  <2>4. \/ UNCHANGED <<pc, job>>
        \/ pc' = [pc EXCEPT !["loop"] = "walking"] /\ job' = [job EXCEPT !["loop"] = h]
    BY <1>10 DEF Goto
  <2>5. HttpTypeOK'
    BY <1>1, <1>2, <1>7, <1>8, <1>10, <2>3, <2>4, ZenonT(40)
       DEF HttpTypeOK, clientVars, mainVars, sockVars, Conn, Handle, Thread, LoopLoc
  <2>6. JobInv'
    BY <1>1, <1>2, <1>7, <1>8, <2>1, <2>4
       DEF HttpInv, JobInv, HttpTypeOK, GroupOf, Asked, clientVars, Thread, Replying
  <2>7. AskInv'
    BY <1>7, <1>8 DEF HttpInv, AskInv, clientVars
  <2> QED
    BY <1>7, <2>5, <2>6, <2>7 DEF HttpInv
<1>11. CASE UNCHANGED groupVars /\ UNCHANGED <<pc, job>>
            /\ \/ Close(h)
               \/ UNCHANGED <<sockVars, connMap>>
  <2>1. /\ peer' \in [Fd -> Client \cup {None}]
        /\ socketMap' \in [Fd -> 0 .. Len(conns)]
        /\ watchRead' \subseteq Fd /\ watchWrite' \subseteq Fd
        /\ connMap' \subseteq Handle
    BY <1>1, <1>2, <1>11, ClosedTypes DEF sockVars, HttpTypeOK
  <2>2. HttpTypeOK'
    BY <1>1, <1>7, <1>8, <1>11, <2>1
       DEF HttpTypeOK, clientVars, mainVars, groupVars, Conn
  <2>3. JobInv' /\ AskInv'
    BY <1>7, <1>8, <1>11 DEF HttpInv, JobInv, AskInv, GroupOf, Asked, clientVars
  <2> QED
    BY <1>7, <2>2, <2>3 DEF HttpInv
<1>12. CASE Goto("loop", "send") /\ job' = [job EXCEPT !["loop"] = h]
            /\ UNCHANGED <<sockVars, groupVars, connMap>>
  <2>1. HttpTypeOK'
    BY <1>1, <1>2, <1>7, <1>8, <1>12
       DEF HttpTypeOK, clientVars, mainVars, sockVars, groupVars, Conn, Goto, Thread,
           Replying
  <2>2. JobInv'
    BY <1>1, <1>2, <1>7, <1>8, <1>12
       DEF HttpInv, JobInv, HttpTypeOK, GroupOf, Asked, clientVars, Thread, Replying, Goto
  <2>3. AskInv'
    BY <1>7, <1>8 DEF HttpInv, AskInv, clientVars
  <2> QED
    BY <1>7, <2>1, <2>2, <2>3 DEF HttpInv
<1> QED
  BY <1>10, <1>11, <1>12 DEF OnRead

LEMMA OnWriteTypes ==
    ASSUME HttpInv, NEW f \in Fd, OnWrite(f)
    PROVE  HttpInv' /\ ConnsKept
<1> DEFINE h == socketMap[f]
           x == [conns[h] EXCEPT !.busy = FALSE]
<1>1. HttpTypeOK /\ conns \in Seq(Conn)
  BY DEF HttpInv, HttpTypeOK, Conn
<1>2. UNCHANGED <<groupVars, clientVars, readReady, mainVars, pc, job, ran>>
  BY DEF OnWrite
<1>3. readReady' \subseteq Fd /\ writeReady' \subseteq Fd
  BY <1>1 DEF OnWrite, HttpTypeOK
<1>4. CASE UNCHANGED connVars
  <2>1. /\ UNCHANGED <<peer, socketMap, watchRead>>
        /\ watchWrite' \subseteq Fd
    BY <1>1, <1>4 DEF OnWrite, sockVars, connVars, HttpTypeOK
  <2>2. HttpInv'
    BY <1>1, <1>2, <1>3, <1>4, <2>1, SocketsTypes DEF connVars, HttpTypeOK
  <2>3. ConnsKept
    BY <1>1, <1>4, ConnTyped DEF ConnsKept, connVars, Handle
  <2> QED
    BY <2>2, <2>3
<1>5. CASE /\ h \in connMap /\ conns[h].busy
           /\ watchWrite' = watchWrite \ {f} /\ RemoveSocket(f)
           /\ connMap' = connMap \ {h}
           /\ conns' = [conns EXCEPT ![h].busy = FALSE]
  <2>1. h \in Handle
    BY <1>1, <1>5 DEF HttpTypeOK
  <2>2. conns[h] \in Conn /\ conns[h].got \in Nat
    BY <1>1, <2>1, ConnTyped DEF Handle
  <2>3. /\ x \in Conn /\ x.client = conns[h].client /\ x.fd = conns[h].fd
        /\ x.got >= conns[h].got /\ conns' = [conns EXCEPT ![h] = x]
    <3>1. conns' = [conns EXCEPT ![h] = x]
      BY <1>5
    <3>2. /\ x \in Conn /\ x.client = conns[h].client /\ x.fd = conns[h].fd
          /\ x.got = conns[h].got
      BY <2>2 DEF Conn
    <3> QED
      BY <2>2, <3>1, <3>2
  <2>4. /\ conns' \in Seq(Conn) /\ Len(conns') = Len(conns) /\ Handle' = Handle
        /\ \A k \in Handle : conns'[k].client = conns[k].client
        /\ ConnsKept
    <3> HIDE DEF x, h
    <3> QED
      BY <2>1, <2>3, ConnsTypes
  <2>5. /\ peer' \in [Fd -> Client \cup {None}]
        /\ socketMap' \in [Fd -> 0 .. Len(conns)]
        /\ watchRead' \subseteq Fd /\ watchWrite' \subseteq Fd
        /\ connMap' \subseteq Handle
    BY <1>1, <1>5, RemovedTypes DEF HttpTypeOK
  <2>6. HttpTypeOK'
    BY <1>1, <1>2, <1>3, <2>4, <2>5 DEF HttpTypeOK, groupVars, clientVars, mainVars, Conn
  <2>7. JobInv' /\ AskInv'
    BY <1>2, <2>4 DEF HttpInv, JobInv, AskInv, GroupOf, Asked, clientVars
  <2> QED
    BY <2>4, <2>6, <2>7 DEF HttpInv
<1> QED
  BY <1>4, <1>5 DEF OnWrite, connVars

LEMMA SendTypes ==
    ASSUME HttpInv, NEW t \in Thread, SendReply(t)
    PROVE  HttpInv' /\ ConnsKept
<1> DEFINE h == job[t]
<1>1. HttpTypeOK /\ conns \in Seq(Conn)
  BY DEF HttpInv, HttpTypeOK, Conn
<1>2. h \in Handle /\ pc[t] = "send"
  BY DEF SendReply, HttpInv, JobInv, Replying
<1>3. UNCHANGED <<groupVars, connMap, clientVars, readyVars, mainVars, job, ran>>
  BY DEF SendReply
<1>4. \E loc \in {"close1", "close2"} : pc' = [pc EXCEPT ![t] = loc]
  BY DEF SendReply, Goto
<1>5. conns[h] \in Conn /\ conns[h].fd \in Fd /\ conns[h].got \in Nat
  BY <1>1, <1>2, ConnTyped DEF Handle
<1>6. UNCHANGED <<peer, socketMap, watchRead>> /\ watchWrite' \subseteq Fd
  BY <1>1, <1>5 DEF SendReply, SendSocket, sockVars, HttpTypeOK
<1>7. conns' = conns \/ \E b \in BOOLEAN : conns' = [conns EXCEPT ![h].busy = b]
  BY DEF SendReply
<1>8. /\ conns' \in Seq(Conn) /\ Len(conns') = Len(conns) /\ Handle' = Handle
      /\ \A k \in Handle : conns'[k].client = conns[k].client
      /\ ConnsKept
  <2>1. CASE conns' = conns
    BY <1>1, <2>1, ConnTyped DEF ConnsKept, Handle
  <2>2. ASSUME NEW b \in BOOLEAN, conns' = [conns EXCEPT ![h].busy = b]
        PROVE  /\ conns' \in Seq(Conn) /\ Len(conns') = Len(conns) /\ Handle' = Handle
               /\ \A k \in Handle : conns'[k].client = conns[k].client
               /\ ConnsKept
    <3> DEFINE x == [conns[h] EXCEPT !.busy = b]
    <3>1. /\ x \in Conn /\ x.client = conns[h].client /\ x.fd = conns[h].fd
          /\ x.got >= conns[h].got /\ conns' = [conns EXCEPT ![h] = x]
      BY <1>5, <2>2 DEF Conn
    <3> HIDE DEF x, h
    <3> QED
      BY <1>2, <3>1, ConnsTypes
  <2> QED
    BY <1>7, <2>1, <2>2
<1>9. HttpTypeOK'
  BY <1>1, <1>3, <1>4, <1>6, <1>8
     DEF HttpTypeOK, groupVars, clientVars, readyVars, mainVars, Conn, Replying
<1>10. JobInv'
  <2>1. \A u \in Thread : pc'[u] \in Replying => pc[u] \in Replying
    BY <1>1, <1>2, <1>4 DEF HttpTypeOK, Replying
  <2>2. pc'["loop"] \in {"walking", "walked"} => pc["loop"] \in {"walking", "walked"}
    BY <1>1, <1>4 DEF HttpTypeOK, Thread
  <2> QED
    BY <1>3, <1>8, <2>1, <2>2 DEF HttpInv, JobInv, GroupOf, Asked, clientVars
<1>11. AskInv'
  BY <1>3, <1>8 DEF HttpInv, AskInv, clientVars
<1> QED
  BY <1>8, <1>9, <1>10, <1>11 DEF HttpInv

LEMMA CloseTypes ==
    ASSUME HttpInv, NEW t \in Thread, CloseWritten(t) \/ CloseReplied(t)
    PROVE  HttpInv'
<1>1. HttpTypeOK
  BY DEF HttpInv
<1>2. job[t] \in Handle
  BY DEF CloseWritten, CloseReplied, HttpInv, JobInv, Replying
<1>3. UNCHANGED <<groupVars, conns, clientVars, readyVars, mainVars, ran>>
  BY DEF CloseWritten, CloseReplied
<1>4. /\ peer' \in [Fd -> Client \cup {None}]
      /\ socketMap' \in [Fd -> 0 .. Len(conns)]
      /\ watchRead' \subseteq Fd /\ watchWrite' \subseteq Fd
      /\ connMap' \subseteq Handle
  BY <1>1, <1>2, ClosedTypes DEF CloseWritten, CloseReplied
<1>5. \/ pc' = [pc EXCEPT ![t] = "close2"] /\ job' = job /\ pc[t] \in Replying
      \/ \E loc \in {"read", "idle"} :
             pc' = [pc EXCEPT ![t] = loc] /\ job' = [job EXCEPT ![t] = NoJob]
  BY DEF CloseWritten, CloseReplied, Goto, Replying
<1>6. HttpTypeOK'
  BY <1>1, <1>3, <1>4, <1>5
     DEF HttpTypeOK, groupVars, clientVars, readyVars, mainVars, Handle, LoopLoc, Replying
<1>7. JobInv'
  BY <1>1, <1>3, <1>5
     DEF HttpInv, JobInv, HttpTypeOK, GroupOf, Asked, clientVars, Handle, Replying, Thread
<1>8. AskInv'
  BY <1>3 DEF HttpInv, AskInv, Handle, clientVars
<1> QED
  BY <1>6, <1>7, <1>8 DEF HttpInv

LEMMA RunTypes == HttpInv /\ RunGroupTask => HttpInv'
<1> SUFFICES ASSUME HttpInv, RunGroupTask PROVE HttpInv'
  OBVIOUS
<1>1. HttpTypeOK
  BY DEF HttpInv
<1>2. UNCHANGED <<sockVars, pending, status, dialogOpen, uiGroup, connVars,
                  clientVars, readyVars, mainVars>>
  BY DEF RunGroupTask
<1>3. queue' \in Seq(Task) /\ Head(queue) \in Task /\ ran' \subseteq Task
  <2>1. queue \in Seq(Task) /\ queue # <<>> /\ ran \subseteq Task
    BY <1>1 DEF RunGroupTask, HttpTypeOK
  <2>2. Tail(queue) \in Seq(Task) /\ Head(queue) \in Task
    BY <2>1
  <2> QED
    BY <2>1, <2>2 DEF RunGroupTask
<1>4. \/ UNCHANGED <<pc, job>>
      \/ \E h \in Handle : pc' = [pc EXCEPT !["queue"] = "send"]
                           /\ job' = [job EXCEPT !["queue"] = h]
  BY <1>1 DEF RunGroupTask, Goto, HttpTypeOK
<1>5. HttpTypeOK'
  BY <1>1, <1>2, <1>3, <1>4, ZenonT(40)
     DEF HttpTypeOK, sockVars, connVars, clientVars, readyVars, mainVars, Handle, Replying,
         Thread
<1>6. JobInv'
  BY <1>1, <1>2, <1>4
     DEF HttpInv, JobInv, HttpTypeOK, GroupOf, Asked, connVars, clientVars, Handle, Thread
<1>7. AskInv'
  BY <1>2 DEF HttpInv, AskInv, Handle, connVars, clientVars
<1> QED
  BY <1>5, <1>6, <1>7 DEF HttpInv

LEMMA MembersDoneTypes ==
    ASSUME HttpTypeOK, NEW g \in Group, MembersDone(g)
    PROVE  /\ status' \in [Group -> BOOLEAN] /\ queue' \in Seq(Task)
           /\ uiGroup' \in Group \cup {NoGroup}
           /\ UNCHANGED <<pending, dialogOpen>>
  BY DEF HttpTypeOK, MembersDone

LEMMA UiTypes == HttpInv /\ UiNext => HttpInv'
<1> SUFFICES ASSUME HttpInv, UiNext PROVE HttpInv'
  OBVIOUS
<1>1. HttpTypeOK
  BY DEF HttpInv
<1>2. UNCHANGED <<sockVars, connVars, clientVars, readyVars, mainVars, job, ran>>
  BY DEF UiNext, UiWalkDone, UiErase, UiDialog, UiDialogDone
<1>3. /\ pending' \in [Group -> Seq(Task)] /\ status' \in [Group -> BOOLEAN]
      /\ queue' \in Seq(Task) /\ dialogOpen' \in BOOLEAN
      /\ uiGroup' \in Group \cup {NoGroup}
  <2>1. CASE UiWalkDone
    <3>1. GroupOf(job["loop"]) \in Group
      BY <2>1 DEF UiWalkDone, HttpInv, JobInv
    <3> QED
      BY <1>1, <2>1, <3>1, MembersDoneTypes DEF UiWalkDone, HttpTypeOK
  <2>2. CASE UiErase
    <3>1. <<>> \in Seq(Task)
      OBVIOUS
    <3> QED
      BY <1>1, <2>2, <3>1 DEF UiErase, EraseGroup, HttpTypeOK
  <2>3. CASE UiDialog
    BY <1>1, <2>3 DEF UiDialog, ToggleDialog, HttpTypeOK
  <2>4. ASSUME NEW g \in Group, UiDialogDone(g)
        PROVE  /\ pending' \in [Group -> Seq(Task)] /\ status' \in [Group -> BOOLEAN]
               /\ queue' \in Seq(Task) /\ dialogOpen' \in BOOLEAN
               /\ uiGroup' \in Group \cup {NoGroup}
    BY <1>1, <2>4, MembersDoneTypes DEF UiDialogDone, HttpTypeOK
  <2> QED
    BY <2>1, <2>2, <2>3, <2>4 DEF UiNext
<1>4. \/ pc' = pc
      \/ pc' = [pc EXCEPT !["loop"] = "walked"] /\ pc["loop"] = "walking"
  <2>1. CASE UiWalkDone
    BY <2>1 DEF UiWalkDone, Goto
  <2>2. CASE UiErase \/ UiDialog
    BY <2>2 DEF UiErase, UiDialog
  <2>3. ASSUME NEW g \in Group, UiDialogDone(g) PROVE pc' = pc
    BY <2>3 DEF UiDialogDone
  <2> QED
    BY <2>1, <2>2, <2>3 DEF UiNext
<1>5. HttpTypeOK'
  BY <1>1, <1>2, <1>3, <1>4
     DEF HttpTypeOK, sockVars, connVars, clientVars, readyVars, mainVars, Handle, LoopLoc
<1>6. JobInv'
  BY <1>1, <1>2, <1>4
     DEF HttpInv, JobInv, HttpTypeOK, GroupOf, Asked, connVars, clientVars, Handle, Thread,
         Replying
<1>7. AskInv'
  BY <1>2 DEF HttpInv, AskInv, Handle, connVars, clientVars
<1> QED
  BY <1>5, <1>6, <1>7 DEF HttpInv

LEMMA MainTypes == HttpInv /\ MainNext => HttpInv'
<1> SUFFICES ASSUME HttpInv, MainNext PROVE HttpInv'
  OBVIOUS
<1>1. /\ UNCHANGED <<sockVars, pending, status, queue, uiGroup, connVars, clientVars,
                     readyVars, pc, job, ran>>
      /\ dialogOpen' \in BOOLEAN /\ running' \in BOOLEAN /\ runFlag' \in BOOLEAN
      /\ phase' \in Phase
  BY DEF MainNext, SetExec, StartLoop, Start, CloseWindow, StopDispatch, StopThread, Join, groupVars, Phase,
         Building, HttpInv, HttpTypeOK
<1>2. HttpTypeOK'
  BY <1>1 DEF HttpInv, HttpTypeOK, sockVars, connVars, clientVars, readyVars, Handle
<1>3. JobInv' /\ AskInv'
  BY <1>1 DEF HttpInv, JobInv, AskInv, GroupOf, Asked, connVars, clientVars, Handle
<1> QED
  BY <1>2, <1>3 DEF HttpInv
-----------------------------------------------------------------------------
(* All steps together. *)

\* A step that leaves the connections alone keeps them.
LEMMA SameConnsKept == HttpInv /\ UNCHANGED conns => ConnsKept
<1> SUFFICES ASSUME HttpInv, UNCHANGED conns PROVE ConnsKept
  OBVIOUS
<1>1. conns \in Seq(Conn) /\ Len(conns) \in Nat
  BY DEF HttpInv, HttpTypeOK, Conn
<1>2. \A h \in Handle : conns[h].got \in Nat
  BY <1>1, ConnTyped DEF Handle
<1> QED
  BY <1>1, <1>2 DEF ConnsKept, Handle

LEMMA HttpStep == HttpInv /\ [Next]_vars => HttpInv' /\ ConnsKept
<1> SUFFICES ASSUME HttpInv, [Next]_vars PROVE HttpInv' /\ ConnsKept
  OBVIOUS
<1>1. CASE UNCHANGED vars
  <2>1. HttpInv'
    BY <1>1 DEF vars, sockVars, groupVars, connVars, clientVars, readyVars, mainVars, HttpInv,
                HttpTypeOK, JobInv, AskInv, GroupOf, Asked, Handle
  <2>2. UNCHANGED conns
    BY <1>1 DEF vars, connVars
  <2> QED
    BY <2>1, <2>2, SameConnsKept
<1>2. CASE ClientNext
  <2>1. UNCHANGED conns
    BY <1>2 DEF ClientNext, Connect, SendPiece, HangUp, connVars
  <2> QED
    BY <1>2, <2>1, ClientTypes, SameConnsKept
<1>3. CASE LoopWhile \/ StartDispatch \/ LeaveDispatch \/ Select \/ AcceptEnd
           \/ ReadEnd \/ WalkEnd \/ WriteEnd
  <2>1. UNCHANGED conns
    BY <1>3 DEF LoopWhile, StartDispatch, LeaveDispatch, Select, AcceptEnd, ReadEnd,
                WalkEnd, WriteEnd, connVars
  <2> QED
    BY <1>3, <2>1, LoopMoves, SameConnsKept
<1>4. ASSUME NEW c \in Client, NEW f \in Fd, Accept(c, f) PROVE HttpInv' /\ ConnsKept
  BY <1>4, AcceptTypes
<1>5. ASSUME NEW f \in Fd, ReadClosed(f) \/ ReadNothing(f) PROVE HttpInv' /\ ConnsKept
  <2>1. UNCHANGED conns
    BY <1>5 DEF ReadClosed, ReadNothing, connVars
  <2> QED
    BY <1>5, <2>1, ReadTypes, SameConnsKept
<1>6. ASSUME NEW f \in Fd, OnRead(f) \/ OnWrite(f) PROVE HttpInv' /\ ConnsKept
  BY <1>6, OnReadTypes, OnWriteTypes
<1>7. ASSUME NEW t \in Thread, SendReply(t) PROVE HttpInv' /\ ConnsKept
  BY <1>7, SendTypes
<1>8. ASSUME NEW t \in Thread, CloseWritten(t) \/ CloseReplied(t)
      PROVE  HttpInv' /\ ConnsKept
  <2>1. UNCHANGED conns
    BY <1>8 DEF CloseWritten, CloseReplied
  <2> QED
    BY <1>8, <2>1, CloseTypes, SameConnsKept
<1>9. CASE RunGroupTask \/ UiNext \/ MainNext
  <2>1. UNCHANGED connVars
    BY <1>9 DEF RunGroupTask, UiNext, UiWalkDone, UiErase, UiDialog, UiDialogDone, MainNext,
                SetExec, StartLoop, Start, CloseWindow, StopDispatch, StopThread, Join
  <2>2. UNCHANGED conns
    BY <2>1 DEF connVars
  <2> QED
    BY <1>9, <2>2, RunTypes, UiTypes, MainTypes, SameConnsKept
<1> QED
  BY <1>1, <1>2, <1>3, <1>4, <1>5, <1>6, <1>7, <1>8, <1>9
     DEF Next, LoopNext, QueueNext, Thread

\* The state is typed: every thread that answers has a connection, every waiting task
\* a handle (HttpConn.h, GroupTask.h).
THEOREM HttpTypeCorrect == Spec => []HttpTypeOK
<1> QED
  BY HttpTypeInit, HttpStep, PTL DEF Spec, HttpInv
-----------------------------------------------------------------------------
(* Sockets. *)

\* The map of sockets has the open descriptors, and leads to their connections.
SocketInv ==
    /\ \A f \in Fd : socketMap[f] # 0 <=> IsOpen(f)
    /\ NoOrphanSocket

\* The part of a close that counts: the entry of a connection goes, and its
\* descriptor is nobody's.
Drop(h) ==
    /\ connMap' = connMap \ {h}
    /\ socketMap' = [socketMap EXCEPT ![conns[h].fd] = 0]
    /\ peer' = [peer EXCEPT ![conns[h].fd] = None]

LEMMA CloseDrops ==
    ASSUME HttpInv, SocketInv, NEW h \in Handle, RemoveSocket(conns[h].fd),
           connMap' = connMap \ {h}
    PROVE  Drop(h)
<1> DEFINE f == conns[h].fd
<1>1. f \in Fd
  BY ConnTyped DEF HttpInv, HttpTypeOK, Conn, Handle
<1>2. peer \in [Fd -> Client \cup {None}] /\ socketMap \in [Fd -> 0 .. Len(conns)]
  BY DEF HttpInv, HttpTypeOK
<1>3. CASE socketMap[f] = 0
  <2>1. peer[f] = None
    BY <1>1, <1>3 DEF SocketInv, IsOpen
  <2> QED
    BY <1>1, <1>2, <1>3, <2>1 DEF RemoveSocket, Drop
<1>4. CASE socketMap[f] # 0
  BY <1>4 DEF RemoveSocket, Drop
<1> QED
  BY <1>3, <1>4

\* A step accepts a client, drops a connection, or leaves the sockets alone.
LEMMA SocketSteps ==
    ASSUME HttpInv, SocketInv, [Next]_vars
    PROVE  \/ UNCHANGED <<peer, socketMap, connMap>>
           \/ \E h \in Handle : Drop(h)
           \/ \E c \in Client, f \in Fd : Accept(c, f)
<1>0. HttpTypeOK
  BY DEF HttpInv
<1>1. CASE UNCHANGED vars \/ ClientNext \/ UiNext \/ MainNext \/ RunGroupTask
  BY <1>1 DEF vars, sockVars, connVars, ClientNext, Connect, SendPiece, HangUp, UiNext,
              UiWalkDone, UiErase, UiDialog, UiDialogDone, MainNext, SetExec, StartLoop, Start, CloseWindow,
              StopDispatch, StopThread, Join, RunGroupTask
<1>2. CASE LoopWhile \/ StartDispatch \/ LeaveDispatch \/ Select \/ AcceptEnd
           \/ ReadEnd \/ WalkEnd \/ WriteEnd
  BY <1>2 DEF LoopWhile, StartDispatch, LeaveDispatch, Select, AcceptEnd, ReadEnd, WalkEnd,
              WriteEnd, sockVars, connVars
<1>3. ASSUME NEW f \in Fd, ReadClosed(f) \/ ReadNothing(f) \/ OnRead(f)
      PROVE  UNCHANGED <<peer, socketMap, connMap>> \/ \E h \in Handle : Drop(h)
  <2>1. CASE Close(socketMap[f]) /\ socketMap[f] # 0
    BY <1>0, <2>1, HandleOf, CloseDrops DEF Close, CloseSocket
  <2>2. CASE UNCHANGED <<peer, socketMap, connMap>>
    BY <2>2
  <2> QED
    BY <1>3, <2>1, <2>2 DEF ReadClosed, ReadNothing, OnRead, sockVars, connVars
<1>4. ASSUME NEW f \in Fd, OnWrite(f)
      PROVE  UNCHANGED <<peer, socketMap, connMap>> \/ \E h \in Handle : Drop(h)
  <2> DEFINE h == socketMap[f]
  <2>1. CASE h \in connMap /\ RemoveSocket(f) /\ connMap' = connMap \ {h}
    <3>1. h \in Handle /\ h # 0
      BY <1>0, <2>1 DEF HttpTypeOK, Handle
    <3>2. conns[h].fd = f
      BY <3>1 DEF SocketInv, NoOrphanSocket
    <3> QED
      BY <2>1, <3>1, <3>2, CloseDrops
  <2>2. CASE UNCHANGED <<peer, socketMap, connMap>>
    BY <2>2
  <2> QED
    BY <1>4, <2>1, <2>2 DEF OnWrite, sockVars, connVars
<1>5. ASSUME NEW t \in Thread, SendReply(t)
      PROVE  UNCHANGED <<peer, socketMap, connMap>>
  BY <1>5 DEF SendReply, SendSocket, sockVars
<1>6. ASSUME NEW t \in Thread, CloseWritten(t) \/ CloseReplied(t)
      PROVE  \E h \in Handle : Drop(h)
  <2>1. job[t] \in Handle
    BY <1>6 DEF CloseWritten, CloseReplied, HttpInv, JobInv, Replying
  <2>2. Close(job[t])
    BY <1>6 DEF CloseWritten, CloseReplied
  <2> QED
    BY <2>1, <2>2, CloseDrops DEF Close, CloseSocket
<1> QED
  BY <1>1, <1>2, <1>3, <1>4, <1>5, <1>6 DEF Next, LoopNext, QueueNext, Thread

LEMMA SocketsInit == HttpInit => SocketInv
  BY DEF HttpInit, SocketInit, SocketInv, NoOrphanSocket, IsOpen

LEMMA SocketStep == HttpInv /\ SocketInv /\ [Next]_vars => SocketInv'
<1> SUFFICES ASSUME HttpInv, SocketInv, [Next]_vars PROVE SocketInv'
  OBVIOUS
<1>1. HttpTypeOK /\ ConnsKept
  BY HttpStep DEF HttpInv
<1>2. /\ peer \in [Fd -> Client \cup {None}] /\ socketMap \in [Fd -> 0 .. Len(conns)]
      /\ connMap \subseteq Handle
  BY <1>1 DEF HttpTypeOK
<1>3. CASE UNCHANGED <<peer, socketMap, connMap>>
  BY <1>1, <1>2, <1>3 DEF SocketInv, NoOrphanSocket, IsOpen, ConnsKept
<1>4. ASSUME NEW h \in Handle, Drop(h) PROVE SocketInv'
  <2>1. \A f \in Fd : \/ peer'[f] = None /\ socketMap'[f] = 0
                      \/ f # conns[h].fd /\ peer'[f] = peer[f] /\ socketMap'[f] = socketMap[f]
    BY <1>2, <1>4 DEF Drop
  <2>2. ASSUME NEW f \in Fd, peer'[f] # None
        PROVE  /\ socketMap'[f] # 0 /\ socketMap'[f] \in connMap'
               /\ conns'[socketMap'[f]].fd = f
               /\ conns'[socketMap'[f]].client = peer'[f]
    <3>1. f # conns[h].fd /\ peer'[f] = peer[f] /\ socketMap'[f] = socketMap[f]
      BY <2>1, <2>2
    <3>2. /\ socketMap[f] # 0 /\ socketMap[f] \in connMap
          /\ conns[socketMap[f]].fd = f /\ conns[socketMap[f]].client = peer[f]
      BY <2>2, <3>1 DEF SocketInv, NoOrphanSocket, IsOpen
    <3>3. socketMap[f] # h /\ socketMap[f] \in Handle
      BY <1>2, <3>1, <3>2
    <3> QED
      BY <1>1, <1>4, <3>1, <3>2, <3>3 DEF Drop, ConnsKept
  <2>3. ASSUME NEW f \in Fd, peer'[f] = None PROVE socketMap'[f] = 0
    <3>1. CASE socketMap'[f] = socketMap[f] /\ peer'[f] = peer[f]
      BY <2>3, <3>1 DEF SocketInv, IsOpen
    <3> QED
      BY <2>1, <3>1
  <2> QED
    BY <2>2, <2>3 DEF SocketInv, NoOrphanSocket, IsOpen
<1>5. ASSUME NEW c \in Client, NEW g \in Fd, Accept(c, g) PROVE SocketInv'
  <2> DEFINE n == Len(conns) + 1
  <2>1. /\ Len(conns) \in Nat /\ n # 0
        /\ conns' = Append(conns, [client |-> c, fd |-> g, got |-> 0, busy |-> FALSE])
    BY <1>1, <1>5 DEF Accept, HttpTypeOK
  <2>2. conns'[n].client = c /\ conns'[n].fd = g
    BY <1>1, <2>1 DEF HttpTypeOK
  <2>3. /\ peer' = [peer EXCEPT ![g] = c] /\ socketMap' = [socketMap EXCEPT ![g] = n]
        /\ connMap' = connMap \cup {n}
    BY <1>5 DEF Accept, AcceptSocket
  <2>4. ASSUME NEW f \in Fd
        PROVE  /\ socketMap'[f] # 0 <=> peer'[f] # None
               /\ peer'[f] # None => /\ socketMap'[f] \in connMap'
                                     /\ conns'[socketMap'[f]].fd = f
                                     /\ conns'[socketMap'[f]].client = peer'[f]
    <3>1. CASE f = g
      BY <1>2, <2>1, <2>2, <2>3, <3>1, SocketAssumption
    <3>2. CASE f # g
      <4>1. peer'[f] = peer[f] /\ socketMap'[f] = socketMap[f]
        BY <1>2, <2>3, <3>2
      <4> QED
        BY <1>1, <1>2, <2>3, <4>1 DEF SocketInv, NoOrphanSocket, IsOpen, ConnsKept
    <3> QED
      BY <3>1, <3>2
  <2> QED
    BY <2>4 DEF SocketInv, NoOrphanSocket, IsOpen
<1> QED
  BY <1>3, <1>4, <1>5, SocketSteps

\* Whatever the two threads close, an event on an open socket reaches the
\* connection made for it, which is still in the map (HttpConn.cpp:31,
\* BaseSocket.cpp, netlib.cpp).
THEOREM SocketsHaveOwners == Spec => []NoOrphanSocket
<1>1. HttpInit => HttpInv /\ SocketInv
  BY HttpTypeInit, SocketsInit
<1>2. HttpInv /\ SocketInv /\ [Next]_vars => HttpInv' /\ SocketInv'
  BY HttpStep, SocketStep
<1>3. SocketInv => NoOrphanSocket
  BY DEF SocketInv
<1> QED
  BY <1>1, <1>2, <1>3, PTL DEF Spec
-----------------------------------------------------------------------------
(* The start and the end of the loop's thread. *)

\* From start() to stop() the flag is set, and the thread has ended once it is
\* joined.
FlagInv ==
    /\ phase \in {"starting", "serving", "stop", "flag"} => runFlag = TRUE
    /\ phase = "joined" => pc["loop"] = "exited"

\* Only LoopWhile leads the loop's thread to its end, and nothing leads it away.
LEMMA LoopEnds ==
    ASSUME HttpInv, [Next]_vars, ~LoopWhile
    PROVE  pc'["loop"] = "exited" <=> pc["loop"] = "exited"
<1>1. pc \in [Thread -> LoopLoc \cup Replying \cup {"idle"}] /\ "loop" \in Thread
  BY DEF HttpInv, HttpTypeOK, Thread
<1>2. CASE UNCHANGED pc
  BY <1>2
<1>3. CASE StartDispatch \/ LeaveDispatch \/ Select \/ AcceptEnd \/ ReadEnd
           \/ WalkEnd \/ WriteEnd \/ UiWalkDone
  BY <1>1, <1>3 DEF StartDispatch, LeaveDispatch, Select, AcceptEnd, ReadEnd, WalkEnd,
                    WriteEnd, UiWalkDone, Goto
<1>4. ASSUME NEW t \in Thread, SendReply(t) \/ CloseWritten(t) \/ CloseReplied(t)
      PROVE  pc'["loop"] = "exited" <=> pc["loop"] = "exited"
  BY <1>1, <1>4 DEF SendReply, CloseWritten, CloseReplied, Goto
<1>5. ASSUME NEW f \in Fd, OnRead(f)
      PROVE  pc'["loop"] = "exited" <=> pc["loop"] = "exited"
  <2>1. pc["loop"] = "read" /\ (pc' = pc \/ Goto("loop", "send") \/ Goto("loop", "walking"))
    BY <1>5 DEF OnRead
  <2> QED
    BY <1>1, <2>1 DEF Goto
<1>6. CASE RunGroupTask
  BY <1>1, <1>6 DEF RunGroupTask, Goto
<1>7. ASSUME NEW c \in Client, NEW f \in Fd, Accept(c, f) PROVE UNCHANGED pc
  BY <1>7 DEF Accept
<1>8. CASE UNCHANGED vars \/ ClientNext \/ MainNext \/ UiErase \/ UiDialog
           \/ \E g \in Group : UiDialogDone(g)
  BY <1>8 DEF vars, ClientNext, Connect, SendPiece, HangUp, MainNext, SetExec, StartLoop,
     Start, CloseWindow, StopDispatch, StopThread, Join, UiErase, UiDialog, UiDialogDone
<1>9. ASSUME NEW f \in Fd, ReadClosed(f) \/ ReadNothing(f) \/ OnWrite(f)
      PROVE  UNCHANGED pc
  BY <1>9 DEF ReadClosed, ReadNothing, OnWrite
<1> QED
  BY <1>2, <1>3, <1>4, <1>5, <1>6, <1>7, <1>8, <1>9
     DEF Next, LoopNext, QueueNext, UiNext, Thread

\* Who moves the flag and the phase.
LEMMA FlagMoves ==
    ASSUME [Next]_vars, ~LoopWhile, ~MainNext
    PROVE  UNCHANGED <<runFlag, phase>>
<1>1. ASSUME NEW t \in Thread, SendReply(t) \/ CloseWritten(t) \/ CloseReplied(t)
      PROVE  UNCHANGED <<runFlag, phase>>
  BY <1>1 DEF SendReply, CloseWritten, CloseReplied, mainVars
<1>2. ASSUME NEW f \in Fd,
             ReadClosed(f) \/ ReadNothing(f) \/ OnRead(f) \/ OnWrite(f)
      PROVE  UNCHANGED <<runFlag, phase>>
  BY <1>2 DEF ReadClosed, ReadNothing, OnRead, OnWrite, mainVars
<1>3. ASSUME NEW c \in Client, NEW f \in Fd, Accept(c, f)
      PROVE  UNCHANGED <<runFlag, phase>>
  BY <1>3 DEF Accept, mainVars
<1>4. CASE StartDispatch \/ LeaveDispatch \/ Select \/ AcceptEnd \/ ReadEnd
           \/ WalkEnd \/ WriteEnd \/ RunGroupTask \/ UiNext
  BY <1>4 DEF StartDispatch, LeaveDispatch, Select, AcceptEnd, ReadEnd, WalkEnd,
              WriteEnd, RunGroupTask, UiNext, UiWalkDone, UiErase, UiDialog,
              UiDialogDone, mainVars
<1>5. CASE UNCHANGED vars \/ ClientNext
  BY <1>5 DEF vars, ClientNext, Connect, SendPiece, HangUp, mainVars
<1> QED
  BY <1>1, <1>2, <1>3, <1>4, <1>5 DEF Next, LoopNext, QueueNext, Thread

LEMMA FlagStep == HttpInv /\ FlagInv /\ [Next]_vars => FlagInv'
<1> SUFFICES ASSUME HttpInv, FlagInv, [Next]_vars PROVE FlagInv'
  OBVIOUS
<1>1. CASE LoopWhile
  <2>1. /\ pc["loop"] = "while" /\ phase' = phase
        /\ runFlag' = (runFlag /\ phase # "building")
    BY <1>1 DEF LoopWhile
  <2> QED
    BY <2>1 DEF FlagInv
<1>2. CASE MainNext
  <2>1. UNCHANGED pc
    BY <1>2 DEF MainNext, SetExec, StartLoop, Start, CloseWindow, StopDispatch,
                StopThread, Join
  <2> QED
    BY <1>2, <2>1 DEF FlagInv, MainNext, SetExec, StartLoop, Start, CloseWindow,
                      StopDispatch, StopThread, Join
<1>3. CASE ~LoopWhile /\ ~MainNext
  BY <1>3, LoopEnds, FlagMoves DEF FlagInv
<1> QED
  BY <1>1, <1>2, <1>3

\* Nothing ends the event loop between start() and stop(): no client, no walk and no
\* answer (common_thread.hpp, HttpServer.cpp).
THEOREM LoopServesOn == Spec => LoopOutlivesServer
<1> DEFINE Step == pc'["loop"] = "exited" /\ pc["loop"] # "exited"
                       => phase \in Building \cup {"join"}
<1>1. HttpInit => FlagInv
  BY DEF HttpInit, FlagInv
<1>2. HttpInv /\ FlagInv /\ [Next]_vars => [Step]_vars
  <2> SUFFICES ASSUME HttpInv, FlagInv, [Next]_vars,
                      pc'["loop"] = "exited", pc["loop"] # "exited"
               PROVE  phase \in Building \cup {"join"}
    OBVIOUS
  <2>1. LoopWhile /\ phase \in Phase
    BY LoopEnds DEF HttpInv, HttpTypeOK
  <2>2. runFlag # TRUE \/ phase = "building"
    BY <2>1 DEF LoopWhile, Goto, HttpInv, HttpTypeOK, Thread
  <2> QED
    BY <2>1, <2>2 DEF FlagInv, Phase, Building
<1> QED
  BY <1>1, <1>2, FlagStep, HttpTypeInit, HttpStep, PTL DEF Spec, LoopOutlivesServer

-----------------------------------------------------------------------------
(* Answers. *)

\* The loop thread begins an answer on the socket it has just read from, and goes
\* on with the one it has begun.
LEMMA LoopAnswers ==
    ASSUME HttpInv, [Next]_vars, pc'["loop"] \in Replying
    PROVE  \/ /\ pc["loop"] \in Replying /\ job'["loop"] = job["loop"]
              /\ \A c \in Client, f \in Fd : ~Accept(c, f)
           \/ \E f \in Fd : /\ socketMap[f] # 0 /\ Unread(f)
                            /\ job'["loop"] = socketMap[f]
                            /\ UNCHANGED <<peer, socketMap, connMap>>
<1> DEFINE Goal ==
        \/ /\ pc["loop"] \in Replying /\ job'["loop"] = job["loop"]
           /\ \A c \in Client, f \in Fd : ~Accept(c, f)
        \/ \E f \in Fd : /\ socketMap[f] # 0 /\ Unread(f)
                         /\ job'["loop"] = socketMap[f]
                         /\ UNCHANGED <<peer, socketMap, connMap>>
<1>1. /\ pc \in [Thread -> LoopLoc \cup Replying \cup {"idle"}]
      /\ job \in [Thread -> Handle \cup {NoJob}]
      /\ "loop" \in Thread /\ "queue" \in Thread /\ "loop" # "queue"
  BY DEF HttpInv, HttpTypeOK, Thread
<1>2. ASSUME pc["loop"] \in Replying, job'["loop"] = job["loop"] PROVE Goal
  BY <1>2 DEF Accept, Replying
<1>3. CASE UNCHANGED <<pc, job>>
  BY <1>2, <1>3
<1>4. CASE LoopWhile \/ StartDispatch \/ LeaveDispatch \/ Select \/ AcceptEnd
           \/ ReadEnd \/ WalkEnd \/ WriteEnd \/ UiWalkDone \/ CloseReplied("loop")
  BY <1>1, <1>4 DEF LoopWhile, StartDispatch, LeaveDispatch, Select, AcceptEnd, ReadEnd,
     WalkEnd, WriteEnd, UiWalkDone, CloseReplied, Goto, Replying
<1>5. ASSUME NEW f \in Fd, OnRead(f) PROVE Goal
  <2>1. CASE Goto("loop", "send") /\ job' = [job EXCEPT !["loop"] = socketMap[f]]
             /\ UNCHANGED <<sockVars, groupVars, connMap>>
    BY <1>1, <1>5, <2>1 DEF OnRead, sockVars
  <2>2. CASE UNCHANGED <<pc, job>>
    BY <1>3, <2>2
  <2>3. CASE Goto("loop", "walking")
    BY <1>1, <2>3 DEF Goto, Replying
  <2> QED
    BY <1>5, <2>1, <2>2, <2>3 DEF OnRead
<1>6. CASE SendReply("loop") \/ CloseWritten("loop")
  BY <1>2, <1>6 DEF SendReply, CloseWritten, Replying
<1>7. CASE SendReply("queue") \/ CloseWritten("queue") \/ CloseReplied("queue")
           \/ RunGroupTask
  <2>1. pc'["loop"] = pc["loop"] /\ job'["loop"] = job["loop"]
    BY <1>1, <1>7 DEF SendReply, CloseWritten, CloseReplied, RunGroupTask, Goto
  <2> QED
    BY <1>2, <2>1
<1>8. CASE UNCHANGED vars \/ ClientNext \/ MainNext
  BY <1>3, <1>8 DEF vars, ClientNext, Connect, SendPiece, HangUp, MainNext, SetExec, StartLoop, Start,
     CloseWindow, StopDispatch, StopThread, Join
<1>9. CASE UiErase \/ UiDialog \/ \E g \in Group : UiDialogDone(g)
  BY <1>3, <1>9 DEF UiErase, UiDialog, UiDialogDone
<1>10. ASSUME NEW c \in Client, NEW f \in Fd, Accept(c, f) PROVE Goal
  BY <1>3, <1>10 DEF Accept
<1>11. ASSUME NEW f \in Fd, ReadClosed(f) \/ ReadNothing(f) \/ OnWrite(f)
       PROVE  Goal
  BY <1>3, <1>11 DEF ReadClosed, ReadNothing, OnWrite
<1> QED
  BY <1>4, <1>5, <1>6, <1>7, <1>8, <1>9, <1>10, <1>11
     DEF Next, LoopNext, QueueNext, UiNext

LEMMA OwnerStep ==
    HttpInv /\ SocketInv /\ LoopRepliesToOwner /\ [Next]_vars => LoopRepliesToOwner'
<1> SUFFICES ASSUME HttpInv, SocketInv, LoopRepliesToOwner, [Next]_vars,
                    pc'["loop"] \in Replying
             PROVE  peer'[conns'[job'["loop"]].fd]
                        \in {conns'[job'["loop"]].client, None}
  BY DEF LoopRepliesToOwner, RepliesToOwner
<1>1. ConnsKept /\ HttpTypeOK
  BY HttpStep DEF HttpInv
<1>2. CASE pc["loop"] \in Replying /\ job'["loop"] = job["loop"]
           /\ \A c \in Client, f \in Fd : ~Accept(c, f)
  <2> DEFINE h == job["loop"]
  <2>1. h \in Handle
    BY <1>2 DEF HttpInv, JobInv, Thread
  <2>2. conns'[h].fd = conns[h].fd /\ conns'[h].client = conns[h].client
    BY <1>1, <2>1 DEF ConnsKept
  <2>3. peer[conns[h].fd] \in {conns[h].client, None}
    BY <1>2 DEF LoopRepliesToOwner, RepliesToOwner
  <2>4. peer'[conns[h].fd] \in {peer[conns[h].fd], None}
    <3>1. conns[h].fd \in Fd
      BY <1>1, <2>1, ConnTyped DEF HttpTypeOK, Conn, Handle
    <3>2. ASSUME NEW k \in Handle, Drop(k)
          PROVE  peer'[conns[h].fd] \in {peer[conns[h].fd], None}
      BY <1>1, <3>1, <3>2 DEF Drop, HttpTypeOK
    <3> QED
      BY <1>2, <3>2, SocketSteps
  <2> QED
    BY <1>2, <2>2, <2>3, <2>4
<1>3. ASSUME NEW f \in Fd, socketMap[f] # 0, Unread(f), job'["loop"] = socketMap[f],
             UNCHANGED <<peer, socketMap, connMap>>
      PROVE  peer'[conns'[job'["loop"]].fd] = conns'[job'["loop"]].client
  <2>1. /\ socketMap[f] \in Handle /\ conns[socketMap[f]].fd = f
        /\ conns[socketMap[f]].client = peer[f]
    BY <1>1, <1>3, HandleOf DEF Unread, SocketInv, NoOrphanSocket
  <2> QED
    BY <1>1, <1>3, <2>1 DEF ConnsKept
<1> QED
  BY <1>2, <1>3, LoopAnswers

\* The event loop never answers or closes a connection whose descriptor has another
\* client by then, though the queue thread closes descriptors without a lock
\* (HttpConn.cpp:306, SendJson).
THEOREM LoopAnswersOwner == Spec => []LoopRepliesToOwner
<1>1. HttpInit => HttpInv /\ SocketInv /\ LoopRepliesToOwner
  <2>1. HttpInit => LoopRepliesToOwner
    BY DEF HttpInit, LoopRepliesToOwner, RepliesToOwner, Replying, Thread
  <2> QED
    BY <2>1, HttpTypeInit, SocketsInit
<1>2. HttpInv /\ SocketInv /\ LoopRepliesToOwner /\ [Next]_vars
      => HttpInv' /\ SocketInv' /\ LoopRepliesToOwner'
  BY HttpStep, SocketStep, OwnerStep
<1> QED
  BY <1>1, <1>2, PTL DEF Spec
-----------------------------------------------------------------------------
(* Group tasks. *)

\* The tasks there are were added for what their connections have read by now;
\* those that wait differ from one another, and from those handed on, but for the
\* group whose tasks are just being handed on.
Known(t) == t[1] \in Handle /\ t[2] <= conns[t[1]].got
TasksKnown ==
    /\ \A g \in Group : \A i \in 1 .. Len(pending[g]) : Known(pending[g][i])
    /\ \A i \in 1 .. Len(queue) : Known(queue[i])
    /\ \A t \in ran : Known(t)
TasksDiffer ==
    \A g, k \in Group : \A i \in 1 .. Len(pending[g]), j \in 1 .. Len(pending[k]) :
        pending[g][i] = pending[k][j] => g = k /\ i = j
TaskInv == TasksKnown /\ TasksDiffer /\ TaskRunOnce

SameTasks == UNCHANGED <<pending, queue, uiGroup, ran>>
AddsTask(g, h, n) ==
    /\ h \in Handle /\ n \in Nat /\ n > conns[h].got /\ conns'[h].got = n
    /\ pending' = [pending EXCEPT ![g] = Append(@, <<h, n>>)]
    /\ UNCHANGED <<queue, uiGroup, ran>>
RunsTask ==
    /\ queue # <<>>
    /\ queue' = Tail(queue) /\ ran' = ran \cup {Head(queue)}
    /\ UNCHANGED <<pending, uiGroup>>

LEMMA TaskSteps ==
    ASSUME HttpInv, [Next]_vars
    PROVE  \/ SameTasks
           \/ \E g \in Group, h \in Handle, n \in Nat : AddsTask(g, h, n)
           \/ \E g \in Group : MembersDone(g) /\ UNCHANGED ran
           \/ EraseGroup /\ UNCHANGED ran
           \/ RunsTask
<1> USE DEF SameTasks
<1>1. CASE UNCHANGED vars \/ ClientNext \/ MainNext \/ UiDialog
  BY <1>1 DEF vars, groupVars, ClientNext, Connect, SendPiece, HangUp, MainNext, SetExec, StartLoop, Start,
     CloseWindow, StopDispatch, StopThread, Join, UiDialog, ToggleDialog
<1>2. CASE LoopWhile \/ StartDispatch \/ LeaveDispatch \/ Select \/ AcceptEnd
           \/ ReadEnd \/ WalkEnd \/ WriteEnd
  BY <1>2 DEF LoopWhile, StartDispatch, LeaveDispatch, Select, AcceptEnd, ReadEnd, WalkEnd,
              WriteEnd, groupVars
<1>3. ASSUME NEW c \in Client, NEW f \in Fd, Accept(c, f) PROVE SameTasks
  BY <1>3 DEF Accept, groupVars
<1>4. ASSUME NEW f \in Fd, ReadClosed(f) \/ ReadNothing(f) \/ OnWrite(f) PROVE SameTasks
  BY <1>4 DEF ReadClosed, ReadNothing, OnWrite, groupVars
<1>5. ASSUME NEW t \in Thread, SendReply(t) \/ CloseWritten(t) \/ CloseReplied(t)
      PROVE  SameTasks
  BY <1>5 DEF SendReply, CloseWritten, CloseReplied, groupVars
<1>6. ASSUME NEW f \in Fd, OnRead(f)
      PROVE  SameTasks \/ \E g \in Group, h \in Handle, n \in Nat : AddsTask(g, h, n)
  <2> DEFINE h == socketMap[f]
             n == sent[peer[f]]
  <2>1. HttpTypeOK
    BY DEF HttpInv
  <2>2. h \in Handle
    BY <1>6, <2>1, HandleOf DEF OnRead
  <2>3. n \in Nat /\ n > conns[h].got
    BY <1>6, <2>1 DEF OnRead, Unread, IsOpen, HttpTypeOK
  <2>4. conns[h] \in Conn
    BY <2>1, <2>2, ConnTyped DEF HttpTypeOK, Conn, Handle
  <2>5. conns' = [conns EXCEPT ![h].got = n]
    BY <1>6 DEF OnRead
  <2>6. conns'[h].got = n
    <3>1. conns \in Seq(Conn)
      BY <2>1 DEF HttpTypeOK, Conn
    <3>2. h \in DOMAIN conns
      BY <2>2, <3>1 DEF Handle
    <3>3. conns'[h] = [conns[h] EXCEPT !.got = n]
      BY <2>5, <3>2
    <3> QED
      BY <2>4, <3>3 DEF Conn
  <2>7. CASE WhatBecomes(h, n) = "members" /\ AddGroupTask(GroupOf(h), <<h, n>>)
    <3>1. Asked(h) \in Request
      BY <2>1, <2>2, RequestsKnown DEF Asked, HttpInv, AskInv
    <3>2. GroupOf(h) \in Group
      BY <2>7, <3>1, MembersOfAGroup DEF WhatBecomes, GroupOf
    <3>3. UNCHANGED ran
      BY <1>6 DEF OnRead
    <3>4. AddsTask(GroupOf(h), h, n)
      BY <2>2, <2>3, <2>6, <2>7, <3>3 DEF AddsTask, AddGroupTask
    <3> QED
      BY <2>2, <2>3, <3>2, <3>4
  <2>8. CASE UNCHANGED groupVars
    BY <1>6, <2>8 DEF OnRead, groupVars
  <2> QED
    BY <1>6, <2>7, <2>8 DEF OnRead
<1>7. CASE RunGroupTask
  BY <1>7 DEF RunGroupTask, RunsTask
<1>8. CASE UiWalkDone
  <2>1. GroupOf(job["loop"]) \in Group
    BY <1>8 DEF UiWalkDone, HttpInv, JobInv
  <2> QED
    BY <1>8, <2>1 DEF UiWalkDone
<1>9. ASSUME NEW g \in Group, UiDialogDone(g) PROVE MembersDone(g) /\ UNCHANGED ran
  BY <1>9 DEF UiDialogDone
<1>10. CASE UiErase
  BY <1>10 DEF UiErase
<1> QED
  BY <1>1, <1>2, <1>3, <1>4, <1>5, <1>6, <1>7, <1>8, <1>9, <1>10
     DEF Next, LoopNext, QueueNext, UiNext, Thread

LEMMA KnownKept ==
    ASSUME HttpInv, [Next]_vars, NEW t \in Task, Known(t)
    PROVE  Known(t)'
<1>1. ConnsKept /\ HttpTypeOK /\ HttpTypeOK'
  BY HttpStep DEF HttpInv
<1>2. t[1] \in Handle /\ t[2] \in Nat /\ t[2] <= conns[t[1]].got
  BY DEF Known, Task
<1>3. conns[t[1]].got \in Nat
  BY <1>1, <1>2, ConnTyped DEF HttpTypeOK, Conn, Handle
<1>4. t[1] \in Handle' /\ conns'[t[1]].got >= conns[t[1]].got
  BY <1>1, <1>2 DEF ConnsKept
<1>5. conns'[t[1]].got \in Nat
  <2>1. conns' \in Seq(Conn) /\ t[1] \in 1 .. Len(conns')
    BY <1>1, <1>4 DEF ConnsKept, Handle
  <2> QED
    BY <2>1, ConnTyped
<1> QED
  BY <1>2, <1>3, <1>4, <1>5 DEF Known

LEMMA TaskTyped ==
    ASSUME NEW s \in Seq(Task), NEW i \in 1 .. Len(s)
    PROVE  s[i] \in Task
  OBVIOUS

\* A step that only adds to pending, or hands on tasks of it.
LEMMA HandedKnown ==
    ASSUME HttpInv, TaskInv, [Next]_vars, UNCHANGED <<queue, ran>>,
           \A g \in Group : \A i \in 1 .. Len(pending'[g]) : Known(pending[g][i])'
    PROVE  TasksKnown'
<1>1. queue \in Seq(Task) /\ ran \subseteq Task
  BY DEF HttpInv, HttpTypeOK
<1>2. ASSUME NEW i \in 1 .. Len(queue)
      PROVE  Known(queue[i])'
  <2> DEFINE t == queue[i]
  <2>1. t \in Task
    BY <1>1, TaskTyped
  <2>2. Known(t)
    BY DEF TaskInv, TasksKnown
  <2>3. t = queue'[i]
    OBVIOUS
  <2> HIDE DEF t
  <2>4. t[1] \in Handle' /\ t[2] <= conns'[t[1]].got
    BY <2>1, <2>2, KnownKept DEF Known
  <2> QED
    BY <2>3, <2>4 DEF Known
<1>3. ASSUME NEW t \in ran
      PROVE  Known(t)'
  BY <1>1, KnownKept DEF TaskInv, TasksKnown
<1> QED
  BY <1>2, <1>3 DEF TasksKnown

LEMMA TasksInit == HttpInit => TaskInv
  BY DEF HttpInit, GroupInit, TaskInv, TasksKnown, TasksDiffer, TaskRunOnce

LEMMA AddsTaskKeeps ==
    ASSUME HttpInv, TaskInv, [Next]_vars,
           NEW g \in Group, NEW h \in Handle, NEW n \in Nat, AddsTask(g, h, n)
    PROVE  TaskInv'
<1> DEFINE new == <<h, n>>
           p == pending[g]
<1>1. /\ pending \in [Group -> Seq(Task)] /\ p \in Seq(Task) /\ new \in Task
      /\ queue \in Seq(Task) /\ ran \subseteq Task
  BY SMTT(30) DEF HttpInv, HttpTypeOK, Task, Handle
<1>2. UNCHANGED <<queue, uiGroup, ran>>
  BY DEF AddsTask
<1>3. /\ pending'[g] = Append(p, new)
      /\ \A k \in Group : k # g => pending'[k] = pending[k]
  BY <1>1 DEF AddsTask
<1>4. /\ Len(pending'[g]) = Len(p) + 1 /\ Len(p) \in Nat
      /\ \A i \in 1 .. Len(p) : pending'[g][i] = p[i]
      /\ pending'[g][Len(p) + 1] = new
  BY <1>1, <1>3
<1>p. p = pending[g]
  OBVIOUS
<1>5. ~Known(new) /\ Known(new)'
  <2>1. n > conns[h].got /\ conns'[h].got = n /\ h \in Handle'
    BY HttpStep DEF AddsTask, ConnsKept
  <2>2. conns[h].got \in Nat
    BY ConnTyped DEF HttpInv, HttpTypeOK, Conn, Handle
  <2> QED
    BY <2>1, <2>2 DEF Known
<1> HIDE DEF new, p
<1>6. ASSUME NEW k \in Group, NEW i \in 1 .. Len(pending'[k])
      PROVE  \/ i \in 1 .. Len(pending[k]) /\ pending'[k][i] = pending[k][i]
             \/ k = g /\ i = Len(p) + 1 /\ pending'[k][i] = new
  <2>1. CASE k = g
    BY <1>3, <1>4, <1>p, <2>1
  <2>2. CASE k # g
    BY <1>3, <2>2
  <2> QED
    BY <2>1, <2>2
<1>7. TasksKnown'
  <2>1. ASSUME NEW k \in Group, NEW i \in 1 .. Len(pending'[k])
        PROVE  Known(pending[k][i])'
    <3>1. CASE i \in 1 .. Len(pending[k]) /\ pending'[k][i] = pending[k][i]
      <4> DEFINE t == pending[k][i]
      <4>1. t \in Task
        BY <1>1, <3>1, TaskTyped
      <4>2. Known(t)
        BY <3>1 DEF TaskInv, TasksKnown
      <4>3. t = pending'[k][i]
        BY <3>1
      <4> HIDE DEF t
      <4>4. t[1] \in Handle' /\ t[2] <= conns'[t[1]].got
        BY <4>1, <4>2, KnownKept DEF Known
      <4> QED
        BY <4>3, <4>4 DEF Known
    <3>2. CASE pending'[k][i] = new
      BY <1>5, <3>2 DEF Known
    <3> QED
      BY <1>6, <3>1, <3>2
  <2> QED
    BY <2>1, HandedKnown, <1>2
<1>8. /\ \A k \in Group : \A i \in 1 .. Len(pending[k]) : pending[k][i] # new
      /\ \A i \in 1 .. Len(queue) : queue[i] # new
      /\ new \notin ran
  BY <1>5 DEF TaskInv, TasksKnown
<1>9. TasksDiffer'
  <2> SUFFICES ASSUME NEW j \in Group, NEW k \in Group,
                      NEW a \in 1 .. Len(pending'[j]), NEW b \in 1 .. Len(pending'[k]),
                      pending'[j][a] = pending'[k][b]
               PROVE  j = k /\ a = b
    BY DEF TasksDiffer
  <2>1. CASE a \in 1 .. Len(pending[j]) /\ pending'[j][a] = pending[j][a]
    <3>1. pending'[k][b] # new
      BY <1>8, <2>1
    <3>2. b \in 1 .. Len(pending[k]) /\ pending'[k][b] = pending[k][b]
      BY <1>6, <3>1
    <3>3. pending[j][a] = pending[k][b] /\ a \in 1 .. Len(pending[j])
      BY <2>1, <3>2
    <3>4. b \in 1 .. Len(pending[k])
      BY <3>2
    <3>5. TasksDiffer
      BY DEF TaskInv
    <3> QED
      BY <3>3, <3>4, <3>5 DEF TasksDiffer
  <2>2. CASE j = g /\ a = Len(p) + 1 /\ pending'[j][a] = new
    <3>1. ~(b \in 1 .. Len(pending[k]) /\ pending'[k][b] = pending[k][b])
      BY <1>8, <2>2
    <3>2. k = g /\ b = Len(p) + 1
      BY <1>6, <3>1
    <3> QED
      BY <2>2, <3>2
  <2> QED
    BY <1>6, <2>1, <2>2
<1>10. TaskRunOnce'
  <2>1. ASSUME NEW k \in Group, k # uiGroup, NEW i \in 1 .. Len(pending'[k])
        PROVE  /\ pending'[k][i] \notin ran
               /\ \A j \in 1 .. Len(queue) : pending'[k][i] # queue[j]
    <3>1. CASE i \in 1 .. Len(pending[k]) /\ pending'[k][i] = pending[k][i]
      BY <2>1, <3>1 DEF TaskInv, TaskRunOnce
    <3>2. CASE pending'[k][i] = new
      BY <1>8, <3>2
    <3> QED
      BY <1>6, <3>1, <3>2
  <2> QED
    BY <1>2, <2>1 DEF TaskInv, TaskRunOnce
<1> QED
  BY <1>7, <1>9, <1>10 DEF TaskInv

\* What the concatenation and the tail of two sequences of tasks hold.
LEMMA JoinedAt ==
    ASSUME NEW s \in Seq(Task), NEW t \in Seq(Task), NEW i \in 1 .. Len(s \o t)
    PROVE  \/ i \in 1 .. Len(s) /\ (s \o t)[i] = s[i]
           \/ i > Len(s) /\ i - Len(s) \in 1 .. Len(t) /\ (s \o t)[i] = t[i - Len(s)]
  OBVIOUS

LEMMA TailAt ==
    ASSUME NEW s \in Seq(Task), s # <<>>, NEW i \in 1 .. Len(Tail(s))
    PROVE  i + 1 \in 2 .. Len(s) /\ Tail(s)[i] = s[i + 1] /\ Head(s) = s[1] /\ 1 \in 1 .. Len(s)
  OBVIOUS

\* The tasks handed on differ from one another and from what has been handed on or
\* run: no group's tasks were being handed on before.
LEMMA MembersDoneKeeps ==
    ASSUME HttpInv, TaskInv, [Next]_vars, NEW g \in Group, MembersDone(g), UNCHANGED ran
    PROVE  TaskInv'
<1>1. /\ pending \in [Group -> Seq(Task)] /\ queue \in Seq(Task)
      /\ ran \subseteq Task /\ pending[g] \in Seq(Task)
  BY DEF HttpInv, HttpTypeOK
<1>2. /\ pending' = pending /\ ran' = ran /\ queue' = queue \o pending[g]
      /\ uiGroup = NoGroup /\ uiGroup' \in {g, NoGroup}
      /\ uiGroup' # g => pending[g] = <<>>
  BY DEF MembersDone
<1>3. Group \ {uiGroup} = Group
  BY <1>2, HttpAssumption
<1>4. \A k \in Group : \A i \in 1 .. Len(pending[k]) :
          pending[k][i] \notin ran /\ \A j \in 1 .. Len(queue) : pending[k][i] # queue[j]
  BY <1>3 DEF TaskInv, TaskRunOnce
<1>5. \A i, j \in 1 .. Len(pending[g]) : pending[g][i] = pending[g][j] => i = j
  BY DEF TaskInv, TasksDiffer
<1>6. \A i, j \in 1 .. Len(queue) : queue[i] = queue[j] => i = j
  BY DEF TaskInv, TaskRunOnce
<1> DEFINE q == Len(queue)
<1>q. q \in Nat /\ q = Len(queue)
  BY <1>1
<1>7. \A i \in 1 .. Len(queue') :
          \/ i \in 1 .. Len(queue) /\ queue'[i] = queue[i]
          \/ i > q /\ i - q \in 1 .. Len(pending[g]) /\ queue'[i] = pending[g][i - q]
  BY <1>1, <1>2, JoinedAt
<1>8. TasksDiffer'
  BY <1>2 DEF TaskInv, TasksDiffer
<1>9. TasksKnown'
  <2>1. ASSUME NEW t \in Task, Known(t) PROVE t[1] \in Handle' /\ t[2] <= conns'[t[1]].got
    BY <2>1, KnownKept DEF Known
  <2>2. ASSUME NEW k \in Group, NEW i \in 1 .. Len(pending[k])
        PROVE  /\ pending[k][i] \in Task /\ Known(pending[k][i])
    <3>1. pending[k] \in Seq(Task)
      BY <1>1
    <3> QED
      BY <3>1, TaskTyped DEF TaskInv, TasksKnown
  <2>3. ASSUME NEW i \in 1 .. Len(queue)
        PROVE  queue[i] \in Task /\ Known(queue[i])
    BY <1>1, TaskTyped DEF TaskInv, TasksKnown
  <2>4. ASSUME NEW k \in Group, NEW i \in 1 .. Len(pending'[k]) PROVE Known(pending[k][i])'
    BY <1>2, <2>1, <2>2 DEF Known
  <2>5. ASSUME NEW i \in 1 .. Len(queue') PROVE Known(queue[i])'
    <3>1. \E t \in Task : Known(t) /\ queue'[i] = t
      BY <1>7, <2>2, <2>3
    <3> QED
      BY <2>1, <3>1 DEF Known
  <2>6. ASSUME NEW t \in ran' PROVE Known(t)'
    BY <1>1, <1>2, <2>1 DEF TaskInv, TasksKnown, Known
  <2> QED
    BY <2>4, <2>5, <2>6 DEF TasksKnown
<1> HIDE DEF q
<1>10. ASSUME NEW i \in 1 .. Len(queue'), NEW j \in 1 .. Len(queue'), queue'[i] = queue'[j]
       PROVE  i = j
  <2>1. CASE i \in 1 .. Len(queue) /\ queue'[i] = queue[i]
    <3>1. ~(j > q /\ j - q \in 1 .. Len(pending[g]) /\ queue'[j] = pending[g][j - q])
      BY <1>4, <1>10, <2>1
    <3> QED
      BY <1>6, <1>7, <1>10, <2>1, <3>1
  <2>2. CASE i > q /\ i - q \in 1 .. Len(pending[g]) /\ queue'[i] = pending[g][i - q]
    <3>1. ~(j \in 1 .. Len(queue) /\ queue'[j] = queue[j])
      BY <1>4, <1>10, <2>2
    <3>2. j > q /\ j - q \in 1 .. Len(pending[g]) /\ queue'[j] = pending[g][j - q]
      BY <1>7, <3>1
    <3>3. i - q = j - q
      BY <1>5, <1>10, <2>2, <3>2
    <3>4. i \in Nat /\ j \in Nat
      BY <1>1, <1>2
    <3> QED
      BY <1>q, <3>3, <3>4
  <2> QED
    BY <1>7, <2>1, <2>2
<1>11. ASSUME NEW i \in 1 .. Len(queue')
       PROVE  queue'[i] \notin ran
  BY <1>4, <1>7 DEF TaskInv, TaskRunOnce
<1>12. ASSUME NEW k \in Group, k # uiGroup', NEW i \in 1 .. Len(pending[k])
       PROVE  \A j \in 1 .. Len(queue') : pending[k][i] # queue'[j]
  <2>1. pending[g] # <<>> => k # g
    BY <1>2, <1>12
  <2>2. \A j \in 1 .. Len(pending[g]) : pending[k][i] # pending[g][j]
    <3>1. CASE k # g
      BY <3>1 DEF TaskInv, TasksDiffer
    <3>2. CASE pending[g] = <<>>
      BY <3>2
    <3> QED
      BY <2>1, <3>1, <3>2
  <2> QED
    BY <1>4, <1>7, <2>2, SMTT(30)
<1>13. TaskRunOnce'
  <2>1. \A i, j \in 1 .. Len(queue') : queue'[i] = queue'[j] => i = j
    BY <1>10
  <2>2. \A i \in 1 .. Len(queue') : queue'[i] \notin ran'
    BY <1>2, <1>11
  <2>3. ASSUME NEW k \in Group, k # uiGroup', NEW i \in 1 .. Len(pending'[k])
        PROVE  /\ pending'[k][i] \notin ran'
               /\ \A j \in 1 .. Len(queue') : pending'[k][i] # queue'[j]
    BY <1>2, <1>4, <1>12, <2>3
  <2> QED
    BY <2>1, <2>2, <2>3 DEF TaskRunOnce
<1> QED
  BY <1>8, <1>9, <1>13 DEF TaskInv

LEMMA EraseGroupKeeps ==
    ASSUME HttpInv, TaskInv, [Next]_vars, EraseGroup, UNCHANGED ran
    PROVE  TaskInv'
<1>1. /\ pending \in [Group -> Seq(Task)] /\ UNCHANGED <<queue, ran>>
      /\ uiGroup \in Group /\ uiGroup' = NoGroup
      /\ pending' = [pending EXCEPT ![uiGroup] = <<>>]
  BY DEF HttpInv, HttpTypeOK, EraseGroup
<1>2. \A k \in Group : \A i \in 1 .. Len(pending'[k]) :
          k # uiGroup /\ pending'[k] = pending[k]
  BY <1>1
<1>3. TasksKnown'
  <2>1. ASSUME NEW k \in Group, NEW i \in 1 .. Len(pending'[k]) PROVE Known(pending[k][i])'
    <3> DEFINE t == pending[k][i]
    <3>1. pending'[k] = pending[k] /\ pending[k] \in Seq(Task)
      BY <1>1, <1>2
    <3>2. i \in 1 .. Len(pending[k])
      BY <3>1
    <3>3. t \in Task /\ Known(t)
      BY <3>1, <3>2, TaskTyped DEF TaskInv, TasksKnown
    <3>4. t = pending'[k][i]
      BY <3>1
    <3> HIDE DEF t
    <3>5. t[1] \in Handle' /\ t[2] <= conns'[t[1]].got
      BY <3>3, KnownKept DEF Known
    <3> QED
      BY <3>4, <3>5 DEF Known
  <2> QED
    BY <1>1, <2>1, HandedKnown
<1>4. TasksDiffer'
  BY <1>2 DEF TaskInv, TasksDiffer
<1>5. TaskRunOnce'
  BY <1>1, <1>2 DEF TaskInv, TaskRunOnce
<1> QED
  BY <1>3, <1>4, <1>5 DEF TaskInv

LEMMA RunsTaskKeeps ==
    ASSUME HttpInv, TaskInv, [Next]_vars, RunsTask
    PROVE  TaskInv'
<1>1. /\ queue \in Seq(Task) /\ pending \in [Group -> Seq(Task)] /\ ran \subseteq Task
      /\ queue # <<>> /\ queue' = Tail(queue) /\ ran' = ran \cup {Head(queue)}
      /\ UNCHANGED <<pending, uiGroup>>
  BY DEF HttpInv, HttpTypeOK, RunsTask
<1>2. \A i \in 1 .. Len(queue') : i + 1 \in 2 .. Len(queue) /\ queue'[i] = queue[i + 1]
  BY <1>1, TailAt
<1>3. Head(queue) = queue[1] /\ 1 \in 1 .. Len(queue) /\ Len(queue) \in Nat
  BY <1>1
<1>4. /\ \A i, j \in 1 .. Len(queue) : queue[i] = queue[j] => i = j
      /\ \A i \in 1 .. Len(queue) : queue[i] \notin ran
  BY DEF TaskInv, TaskRunOnce
<1>5. TasksKnown'
  <2>1. ASSUME NEW t \in Task, Known(t) PROVE t[1] \in Handle' /\ t[2] <= conns'[t[1]].got
    BY <2>1, KnownKept DEF Known
  <2>2. ASSUME NEW k \in Group, NEW i \in 1 .. Len(pending'[k]) PROVE Known(pending[k][i])'
    <3>1. pending[k] \in Seq(Task) /\ pending' = pending
      BY <1>1
    <3>2. pending[k][i] \in Task /\ Known(pending[k][i])
      BY <3>1, TaskTyped DEF TaskInv, TasksKnown
    <3> QED
      BY <2>1, <3>1, <3>2 DEF Known
  <2>3. ASSUME NEW i \in 1 .. Len(queue) PROVE queue[i] \in Task /\ Known(queue[i])
    BY <1>1, TaskTyped DEF TaskInv, TasksKnown
  <2>4. ASSUME NEW i \in 1 .. Len(queue') PROVE Known(queue[i])'
    <3>1. \E t \in Task : Known(t) /\ queue'[i] = t
      <4>1. i + 1 \in 1 .. Len(queue)
        BY <1>2, <1>3
      <4> QED
        BY <1>2, <2>3, <4>1
    <3> QED
      BY <2>1, <3>1 DEF Known
  <2>5. ASSUME NEW t \in ran' PROVE Known(t)'
    <3>1. t \in Task /\ Known(t)
      BY <1>1, <1>3, <2>3 DEF TaskInv, TasksKnown
    <3> QED
      BY <2>1, <3>1 DEF Known
  <2> QED
    BY <2>2, <2>4, <2>5 DEF TasksKnown
<1>6. TasksDiffer'
  BY <1>1 DEF TaskInv, TasksDiffer
<1>7. ASSUME NEW i \in 1 .. Len(queue'), NEW j \in 1 .. Len(queue'), queue'[i] = queue'[j]
      PROVE  i = j
  <2>1. i \in Nat /\ j \in Nat
    OBVIOUS
  <2>2. i + 1 = j + 1
    BY <1>2, <1>3, <1>4, <1>7
  <2> QED
    BY <2>1, <2>2
<1>8. ASSUME NEW i \in 1 .. Len(queue') PROVE queue'[i] \notin ran'
  <2>1. i + 1 \in 1 .. Len(queue) /\ i + 1 # 1
    BY <1>2, <1>3
  <2> QED
    BY <1>1, <1>2, <1>3, <1>4, <2>1
<1>9. ASSUME NEW g \in Group, g # uiGroup, NEW i \in 1 .. Len(pending[g])
      PROVE  /\ pending[g][i] \notin ran'
             /\ \A j \in 1 .. Len(queue') : pending[g][i] # queue'[j]
  <2>1. /\ pending[g][i] \notin ran
        /\ \A j \in 1 .. Len(queue) : pending[g][i] # queue[j]
    BY <1>9 DEF TaskInv, TaskRunOnce
  <2>2. \A j \in 1 .. Len(queue') : j + 1 \in 1 .. Len(queue)
    BY <1>2, <1>3
  <2> QED
    BY <1>1, <1>2, <1>3, <2>1, <2>2
<1>10. TaskRunOnce'
  BY <1>1, <1>7, <1>8, <1>9 DEF TaskRunOnce
<1> QED
  BY <1>5, <1>6, <1>10 DEF TaskInv

LEMMA TaskStep == HttpInv /\ TaskInv /\ [Next]_vars => TaskInv'
<1> SUFFICES ASSUME HttpInv, TaskInv, [Next]_vars PROVE TaskInv'
  OBVIOUS
<1>1. CASE SameTasks
  <2>1. pending \in [Group -> Seq(Task)]
    BY DEF HttpInv, HttpTypeOK
  <2>2. pending' = pending /\ UNCHANGED <<queue, ran, uiGroup>>
    BY <1>1 DEF SameTasks
  <2>3. ASSUME NEW k \in Group, NEW i \in 1 .. Len(pending'[k]) PROVE Known(pending[k][i])'
    <3>1. pending[k] \in Seq(Task) /\ i \in 1 .. Len(pending[k])
      BY <2>1, <2>2
    <3>2. pending[k][i] \in Task /\ Known(pending[k][i])
      BY <3>1, TaskTyped DEF TaskInv, TasksKnown
    <3>3. ASSUME NEW t \in Task, Known(t) PROVE t[1] \in Handle' /\ t[2] <= conns'[t[1]].got
      BY <3>3, KnownKept DEF Known
    <3> QED
      BY <2>2, <3>2, <3>3 DEF Known
  <2>4. TasksKnown'
    BY <2>2, <2>3, HandedKnown
  <2> QED
    BY <2>2, <2>4 DEF TaskInv, TasksDiffer, TaskRunOnce
<1> QED
  BY <1>1, TaskSteps, AddsTaskKeeps, MembersDoneKeeps, EraseGroupKeeps, RunsTaskKeeps

\* A group task is handed to the queue thread and run at most once, though requests
\* add to the map while the UI thread walks over an entry and erases it, without a
\* lock (GroupTask.cpp:61, ActivateTask).
THEOREM TasksRunOnce == Spec => []TaskRunOnce
<1>1. HttpInit => HttpInv /\ TaskInv
  BY HttpTypeInit, TasksInit
<1>2. HttpInv /\ TaskInv /\ [Next]_vars => HttpInv' /\ TaskInv'
  BY HttpStep, TaskStep
<1>3. TaskInv => TaskRunOnce
  BY DEF TaskInv
<1> QED
  BY <1>1, <1>2, <1>3, PTL DEF Spec
-----------------------------------------------------------------------------
(***************************************************************************)
(* The parser.  Whatever it reads, its fields keep their types and its     *)
(* assertions hold.                                                        *)
(***************************************************************************)
Headers == {"general", "connection", "content_length", "transfer_encoding",
            "upgrade", "chunked", "keep_alive", "close"}
Flags   == {"upgrade", "keep_alive", "close", "chunked", "trailing"}

Parser == [state : States, header : Headers, flags : SUBSET Flags, length : 0 .. NoLength,
           major : Nat, minor : Nat, method : Method, url : Seq(STRING),
           body : Seq(STRING), complete : BOOLEAN, left : BOOLEAN]

\* Digits have values.
LEMMA DigitValues ==
    /\ \A c \in DOMAIN Hex : Hex[c] \in 0 .. 15
    /\ \A c \in DOMAIN Decimal : Decimal[c] \in 0 .. 15
<1>1. ASSUME NEW i \in 1 .. 16 PROVE (CHOOSE v \in 0 .. 15 : Digits[v + 1] = Digits[i]) \in 0 .. 15
  <2>1. /\ i - 1 \in 0 .. 15 /\ (i - 1) + 1 = i
    OBVIOUS
  <2>2. \E v \in 0 .. 15 : Digits[v + 1] = Digits[i]
    BY <2>1
  <2> QED
    BY <2>2
<1>2. \A c \in DOMAIN Hex : Hex[c] \in 0 .. 15
  BY <1>1 DEF Hex
<1>3. \A c \in DOMAIN Decimal : c \in DOMAIN Hex /\ Decimal[c] = Hex[c]
  BY DEF Decimal, Hex
<1> QED
  BY <1>2, <1>3

LEMMA LengthRoom == NoLength \in Nat /\ NoLength > 15 /\ 2 ^ Width = NoLength + 1
  BY ParserAssumption DEF NoLength

LEMMA Remainders == \A n, m \in Nat : m > 0 => n % m \in 0 .. m - 1
  OBVIOUS

\* What the steps change.
LEMMA ToType ==
    ASSUME NEW q \in Parser, NEW s \in States
    PROVE  To(q, s) \in Parser /\ Error(q) \in Parser /\ Error(q).left = TRUE
  BY DEF To, Error, Parser

LEMMA CompleteType ==
    ASSUME NEW q \in Parser
    PROVE  Complete(q) \in Parser
  BY ZenonT(40) DEF Complete, To, Parser, States, RequestLineStates

UrlStates == InSchema \cup InServer \cup InPath \cup {"spaces_before_url", "server_start"}

\* parse_url_char goes from states of a url to states.
LEMMA UrlStep ==
    ASSUME NEW s \in UrlStates, NEW c \in STRING
    PROVE  ParseUrlChar(s, c) \in States
<1> USE DEF UrlStates, InSchema, InServer, InPath
<1>1. UrlSchema(s, c) \in States
  BY DEF UrlSchema, States, RequestLineStates
<1>2. UrlServer(s, c) \in States
  BY DEF UrlServer, States, RequestLineStates
<1>3. UrlPath(s, c) \in States
  BY DEF UrlPath, States, RequestLineStates
<1> QED
  BY <1>1, <1>2, <1>3 DEF ParseUrlChar

LEMMA UrlType ==
    ASSUME NEW q \in Parser, NEW s \in UrlStates, NEW c \in STRING
    PROVE  UrlFrom(q, s, c) \in Parser
<1>1. Append(q.url, c) \in Seq(STRING)
  BY DEF Parser
<1>2. PICK n \in States : n = ParseUrlChar(s, c)
  BY UrlStep
<1>3. [To(q, n) EXCEPT !.url = Append(@, c)] \in Parser
  BY <1>1 DEF To, Parser
<1> QED
  BY <1>2, <1>3, ToType DEF UrlFrom

\* What the assertions of http_parser_execute say.
ChunkStates == {"chunk_size_start", "chunk_size", "chunk_parameters", "chunk_size_almost_done",
                "chunk_data", "chunk_data_almost_done", "chunk_data_done"}
Asserts(q) ==
    \/ q.left = TRUE
    \/ /\ q.state \in {"body_identity", "chunk_data"} => q.length \notin {0, NoLength}
       /\ q.state \in ChunkStates => "chunked" \in q.flags
       /\ q.state = "chunk_data_almost_done" => q.length = 0
       /\ q.state = "value" => q.header \notin {"connection", "transfer_encoding"}
SizeKnown(q) ==
    q.state \in {"chunk_size", "chunk_parameters", "chunk_size_almost_done"}
        => q.left = TRUE \/ q.length # NoLength

Sound(q) == q \in Parser /\ Asserts(q) /\ SizeKnown(q)

LEMMA StateNames ==
    \A s : s \in {"dead", "body_identity", "chunk_size_start", "chunk_size", "chunk_parameters",
          "chunk_size_almost_done", "chunk_data", "chunk_data_almost_done", "chunk_data_done",
     "field_start", "field", "value_start", "value", "header_almost_done",
     "value_lws", "headers_almost_done",
     "start_req", "req_method", "spaces_before_url", "server_start", "http_start",
     "first_major", "major", "first_minor", "minor", "line_almost_done",
     "schema", "schema_slash", "schema_slash_slash", "server", "server_with_at",
     "path", "query_string_start", "query_string", "fragment_start", "fragment"} => s \in States
  BY DEF States, RequestLineStates, HeaderStates, InSchema, InServer, InPath

\* Only these states come with a promise.
Quiet == States \ ({"body_identity", "value"} \cup ChunkStates)

\* An error ends the loop, and with it every promise.
LEMMA ErrorSound ==
    ASSUME NEW q \in Parser
    PROVE  Sound(Error(q))
<1>1. Error(q) \in Parser /\ Error(q).left = TRUE
  BY DEF Error, Parser
<1> QED
  BY <1>1 DEF Sound, Asserts, SizeKnown

LEMMA CompleteSound ==
    ASSUME NEW q \in Parser
    PROVE  /\ Sound(Complete(q)) /\ Complete(q).complete = TRUE
           /\ Sound([Complete(q) EXCEPT !.left = TRUE])
<1>1. PICK n \in {"start_req", "dead"} : Complete(q) = [To(q, n) EXCEPT !.complete = TRUE]
  BY DEF Complete
<1>2. n \in States
  BY StateNames
<1> QED
  BY <1>1, <1>2 DEF To, Parser, Sound, Asserts, SizeKnown, ChunkStates

LEMMA QuietSound ==
    ASSUME NEW q \in Parser, NEW s \in Quiet
    PROVE  Sound(To(q, s))
<1>1. s \in States
  BY DEF Quiet
<1> QED
  BY <1>1 DEF To, Parser, Sound, Asserts, SizeKnown, ChunkStates, Quiet

\* The states of the request line, one by one.
LEMMA StartReqSound ==
    ASSUME NEW q, Sound(q), q.state = "start_req", NEW c \in STRING
    PROVE  Sound(StartReq(q, c))
<1>1. NoLength \in 0 .. NoLength /\ "req_method" \in States
  BY LengthRoom, StateNames
<1>2. PICK b : b = [q EXCEPT !.flags = {}, !.length = NoLength]
  OBVIOUS
<1>3. b \in Parser
  BY <1>1, <1>2 DEF Sound, Parser
<1>4. ASSUME c \in Method PROVE Sound([To(b, "req_method") EXCEPT !.method = c])
  BY <1>1, <1>3, <1>4 DEF To, Parser, Sound, Asserts, SizeKnown, ChunkStates
<1> QED
  BY <1>2, <1>3, <1>4, ErrorSound DEF StartReq

LEMMA UrlSound ==
    ASSUME NEW q \in Parser, NEW s \in UrlStates, NEW c \in STRING
    PROVE  Sound(UrlFrom(q, s, c))
<1>1. PICK n : n = ParseUrlChar(s, c)
  OBVIOUS
<1>2. n \in Quiet
  <2> USE DEF UrlStates, InSchema, InServer, InPath, Quiet, ChunkStates
  <2>1. UrlSchema(s, c) \in Quiet
    BY StateNames DEF UrlSchema
  <2>2. UrlServer(s, c) \in Quiet
    BY StateNames DEF UrlServer
  <2>3. UrlPath(s, c) \in Quiet
    BY StateNames DEF UrlPath
  <2> QED
    BY <1>1, <2>1, <2>2, <2>3 DEF ParseUrlChar
<1>3. Append(q.url, c) \in Seq(STRING)
  BY DEF Parser
<1>4. Sound([To(q, n) EXCEPT !.url = Append(@, c)])
  BY <1>2, <1>3 DEF To, Parser, Sound, Asserts, SizeKnown, ChunkStates, Quiet
<1> QED
  BY <1>1, <1>4, ErrorSound DEF UrlFrom

\* A step that leaves the state and what is promised of it alone.
LEMMA SameSound ==
    ASSUME NEW q \in Parser, q.state \in Quiet
    PROVE  Sound(q)
  BY DEF Sound, Asserts, SizeKnown, ChunkStates, Quiet

LEMMA QuietNames ==
    \A s : s \in {"dead", "field_start", "field", "value_start", "header_almost_done",
     "value_lws", "headers_almost_done",
     "start_req", "req_method", "spaces_before_url", "server_start", "http_start",
     "first_major", "major", "first_minor", "minor", "line_almost_done",
     "schema", "schema_slash", "schema_slash_slash", "server", "server_with_at",
     "path", "query_string_start", "query_string", "fragment_start", "fragment"} => s \in Quiet
  BY StateNames DEF Quiet, ChunkStates

LEMMA RequestLineSound ==
    ASSUME NEW q, Sound(q), q.state \in RequestLineStates, NEW c \in STRING
    PROVE  Sound(InRequestLine(q, c))
<1> USE DEF InSchema, InServer, InPath
<1>1. q \in Parser
  BY DEF Sound
<1>2. q.state \in Quiet
  BY QuietNames DEF RequestLineStates
<1>3. ASSUME q.state = "req_method" PROVE Sound(ReqMethod(q, c))
  BY <1>1, QuietSound, QuietNames, ErrorSound DEF ReqMethod
<1>4. ASSUME q.state = "spaces_before_url" PROVE Sound(SpacesBeforeUrl(q, c))
  BY <1>1, <1>2, <1>4, SameSound, UrlSound DEF SpacesBeforeUrl, UrlStates
<1>5. ASSUME q.state \in InSchema \cup {"server_start"} PROVE Sound(UrlStart(q, c))
  BY <1>1, <1>5, UrlSound DEF UrlStart, UrlStates
<1>6. ASSUME q.state \in InServer \cup InPath PROVE Sound(Url(q, c))
  <2>1. Sound(To(q, "http_start"))
    BY <1>1, QuietSound, QuietNames
  <2>2. Sound(UrlFrom(q, q.state, c))
    BY <1>1, <1>6, UrlSound DEF UrlStates
  <2>3. ASSUME NEW n \in Quiet PROVE Sound([To(q, n) EXCEPT !.major = 0, !.minor = 9])
    <3>1. n \in States
      BY DEF Quiet
    <3> QED
      BY <1>1, <3>1 DEF To, Parser, Sound, Asserts, SizeKnown, ChunkStates, Quiet
  <2> QED
    BY <2>1, <2>2, <2>3, QuietNames DEF Url
<1>7. ASSUME q.state = "http_start" PROVE Sound(HttpStart(q, c))
  BY <1>1, <1>2, SameSound, QuietSound, QuietNames, ErrorSound DEF HttpStart
<1>8. /\ \A n \in Nat : Sound([To(q, "major") EXCEPT !.major = n])
      /\ \A n \in Nat : Sound([To(q, "minor") EXCEPT !.minor = n])
  <2>1. "major" \in Quiet /\ "minor" \in Quiet /\ Quiet \subseteq States
    BY QuietNames DEF Quiet
  <2> QED
    BY <1>1, <2>1 DEF To, Parser, Sound, Asserts, SizeKnown, ChunkStates
<1>9. /\ \A n \in Nat : q.state = "major" => Sound([q EXCEPT !.major = n])
      /\ \A n \in Nat : q.state = "minor" => Sound([q EXCEPT !.minor = n])
  BY <1>1, <1>2 DEF Parser, Sound, Asserts, SizeKnown, ChunkStates
<1>10. /\ \A c1 \in DOMAIN Decimal : Decimal[c1] \in Nat
       /\ \A c1 \in DOMAIN Decimal : q.major * 10 + Decimal[c1] \in Nat
       /\ \A c1 \in DOMAIN Decimal : q.minor * 10 + Decimal[c1] \in Nat
  <2>1. \A c1 \in DOMAIN Decimal : Decimal[c1] \in Nat
    BY DigitValues
  <2>2. q.major \in Nat /\ q.minor \in Nat
    BY <1>1 DEF Parser
  <2> QED
    BY <2>1, <2>2
<1>11. ASSUME q.state = "first_major" PROVE Sound(FirstMajor(q, c))
  BY <1>1, <1>8, <1>10, ErrorSound DEF FirstMajor
<1>12. ASSUME q.state = "major" PROVE Sound(Major(q, c))
  BY <1>1, <1>9, <1>10, <1>12, ErrorSound, QuietSound, QuietNames DEF Major
<1>13. ASSUME q.state = "first_minor" PROVE Sound(FirstMinor(q, c))
  BY <1>1, <1>8, <1>10, ErrorSound DEF FirstMinor
<1>14. ASSUME q.state = "minor" PROVE Sound(Minor(q, c))
  BY <1>1, <1>9, <1>10, <1>14, ErrorSound, QuietSound, QuietNames DEF Minor
<1>15. Sound(LineAlmostDone(q, c))
  BY <1>1, ErrorSound, QuietSound, QuietNames DEF LineAlmostDone
<1> QED
  BY <1>3, <1>4, <1>5, <1>6, <1>7, <1>11, <1>12, <1>13, <1>14, <1>15, StartReqSound
     DEF InRequestLine, RequestLineStates

\* A longer number is a length.
LEMMA LongerType ==
    ASSUME NEW q \in Parser, NEW base \in {10, 16}, NEW d \in 0 .. 15
    PROVE  \/ Longer(q, base, d) = Error(q)
           \/ \E t \in 0 .. NoLength - 1 : Longer(q, base, d) = [q EXCEPT !.length = t]
<1>1. q.length \in Nat
  BY LengthRoom DEF Parser
<1>2. PICK n \in Nat : n = q.length * base + d
  BY <1>1
<1>3. PICK t : t = n % (NoLength + 1)
  OBVIOUS
<1>4. t \in 0 .. NoLength
  BY <1>3, LengthRoom
<1>5. t = NoLength \/ t \in 0 .. NoLength - 1
  BY <1>4, LengthRoom
<1> QED
  BY <1>2, <1>3, <1>5, LengthRoom DEF Longer

\* The states of the headers.
LEMMA FieldStartSound ==
    ASSUME NEW q \in Parser, NEW c \in STRING
    PROVE  Sound(FieldStart(q, c)) /\ Sound(HeadersAlmostDone(q, c))
<1>1. NoLength \in 0 .. NoLength
  BY LengthRoom
<1>2. Sound(HeadersDone(q, c))
  <2>1. "chunked" \in q.flags => Sound(To(q, "chunk_size_start"))
    BY StateNames DEF To, Parser, Sound, Asserts, SizeKnown, ChunkStates
  <2>2. q.length \notin {0, NoLength} => Sound(To(q, "body_identity"))
    BY StateNames DEF To, Parser, Sound, Asserts, SizeKnown, ChunkStates
  <2> QED
    BY <2>1, <2>2, CompleteSound DEF HeadersDone
<1>3. Sound(HeadersAlmostDone(q, c))
  BY <1>2, ErrorSound, CompleteSound DEF HeadersAlmostDone
<1>4. \A h \in Headers : Sound([To(q, "field") EXCEPT !.header = h])
  BY StateNames DEF To, Parser, Sound, Asserts, SizeKnown, ChunkStates
<1>5. (IF c \in DOMAIN Meaning THEN Meaning[c] ELSE "general") \in Headers
  BY DEF Meaning, Headers, Name
<1> QED
  BY <1>3, <1>4, <1>5, ErrorSound, QuietSound, QuietNames DEF FieldStart

LEMMA FirstOfValueSound ==
    ASSUME NEW q \in Parser, q.state = "value", NEW c \in STRING
    PROVE  Sound(FirstOfValue(q, c))
<1>1. \A h \in {"general", "chunked", "keep_alive", "close"} : Sound([q EXCEPT !.header = h])
  BY ZenonT(40) DEF Parser, Headers, Sound, Asserts, SizeKnown, ChunkStates
<1>2. Sound([q EXCEPT !.flags = @ \cup {"upgrade"}, !.header = "general"])
  BY DEF Parser, Headers, Flags, Sound, Asserts, SizeKnown, ChunkStates
<1>3. ASSUME c \in DOMAIN Decimal, q.header = "content_length"
      PROVE  Sound([q EXCEPT !.length = Decimal[c]])
  <2>1. Decimal[c] \in 0 .. NoLength
    BY <1>3, DigitValues, LengthRoom
  <2> QED
    BY <1>3, <2>1 DEF Parser, Headers, Sound, Asserts, SizeKnown, ChunkStates
<1> QED
  BY <1>1, <1>2, <1>3, ErrorSound DEF FirstOfValue

LEMMA HeadersSound ==
    ASSUME NEW q, Sound(q), q.state \in HeaderStates, NEW c \in STRING
    PROVE  Sound(InHeaders(q, c))
<1>1. q \in Parser
  BY DEF Sound
<1>2. ASSUME q.state = "field" PROVE Sound(Field(q, c))
  <2>1. Sound([q EXCEPT !.header = "general"])
    BY <1>1, <1>2 DEF Parser, Headers, Sound, Asserts, SizeKnown, ChunkStates
  <2> QED
    BY <1>1, <2>1, ErrorSound, QuietSound, QuietNames DEF Field
<1>3. ASSUME q.state = "value_start" PROVE Sound(ValueStart(q, c))
  <2>1. To(q, "value") \in Parser /\ To(q, "value").state = "value"
    BY <1>1, StateNames DEF To, Parser
  <2>2. Sound([To(q, "header_almost_done") EXCEPT !.header = "general"])
    BY <1>1, StateNames DEF To, Parser, Headers, Sound, Asserts, SizeKnown, ChunkStates
  <2> QED
    BY <1>1, <2>1, <2>2, FirstOfValueSound, QuietSound, QuietNames DEF ValueStart
<1>4. Sound(HeaderAlmostDone(q, c))
  <2>1. Sound([To(q, "value_lws") EXCEPT
                 !.flags = @ \cup ({q.header} \cap {"keep_alive", "close", "chunked"})])
    <3>1. q.flags \cup ({q.header} \cap {"keep_alive", "close", "chunked"}) \in SUBSET Flags
      BY <1>1 DEF Parser, Flags
    <3>2. "value_lws" \in States
      BY StateNames
    <3> QED
      BY <1>1, <3>1, <3>2 DEF To, Parser, Sound, Asserts, SizeKnown, ChunkStates
  <2> QED
    BY <1>1, <2>1, ErrorSound DEF HeaderAlmostDone
<1>5. ASSUME q.state = "value" PROVE Sound(Value(q, c))
  <2>1. Sound([q EXCEPT !.header = "general"])
    BY <1>1, <1>5 DEF Parser, Headers, Sound, Asserts, SizeKnown, ChunkStates
  <2>2. ASSUME q.header = "content_length", NEW t \in 0 .. NoLength - 1
        PROVE  Sound([q EXCEPT !.length = t])
    <3>1. t \in 0 .. NoLength
      BY LengthRoom
    <3> QED
      BY <1>1, <1>5, <2>2, <3>1 DEF Parser, Sound, Asserts, SizeKnown, ChunkStates
  <2>3. ASSUME q.header = "content_length", c \in DOMAIN Decimal
        PROVE  Sound(Longer(q, 10, Decimal[c]))
    BY <1>1, <2>2, <2>3, LongerType, DigitValues, ErrorSound
  <2> QED
    BY <1>1, <1>4, <2>1, <2>3, ErrorSound, QuietSound, QuietNames DEF Value
<1>6. Sound(ValueLws(q, c))
  BY <1>1, FieldStartSound, QuietSound, QuietNames DEF ValueLws
<1> QED
  BY <1>1, <1>2, <1>3, <1>4, <1>5, <1>6, FieldStartSound DEF InHeaders, HeaderStates

\* The states of the body: its length goes down to zero and not below.
LEMMA BodyByte ==
    ASSUME NEW q \in Parser, q.length # 0, NEW c \in STRING
    PROVE  /\ Byte(q, c) \in Parser /\ Byte(q, c).length = q.length - 1
           /\ Byte(q, c).length # NoLength
           /\ Byte(q, c).state = q.state /\ Byte(q, c).flags = q.flags
<1>1. Append(q.body, c) \in Seq(STRING)
  BY DEF Parser
<1>2. q.length - 1 \in 0 .. NoLength /\ q.length - 1 # NoLength
  BY LengthRoom DEF Parser
<1> QED
  BY <1>1, <1>2 DEF Byte, Parser

LEMMA BodySound ==
    ASSUME NEW q, Sound(q), q.left = FALSE, q.state \in States,
           q.state \notin RequestLineStates, q.state \notin HeaderStates, NEW c \in STRING
    PROVE  Sound(InBody(q, c))
<1>1. q \in Parser
  BY DEF Sound
<1>2. q.state \in ChunkStates => "chunked" \in q.flags
  BY DEF Sound, Asserts
<1>3. ASSUME q.state = "body_identity" PROVE Sound(BodyIdentity(q, c))
  <2>1. q.length # 0
    BY <1>3 DEF Sound, Asserts
  <2>2. PICK r : r = Byte(q, c)
    OBVIOUS
  <2>3. r \in Parser /\ r.length # NoLength /\ r.state = "body_identity"
    BY <1>1, <1>3, <2>1, <2>2, BodyByte
  <2>4. r.length # 0 => Sound(r)
    BY <2>3 DEF Sound, Asserts, SizeKnown, ChunkStates
  <2> QED
    BY <2>2, <2>3, <2>4, CompleteSound DEF BodyIdentity, MessageDone
<1>4. ASSUME q.state = "chunk_data" PROVE Sound(ChunkData(q, c))
  <2>1. q.length # 0 /\ "chunked" \in q.flags
    BY <1>4 DEF Sound, Asserts, ChunkStates
  <2>2. PICK r : r = Byte(q, c)
    OBVIOUS
  <2>3. r \in Parser /\ r.length # NoLength /\ r.state = "chunk_data" /\ "chunked" \in r.flags
    BY <1>1, <1>4, <2>1, <2>2, BodyByte
  <2>4. r.length # 0 => Sound(r)
    BY <2>3 DEF Sound, Asserts, SizeKnown, ChunkStates
  <2>5. r.length = 0 => Sound(To(r, "chunk_data_almost_done"))
    BY <2>3, StateNames DEF To, Parser, Sound, Asserts, SizeKnown, ChunkStates
  <2> QED
    BY <2>2, <2>4, <2>5 DEF ChunkData
<1>5. ASSUME q.state = "chunk_size_start" PROVE Sound(ChunkSizeStart(q, c))
  <2>1. ASSUME NEW t \in 0 .. 15 PROVE Sound([To(q, "chunk_size") EXCEPT !.length = t])
    <3>1. t \in 0 .. NoLength /\ t # NoLength
      BY LengthRoom
    <3>2. "chunked" \in q.flags
      BY <1>2, <1>5 DEF ChunkStates
    <3> QED
      BY <1>1, <3>1, <3>2, StateNames DEF To, Parser, Sound, Asserts, SizeKnown, ChunkStates
  <2> QED
    BY <1>1, <2>1, DigitValues, ErrorSound DEF ChunkSizeStart
<1>6. ASSUME NEW s \in {"chunk_size_almost_done", "chunk_parameters", "chunk_data_done",
                        "chunk_size_start"},
             q.state \in ChunkStates, q.length # NoLength \/ s \in {"chunk_data_done", "chunk_size_start"}
      PROVE  Sound(To(q, s))
  BY <1>1, <1>2, <1>6, StateNames DEF To, Parser, Sound, Asserts, SizeKnown, ChunkStates
<1>7. ASSUME q.state = "chunk_size" PROVE Sound(ChunkSize(q, c))
  <2>1. q.length # NoLength /\ q.state \in ChunkStates
    BY <1>7 DEF Sound, SizeKnown, ChunkStates
  <2>2. ASSUME NEW t \in 0 .. NoLength - 1 PROVE Sound([q EXCEPT !.length = t])
    <3>1. t \in 0 .. NoLength /\ t # NoLength
      BY LengthRoom
    <3> QED
      BY <1>1, <1>2, <1>7, <2>1, <3>1 DEF Parser, Sound, Asserts, SizeKnown, ChunkStates
  <2>3. ASSUME c \in DOMAIN Hex PROVE Sound(Longer(q, 16, Hex[c]))
    BY <1>1, <2>2, <2>3, LongerType, DigitValues, ErrorSound
  <2> QED
    BY <1>1, <1>6, <2>1, <2>3, ErrorSound DEF ChunkSize
<1>8. ASSUME q.state = "chunk_parameters" PROVE Sound(ChunkParameters(q, c))
  <2>1. q.length # NoLength /\ q.state \in ChunkStates
    BY <1>8 DEF Sound, SizeKnown, ChunkStates
  <2> QED
    BY <1>6, <2>1 DEF ChunkParameters
<1>9. ASSUME q.state = "chunk_size_almost_done" PROVE Sound(ChunkSizeAlmostDone(q, c))
  <2>1. q.length # NoLength /\ q.state \in ChunkStates
    BY <1>9 DEF Sound, SizeKnown, ChunkStates
  <2>2. Sound([To(q, "field_start") EXCEPT !.flags = @ \cup {"trailing"}])
    BY <1>1, StateNames DEF To, Parser, Flags, Sound, Asserts, SizeKnown, ChunkStates
  <2>3. q.length # 0 => Sound(To(q, "chunk_data"))
    BY <1>1, <1>2, <2>1, StateNames DEF To, Parser, Sound, Asserts, SizeKnown, ChunkStates
  <2> QED
    BY <1>1, <2>2, <2>3, ErrorSound DEF ChunkSizeAlmostDone
<1>10. ASSUME q.state = "chunk_data_almost_done" PROVE Sound(ChunkDataAlmostDone(q, c))
  BY <1>1, <1>6, <1>10, ErrorSound DEF ChunkDataAlmostDone, ChunkStates
<1>11. ASSUME q.state = "chunk_data_done" PROVE Sound(ChunkDataDone(q, c))
  BY <1>1, <1>6, <1>11, ErrorSound DEF ChunkDataDone, ChunkStates
<1>12. Sound(Dead(q, c))
  BY <1>1, ErrorSound DEF Dead
<1> QED
  BY <1>3, <1>4, <1>5, <1>7, <1>8, <1>9, <1>10, <1>11, <1>12 DEF InBody, States

\* Every lexeme keeps the types and passes the assertions.
LEMMA ExecuteSound ==
    ASSUME NEW q, Sound(q), NEW c \in STRING
    PROVE  Sound(Execute(q, c))
<1>1. q.left \in BOOLEAN /\ q.state \in States
  BY DEF Sound, Parser
<1>2. CASE q.left = TRUE
  BY <1>2 DEF Execute
<1>3. CASE q.left = FALSE
  BY <1>1, <1>3, RequestLineSound, HeadersSound, BodySound DEF Execute
<1> QED
  BY <1>1, <1>2, <1>3
-----------------------------------------------------------------------------
(***************************************************************************)
(* Where the parser is in a well-formed request r with layout l, when it   *)
(* has read i lexemes of it and is q.                                      *)
(***************************************************************************)
Going(q) == Sound(q) /\ q.left = FALSE /\ q.complete = FALSE
Begun(q) == Going(q) /\ q.flags = {} /\ q.length = NoLength /\ q.method # "CONNECT" /\ q.body = <<>>

OnRequestLine(r, l, i, q) ==
    \/ i < l.method /\ q = Fresh
    \/ /\ Begun(q) /\ q.url = <<>>
       /\ \/ i = l.method /\ q.state = "req_method"
          \/ i = l.method + 1 /\ q.state = "spaces_before_url"
    \/ /\ Begun(q) /\ i \in l.method + 2 .. l.urlEnd - 1
       /\ q.state \in InPath /\ q.url = SubSeq(r.wire, l.method + 2, i)
    \/ /\ Begun(q) /\ q.url = r.url
       /\ \/ i \in l.urlEnd .. l.version - 1 /\ q.state = "http_start"
          \/ i = l.version /\ q.state = "first_major"
          \/ i = l.version + 1 /\ q.state = "major"
          \/ i = l.version + 2 /\ q.state = "first_minor"
          \/ i = l.version + 3 /\ q.state = "minor"
          \/ i = l.version + 4 /\ r.wire[i] = "CR" /\ q.state = "line_almost_done"

NameMeaning(c) == IF c \in DOMAIN Meaning THEN Meaning[c] ELSE "general"
Others == {"general", "keep_alive", "close"}

\* What is known of the header of line k when its value is read up to i.
HeaderAt(w, b, k, i, h) ==
    /\ IsLength(w, b, k) <=> h = "content_length"
    /\ h = "chunked" <=> /\ w[b.line[k]] = "transfer-encoding" /\ w[b.first[k]] = "chunked"
                         /\ All(w, b.first[k] + 1, i + 1, {"SP"})
    /\ h \in Others \cup {"content_length", "chunked"}

\* What the lines before line k have left behind.
LengthBefore(w, value, b, k, n) ==
    \/ n = NoLength /\ \A j \in 1 .. k - 1 : ~IsLength(w, b, j)
    \/ \E j \in 1 .. k - 1 : IsLength(w, b, j) /\ n = value[b.stop[j] - 1]
ChunkedBefore(w, b, k) == \E j \in 1 .. k - 1 : IsChunked(w, b, j)

OnName(w, b, k, i, q) ==
    i = b.line[k] /\ IsHeader(w, b, k) /\ q.state = "field" /\ q.header = NameMeaning(w[i])
Spaces(w, b, k, i, q) ==
    /\ q.state = "value_start" /\ i < b.first[k]
    /\ \/ IsHeader(w, b, k) /\ i > b.line[k] /\ q.header = NameMeaning(w[b.line[k]])
       \/ ~IsHeader(w, b, k) /\ i >= b.line[k] /\ q.header \in Others \cup {"chunked"}
Inside(w, b, k, i, q) ==
    \/ i \in b.first[k] .. b.stop[k] - 1 /\ q.state = "value" /\ HeaderAt(w, b, k, i, q.header)
    \/ /\ i = b.stop[k] /\ w[i] = "CR" /\ q.state = "header_almost_done"
       /\ HeaderAt(w, b, k, i - 1, q.header)
Between(w, b, k, i, q) ==
    /\ i = b.line[k] - 1
    /\ \/ k = 1 /\ q.state = "field_start"
       \/ /\ k > 1 /\ q.state = "value_lws" /\ q.header \in Others \cup {"chunked", "content_length"}
          /\ ~IsLength(w, b, k - 1) => q.header # "content_length"
BlankRead(w, b, k, i, q) ==
    k = Len(b.line) /\ i = b.line[k] /\ w[i] = "CR" /\ q.state = "headers_almost_done"

\* The trailers of a chunked body may have lengths that nobody looks at.
LengthOn(w, value, b, k, trailing, i, n) ==
    IF k \in Lines(b) /\ IsLength(w, b, k) /\ i >= b.first[k]
    THEN n = value[IF i < b.stop[k] THEN i ELSE i - 1]
    ELSE trailing \/ LengthBefore(w, value, b, k, n)

OnLine(w, b, k, i, q) ==
    \/ Between(w, b, k, i, q) \/ BlankRead(w, b, k, i, q)
    \/ k \in Lines(b) /\ (OnName(w, b, k, i, q) \/ Spaces(w, b, k, i, q) \/ Inside(w, b, k, i, q))

FlagsBefore(w, b, k, trailing, flags) ==
    IF trailing THEN "trailing" \in flags
    ELSE /\ flags \cap {"upgrade", "trailing"} = {}
         /\ "chunked" \in flags <=> ChunkedBefore(w, b, k)

\* What is right on line k, whatever the state.
Carries(r, value, b, trailing, k, i, q) ==
    /\ Going(q) /\ q.url = r.url /\ q.method # "CONNECT"
    /\ q.body = IF trailing THEN r.body ELSE <<>>
    /\ FlagsBefore(r.wire, b, k, trailing, q.flags)
    /\ LengthOn(r.wire, value, b, k, trailing, i, q.length)

InBlock(r, value, b, trailing, i, q) ==
    \E k \in 1 .. Len(b.line) :
        OnLine(r.wire, b, k, i, q) /\ Carries(r, value, b, trailing, k, i, q)

\* A step within the body of a request.
Follows(q, e) == Going(e) /\ e.url = q.url /\ e.method = q.method

InIdentity(r, l, i, q) ==
    /\ ~Chunked(r.wire, l.head) /\ Going(q) /\ q.url = r.url
    /\ i \in l.data - 1 .. r.end - 1
    /\ q.state = "body_identity" /\ q.length = r.end - i
    /\ q.body = SubSeq(r.wire, l.data, i)

\* Chunk c: its size, its parameters, the line end after them, its data and the
\* line end after that.
SizeOn(r, l, c, i, q) ==
    /\ q.body = SubSeq(r.body, 1, l.offset[c])
    /\ \/ i = l.chunk[c] - 1 /\ q.state = "chunk_size_start"
       \/ i \in l.chunk[c] .. l.size[c] - 1 /\ q.state = "chunk_size" /\ q.length = l.value[i]
ParametersOn(r, l, c, i, q) ==
    /\ q.body = SubSeq(r.body, 1, l.offset[c]) /\ q.length = ChunkLength(l, c)
    /\ i \in l.size[c] .. l.cr[c] - 1 /\ q.state = "chunk_parameters"
SizeRead(r, l, c, i, q) ==
    /\ q.body = SubSeq(r.body, 1, l.offset[c]) /\ q.length = ChunkLength(l, c)
    /\ i = l.cr[c] /\ q.state = "chunk_size_almost_done"
DataOn(r, l, c, i, q) ==
    LET read == i - (l.cr[c] + 1)
    IN  /\ c \in Chunks(l) /\ read \in 0 .. ChunkLength(l, c) - 1 /\ q.state = "chunk_data"
        /\ q.length = ChunkLength(l, c) - read /\ q.body = SubSeq(r.body, 1, l.offset[c] + read)
DataRead(r, l, c, i, q) ==
    LET read == i - (l.cr[c] + 1)  n == ChunkLength(l, c)
    IN  /\ c \in Chunks(l) /\ q.body = SubSeq(r.body, 1, l.offset[c] + n)
        /\ \/ read = n /\ q.state = "chunk_data_almost_done"
           \/ read = n + 1 /\ q.state = "chunk_data_done"

InChunk(r, l, c, i, q) ==
    \/ SizeOn(r, l, c, i, q) \/ ParametersOn(r, l, c, i, q) \/ SizeRead(r, l, c, i, q)
    \/ DataOn(r, l, c, i, q) \/ DataRead(r, l, c, i, q)

InChunks(r, l, i, q) ==
    /\ Chunked(r.wire, l.head) /\ Going(q) /\ q.url = r.url /\ q.method # "CONNECT"
    /\ \E c \in 1 .. Len(l.chunk) : InChunk(r, l, c, i, q)

Done(r, i, q) ==
    /\ i >= r.end /\ Sound(q) /\ q.left = FALSE /\ q.complete = TRUE
    /\ q.state \in {"start_req", "dead"} /\ q.url = r.url /\ q.body = r.body

Early(r, l, i, q) ==
    \/ OnRequestLine(r, l, i, q)
    \/ InBlock(r, l.value, l.head, FALSE, i, q)
    \/ InIdentity(r, l, i, q)
    \/ InChunks(r, l, i, q)
    \/ Chunked(r.wire, l.head) /\ InBlock(r, l.value, l.trailer, TRUE, i, q)

Reads(r, l, i, q) == Early(r, l, i, q) \/ Done(r, i, q)

\* To changes the state alone.
LEMMA ToKeeps ==
    ASSUME NEW q \in Parser, NEW s \in States
    PROVE  /\ To(q, s) \in Parser /\ To(q, s).state = s
           /\ To(q, s).header = q.header /\ To(q, s).flags = q.flags
           /\ To(q, s).length = q.length /\ To(q, s).method = q.method
           /\ To(q, s).url = q.url /\ To(q, s).body = q.body
           /\ To(q, s).complete = q.complete /\ To(q, s).left = q.left
  BY DEF To, Parser

\* Which operator each state calls.
LEMMA RequestLineDispatch ==
    ASSUME NEW q, q.left = FALSE, NEW c
    PROVE  /\ q.state = "start_req" => Execute(q, c) = StartReq(q, c)
           /\ q.state = "req_method" => Execute(q, c) = ReqMethod(q, c)
           /\ q.state = "spaces_before_url" => Execute(q, c) = SpacesBeforeUrl(q, c)
           /\ q.state \in InPath => Execute(q, c) = Url(q, c)
           /\ q.state = "http_start" => Execute(q, c) = HttpStart(q, c)
           /\ q.state = "first_major" => Execute(q, c) = FirstMajor(q, c)
           /\ q.state = "major" => Execute(q, c) = Major(q, c)
           /\ q.state = "first_minor" => Execute(q, c) = FirstMinor(q, c)
           /\ q.state = "minor" => Execute(q, c) = Minor(q, c)
           /\ q.state = "line_almost_done" => Execute(q, c) = LineAlmostDone(q, c)
<1>1. ASSUME q.state \in RequestLineStates PROVE Execute(q, c) = InRequestLine(q, c)
  BY <1>1 DEF Execute, RequestLineStates, HeaderStates, InSchema, InServer, InPath
<1> USE DEF InSchema, InServer, InPath
<1>2. q.state \in InPath => Execute(q, c) = Url(q, c)
  BY <1>1 DEF InRequestLine, RequestLineStates
<1>3. /\ q.state = "start_req" => Execute(q, c) = StartReq(q, c)
      /\ q.state = "req_method" => Execute(q, c) = ReqMethod(q, c)
      /\ q.state = "spaces_before_url" => Execute(q, c) = SpacesBeforeUrl(q, c)
  BY <1>1 DEF InRequestLine, RequestLineStates
<1>4. /\ q.state = "http_start" => Execute(q, c) = HttpStart(q, c)
      /\ q.state = "first_major" => Execute(q, c) = FirstMajor(q, c)
      /\ q.state = "major" => Execute(q, c) = Major(q, c)
  BY <1>1 DEF InRequestLine, RequestLineStates
<1>5. /\ q.state = "first_minor" => Execute(q, c) = FirstMinor(q, c)
      /\ q.state = "minor" => Execute(q, c) = Minor(q, c)
      /\ q.state = "line_almost_done" => Execute(q, c) = LineAlmostDone(q, c)
  BY <1>1 DEF InRequestLine, RequestLineStates
<1> QED
  BY <1>2, <1>3, <1>4, <1>5

LEMMA HeaderDispatch ==
    ASSUME NEW q, q.left = FALSE, NEW c
    PROVE  /\ q.state = "field_start" => Execute(q, c) = FieldStart(q, c)
           /\ q.state = "field" => Execute(q, c) = Field(q, c)
           /\ q.state = "value_start" => Execute(q, c) = ValueStart(q, c)
           /\ q.state = "value" => Execute(q, c) = Value(q, c)
           /\ q.state = "header_almost_done" => Execute(q, c) = HeaderAlmostDone(q, c)
           /\ q.state = "value_lws" => Execute(q, c) = ValueLws(q, c)
           /\ q.state = "headers_almost_done" => Execute(q, c) = HeadersAlmostDone(q, c)
  BY DEF Execute, InHeaders, RequestLineStates, HeaderStates, InSchema, InServer, InPath

LEMMA BodyDispatch ==
    ASSUME NEW q, q.left = FALSE, NEW c
    PROVE  /\ q.state = "dead" => Execute(q, c) = Dead(q, c)
           /\ q.state = "body_identity" => Execute(q, c) = BodyIdentity(q, c)
           /\ q.state = "chunk_size_start" => Execute(q, c) = ChunkSizeStart(q, c)
           /\ q.state = "chunk_size" => Execute(q, c) = ChunkSize(q, c)
           /\ q.state = "chunk_parameters" => Execute(q, c) = ChunkParameters(q, c)
           /\ q.state = "chunk_size_almost_done" => Execute(q, c) = ChunkSizeAlmostDone(q, c)
           /\ q.state = "chunk_data" => Execute(q, c) = ChunkData(q, c)
           /\ q.state = "chunk_data_almost_done" => Execute(q, c) = ChunkDataAlmostDone(q, c)
           /\ q.state = "chunk_data_done" => Execute(q, c) = ChunkDataDone(q, c)
  BY DEF Execute, InBody, RequestLineStates, HeaderStates, InSchema, InServer, InPath

\* One more element of a part of a sequence.
LEMMA PartGrows ==
    ASSUME NEW w \in Seq(STRING), NEW a \in Nat \ {0}, NEW i \in Nat, a <= i + 1, i + 1 <= Len(w)
    PROVE  /\ SubSeq(w, a, i) \in Seq(STRING)
           /\ Append(SubSeq(w, a, i), w[i + 1]) = SubSeq(w, a, i + 1)
<1>1. \A j \in a .. i + 1 : w[j] \in STRING
  OBVIOUS
<1>2. /\ SubSeq(w, a, i) \in Seq(STRING) /\ SubSeq(w, a, i + 1) \in Seq(STRING)
      /\ Len(SubSeq(w, a, i)) = i - a + 1 /\ Len(SubSeq(w, a, i + 1)) = i + 1 - a + 1
      /\ \A j \in 1 .. i - a + 1 : SubSeq(w, a, i)[j] = w[a + j - 1]
      /\ \A j \in 1 .. i + 1 - a + 1 : SubSeq(w, a, i + 1)[j] = w[a + j - 1]
  <2>1. /\ SubSeq(w, a, i) \in Seq(STRING)
        /\ Len(SubSeq(w, a, i)) = IF a <= i THEN i - a + 1 ELSE 0
        /\ \A j \in 1 .. i - a + 1 : SubSeq(w, a, i)[j] = w[a + j - 1]
    BY <1>1, SubSeqProperties
  <2>2. /\ SubSeq(w, a, i + 1) \in Seq(STRING)
        /\ Len(SubSeq(w, a, i + 1)) = i + 1 - a + 1
        /\ \A j \in 1 .. i + 1 - a + 1 : SubSeq(w, a, i + 1)[j] = w[a + j - 1]
    BY <1>1, SubSeqProperties
  <2> QED
    BY <2>1, <2>2
<1>3. PICK s \in Seq(STRING) : s = SubSeq(w, a, i)
  BY <1>2
<1>4. PICK t \in Seq(STRING) : t = SubSeq(w, a, i + 1)
  BY <1>2
<1>5. /\ Append(s, w[i + 1]) \in Seq(STRING) /\ Len(Append(s, w[i + 1])) = Len(s) + 1
      /\ \A j \in 1 .. Len(s) : Append(s, w[i + 1])[j] = s[j]
      /\ Append(s, w[i + 1])[Len(s) + 1] = w[i + 1]
  BY <1>1, AppendProperties
<1>6. Append(s, w[i + 1]) = t
  <2>1. Len(t) = Len(s) + 1 /\ Len(s) = i - a + 1
    BY <1>2, <1>3, <1>4
  <2>2. ASSUME NEW j \in 1 .. Len(t) PROVE Append(s, w[i + 1])[j] = t[j]
    <3>1. j \in 1 .. Len(s) \/ j = Len(s) + 1
      BY <2>1
    <3>2. CASE j \in 1 .. Len(s)
      BY <1>2, <1>3, <1>4, <1>5, <2>1, <3>2
    <3>3. CASE j = Len(s) + 1
      BY <1>2, <1>3, <1>4, <1>5, <2>1, <3>3
    <3> QED
      BY <3>1, <3>2, <3>3
  <2> QED
    BY <1>5, <2>1, <2>2, SeqEqual
<1> QED
  BY <1>2, <1>3, <1>4, <1>6

\* http_parser_init.
LEMMA FreshSound == Sound(Fresh)
  BY LengthRoom, StateNames
     DEF Fresh, Sound, Parser, Headers, Flags, Method, Asserts, SizeKnown, ChunkStates

\* The parts of a line come one after the other.
LEMMA LineOrder ==
    ASSUME NEW w, NEW value, NEW b, Block(w, value, b), NEW k \in Lines(b)
    PROVE  /\ k \in 1 .. Len(b.line) /\ k + 1 \in 1 .. Len(b.line)
           /\ {b.line[k], b.line[k + 1]} \subseteq Nat \ {0}
           /\ {b.first[k], b.stop[k]} \subseteq Nat
           /\ b.line[k] < b.first[k] /\ b.first[k] < b.stop[k] /\ b.stop[k] < b.line[k + 1]
<1>1. Len(b.line) \in Nat /\ b.line \in Seq(Nat \ {0})
  BY DEF Block
<1>2. k \in 1 .. Len(b.line) /\ k + 1 \in 1 .. Len(b.line)
  BY <1>1 DEF Lines
<1>3. {b.line[k], b.line[k + 1]} \subseteq Nat \ {0}
  BY <1>1, <1>2
<1>4. {b.first[k], b.stop[k]} \subseteq Nat /\ LineAt(w, value, b, k)
  BY DEF Block
<1>5. b.line[k] < b.first[k]
  BY <1>3, <1>4 DEF LineAt, LineStart
<1> QED
  BY <1>2, <1>3, <1>4, <1>5 DEF LineAt, LineEndAt

\* A block has a first line, and begins on it.
LEMMA BlockStart ==
    ASSUME NEW r, NEW value, NEW b, Block(r.wire, value, b), NEW trailing \in BOOLEAN,
           NEW q, Going(q), q.url = r.url, q.method # "CONNECT",
           q.body = IF trailing THEN r.body ELSE <<>>,
           IF trailing THEN "trailing" \in q.flags ELSE q.flags = {} /\ q.length = NoLength,
           q.state = "field_start"
    PROVE  InBlock(r, value, b, trailing, b.line[1] - 1, q)
<1>1. 1 \in 1 .. Len(b.line) /\ b.line[1] \in Nat \ {0}
  BY DEF Block
<1>2. OnLine(r.wire, b, 1, b.line[1] - 1, q)
  BY DEF OnLine, Between
<1>3. FlagsBefore(r.wire, b, 1, trailing, q.flags)
  BY DEF FlagsBefore, ChunkedBefore
<1>4. LengthOn(r.wire, value, b, 1, trailing, b.line[1] - 1, q.length)
  <2>1. 1 \in Lines(b) => ~(b.line[1] - 1 >= b.first[1])
    BY <1>1, LineOrder
  <2>2. trailing \/ LengthBefore(r.wire, value, b, 1, q.length)
    BY DEF LengthBefore
  <2> QED
    BY <2>1, <2>2 DEF LengthOn
<1> QED
  BY <1>1, <1>2, <1>3, <1>4 DEF InBlock, Carries

\* The digits, one by one.
LEMMA TokenNames ==
    /\ DOMAIN Hex = {"0", "1", "2", "3", "4", "5", "6", "7", "8", "9", "a", "b", "c", "d", "e", "f"}
    /\ DOMAIN Decimal = {"0", "1", "2", "3", "4", "5", "6", "7", "8", "9"}
    /\ Letter = {"a", "b", "c", "d", "e", "f"}
<1>1. DOMAIN Hex = {Digits[i] : i \in 1 .. 16} /\ DOMAIN Decimal = {Digits[i] : i \in 1 .. 10}
  BY DEF Hex, Decimal
<1>2. ASSUME NEW i \in 1 .. 16 PROVE \/ i = 1 \/ i = 2 \/ i = 3 \/ i = 4 \/ i = 5 \/ i = 6 \/ i = 7 \/ i = 8
                                     \/ i = 9 \/ i = 10 \/ i = 11 \/ i = 12 \/ i = 13 \/ i = 14 \/ i = 15 \/ i = 16
  OBVIOUS
<1>3. /\ Digits[1] = "0" /\ Digits[2] = "1" /\ Digits[3] = "2" /\ Digits[4] = "3"
      /\ Digits[5] = "4" /\ Digits[6] = "5" /\ Digits[7] = "6" /\ Digits[8] = "7"
      /\ Digits[9] = "8" /\ Digits[10] = "9" /\ Digits[11] = "a" /\ Digits[12] = "b"
      /\ Digits[13] = "c" /\ Digits[14] = "d" /\ Digits[15] = "e" /\ Digits[16] = "f"
  BY DEF Digits
<1>4. /\ {Digits[i] : i \in 1 .. 16} \subseteq {"0", "1", "2", "3", "4", "5", "6", "7", "8", "9", "a", "b", "c", "d", "e", "f"}
      /\ {Digits[i] : i \in 1 .. 10} \subseteq {"0", "1", "2", "3", "4", "5", "6", "7", "8", "9"}
      /\ {Digits[i] : i \in 11 .. 16} \subseteq {"a", "b", "c", "d", "e", "f"}
  BY <1>3
<1>5. /\ \A s \in {"0", "1", "2", "3", "4", "5", "6", "7", "8", "9"} : \E i \in 1 .. 10 : s = Digits[i]
  BY <1>3
<1>6. \A s \in {"a", "b", "c", "d", "e", "f"} : \E i \in 11 .. 16 : s = Digits[i]
  BY <1>3
<1>7. DOMAIN Decimal = {"0", "1", "2", "3", "4", "5", "6", "7", "8", "9"}
  <2>1. {"0", "1", "2", "3", "4", "5", "6", "7", "8", "9"} \subseteq {Digits[i] : i \in 1 .. 10}
    BY <1>5
  <2> QED
    BY <1>1, <1>4, <2>1, ZenonT(40)
<1>8. Letter = {"a", "b", "c", "d", "e", "f"}
  BY <1>4, <1>6 DEF Letter
<1>9. \A i \in (1 .. 10) \cup (11 .. 16) : i \in 1 .. 16
  OBVIOUS
<1>10. DOMAIN Hex = {"0", "1", "2", "3", "4", "5", "6", "7", "8", "9", "a", "b", "c", "d", "e", "f"}
  <2>1. {"0", "1", "2", "3", "4", "5", "6", "7", "8", "9"} \subseteq {Digits[i] : i \in 1 .. 16}
    BY <1>5, <1>9
  <2>2. {"a", "b", "c", "d", "e", "f"} \subseteq {Digits[i] : i \in 1 .. 16}
    BY <1>6, <1>9
  <2>3. {"0", "1", "2", "3", "4", "5", "6", "7", "8", "9", "a", "b", "c", "d", "e", "f"}
            \subseteq {Digits[i] : i \in 1 .. 16}
    BY <2>1, <2>2
  <2>4. /\ DOMAIN Hex \subseteq {"0", "1", "2", "3", "4", "5", "6", "7", "8", "9", "a", "b", "c", "d", "e", "f"}
        /\ {"0", "1", "2", "3", "4", "5", "6", "7", "8", "9", "a", "b", "c", "d", "e", "f"} \subseteq DOMAIN Hex
    BY <1>1, <1>4, <2>3
  <2> QED
    BY <2>4, Zenon
<1> QED
  BY <1>7, <1>8, <1>10

\* What a path goes on with.
LEMMA UrlGoesOn ==
    /\ \A s \in InPath : \A c \in UrlChar \cup {"?", "#"} : ParseUrlChar(s, c) \in InPath
    /\ \A c \in {"/", "*"} : ParseUrlChar("spaces_before_url", c) = "path"
<1> USE DEF InPath, InSchema, InServer
<1>1. ASSUME NEW s \in InPath, NEW c \in UrlChar \cup {"?", "#"} PROVE UrlPath(s, c) \in InPath
  BY <1>1 DEF UrlPath
<1>2. \A s \in InPath : \A c : ParseUrlChar(s, c) = UrlPath(s, c)
  BY DEF ParseUrlChar
<1>3. \A c \in {"/", "*"} : ParseUrlChar("spaces_before_url", c) = "path"
  BY TokenNames DEF ParseUrlChar, UrlSchema
<1> QED
  BY <1>1, <1>2, <1>3

\* A character of a url ends no line.
LEMMA UrlCharNames ==
    \A c \in UrlChar \cup {"?", "#"} : c \notin LineEnd \cup {"SP"}
  BY TokenNames DEF UrlChar, UserInfo, LineEnd

LEMMA LexemeType ==
    ASSUME NEW w \in Seq(STRING), NEW i \in Nat, i < Len(w)
    PROVE  w[i + 1] \in STRING
<1>1. i + 1 \in 1 .. Len(w)
  OBVIOUS
<1> QED
  BY <1>1

\* The request line, up to its method.
LEMMA MethodStep ==
    ASSUME NEW r, NEW l, r.wire \in Seq(STRING), RequestLine(r.wire, l),
           NEW i \in Nat, i < Len(r.wire), i < l.method
    PROVE  OnRequestLine(r, l, i + 1, Execute(Fresh, r.wire[i + 1]))
<1>1. PICK c : c = r.wire[i + 1]
  OBVIOUS
<1>2. l.method \in Nat /\ c \in STRING
  BY <1>1, LexemeType DEF RequestLine
<1>3. Execute(Fresh, c) = StartReq(Fresh, c) /\ Sound(Execute(Fresh, c))
  BY <1>2, FreshSound, ExecuteSound, RequestLineDispatch DEF Fresh
<1>4. CASE i + 1 < l.method
  <2>1. c \in LineEnd
    BY <1>1, <1>2, <1>4 DEF RequestLine, All
  <2>2. Execute(Fresh, c) = Fresh
    BY <1>3, <2>1 DEF StartReq
  <2> QED
    BY <1>1, <1>4, <2>2 DEF OnRequestLine
<1>5. CASE i + 1 = l.method
  <2>1. c \in Method \ {"CONNECT"} /\ c \notin LineEnd
    BY <1>1, <1>5 DEF RequestLine, Method, LineEnd
  <2>2. PICK e : e = Execute(Fresh, c)
    OBVIOUS
  <2>3. /\ e.state = "req_method" /\ e.method = c /\ e.flags = {} /\ e.length = NoLength
        /\ e.url = <<>> /\ e.body = <<>> /\ e.complete = FALSE /\ e.left = FALSE
    BY <1>3, <2>1, <2>2, ZenonT(40) DEF StartReq, Fresh, To
  <2> QED
    BY <1>1, <1>3, <1>5, <2>1, <2>2, <2>3 DEF OnRequestLine, Begun, Going
<1> QED
  BY <1>2, <1>4, <1>5

\* The url of a request, from its first lexeme to the space after it.
LEMMA UrlBegins ==
    ASSUME NEW r, NEW l, r.wire \in Seq(STRING), RequestLine(r.wire, l),
           NEW i \in Nat, i < Len(r.wire), NEW q, Begun(q), q.url = <<>>,
           \/ i = l.method /\ q.state = "req_method"
           \/ i = l.method + 1 /\ q.state = "spaces_before_url"
    PROVE  OnRequestLine(r, l, i + 1, Execute(q, r.wire[i + 1]))
<1>1. PICK c : c = r.wire[i + 1]
  OBVIOUS
<1>2. l.method \in Nat \ {0} /\ l.urlEnd \in Nat /\ l.version \in Nat /\ l.method + 2 < l.urlEnd /\ l.urlEnd < l.version
  BY DEF RequestLine
<1>3. Going(q) /\ Sound(q) /\ q \in Parser /\ q.left = FALSE /\ q.method # "CONNECT"
  BY DEF Begun, Going, Sound
<1>4. PICK e : e = Execute(q, c)
  OBVIOUS
<1>5. Sound(e) /\ q \in Parser /\ c \in STRING
  BY <1>1, <1>3, <1>4, ExecuteSound, LexemeType
<1>6. CASE i = l.method
  <2>1. c = "SP" /\ q.state = "req_method"
    BY <1>1, <1>2, <1>3, <1>6 DEF RequestLine
  <2>2. e = To(q, "spaces_before_url")
    BY <1>3, <1>4, <2>1, RequestLineDispatch DEF ReqMethod, Begun, Going
  <2>3. Begun(e) /\ e.url = <<>> /\ e.state = "spaces_before_url"
    BY <1>3, <1>5, <2>2, StateNames, ToKeeps DEF Begun, Going
  <2> QED
    BY <1>1, <1>4, <1>6, <2>3 DEF OnRequestLine
<1>7. CASE i = l.method + 1
  <2>1. c \in {"/", "*"} /\ q.state = "spaces_before_url" /\ i + 1 = l.method + 2
    BY <1>1, <1>2, <1>3, <1>7 DEF RequestLine
  <2>2. e = UrlFrom(q, "spaces_before_url", c)
    <3>1. e = SpacesBeforeUrl(q, c)
      BY <1>3, <1>4, <2>1, RequestLineDispatch
    <3>2. c # "SP"
      BY <2>1
    <3> QED
      BY <1>3, <2>1, <3>1, <3>2 DEF SpacesBeforeUrl
  <2>3. e = [To(q, "path") EXCEPT !.url = Append(@, c)]
    BY <2>1, <2>2, UrlGoesOn DEF UrlFrom
  <2>4. Begun(e) /\ e.url = Append(<<>>, c) /\ e.state = "path"
    BY <1>3, <1>5, <2>3 DEF Begun, Going, To, Parser
  <2>5. Append(<<>>, c) = SubSeq(r.wire, l.method + 2, i + 1)
    <3>1. SubSeq(r.wire, l.method + 2, i) = <<>>
      BY <1>2, <2>1, SubSeqEmpty
    <3> QED
      BY <1>1, <1>2, <2>1, <3>1, PartGrows, SMTT(30)
  <2>6. i + 1 \in l.method + 2 .. l.urlEnd - 1 /\ "path" \in InPath
    BY <1>2, <2>1 DEF InPath
  <2> QED
    BY <1>1, <1>4, <2>4, <2>5, <2>6 DEF OnRequestLine
<1> QED
  BY <1>6, <1>7

LEMMA UrlContinues ==
    ASSUME NEW r, NEW l, r.wire \in Seq(STRING), RequestLine(r.wire, l),
           r.url = SubSeq(r.wire, l.method + 2, l.urlEnd - 1),
           NEW i \in Nat, i < Len(r.wire), i \in l.method + 2 .. l.urlEnd - 1,
           NEW q, Begun(q), q.state \in InPath, q.url = SubSeq(r.wire, l.method + 2, i)
    PROVE  OnRequestLine(r, l, i + 1, Execute(q, r.wire[i + 1]))
<1>1. PICK c : c = r.wire[i + 1]
  OBVIOUS
<1>2. l.method \in Nat \ {0} /\ l.urlEnd \in Nat /\ l.version \in Nat /\ l.method + 2 < l.urlEnd /\ l.urlEnd < l.version
  BY DEF RequestLine
<1>3. Going(q) /\ Sound(q) /\ q \in Parser /\ q.left = FALSE
  BY DEF Begun, Going, Sound
<1>4. PICK e : e = Execute(q, c)
  OBVIOUS
<1>5. Sound(e) /\ q \in Parser /\ c \in STRING
  BY <1>1, <1>3, <1>4, ExecuteSound, LexemeType
<1>6. e = Url(q, c)
  BY <1>3, <1>4, RequestLineDispatch DEF Begun, Going
<1>7. CASE i + 1 < l.urlEnd
  <2>1. c \in UrlChar \cup {"?", "#"}
    <3>1. i + 1 \in l.method + 3 .. l.urlEnd - 1
      BY <1>2, <1>7, SMTT(30)
    <3> QED
      BY <1>1, <3>1 DEF RequestLine, All
  <2>2. PICK s \in InPath : s = ParseUrlChar(q.state, c)
    BY <1>3, <2>1, UrlGoesOn
  <2>3. e = [To(q, s) EXCEPT !.url = Append(@, c)]
    <3>1. c \notin LineEnd /\ c # "SP" /\ s # "dead"
      BY <2>1, UrlCharNames DEF InPath
    <3> QED
      BY <1>6, <2>2, <3>1 DEF Url, UrlFrom
  <2>4. Begun(e) /\ e.url = Append(q.url, c) /\ e.state = s
    BY <1>3, <1>5, <2>3 DEF Begun, Going, To, Parser
  <2>5. Append(q.url, c) = SubSeq(r.wire, l.method + 2, i + 1)
    <3>1. l.method + 2 \in Nat \ {0} /\ l.method + 2 <= i + 1 /\ i + 1 <= Len(r.wire)
      BY <1>2, SMTT(30)
    <3> QED
      BY <1>1, <3>1, PartGrows
  <2>6. i + 1 \in l.method + 2 .. l.urlEnd - 1
    BY <1>2, <1>7, SMTT(30)
  <2> QED
    BY <1>1, <1>4, <2>4, <2>5, <2>6 DEF OnRequestLine
<1>8. CASE i + 1 = l.urlEnd
  <2>1. c = "SP"
    <3>1. i + 1 \in l.urlEnd .. l.version - 1
      BY <1>2, <1>8
    <3> QED
      BY <1>1, <3>1 DEF RequestLine, All
  <2>2. e = To(q, "http_start")
    BY <1>6, <2>1 DEF Url, LineEnd
  <2>3. Begun(e) /\ e.url = q.url /\ e.state = "http_start"
    BY <1>3, <1>5, <2>2, StateNames, ToKeeps DEF Begun, Going
  <2>4. q.url = r.url
    <3>1. \A n \in Nat : i + 1 = n => i = n - 1
      OBVIOUS
    <3>2. i = l.urlEnd - 1
      BY <1>2, <1>8, <3>1
    <3> QED
      BY <3>2
  <2>5. i + 1 \in l.urlEnd .. l.version - 1
    BY <1>2, <1>8
  <2> QED
    BY <1>1, <1>4, <2>3, <2>4, <2>5 DEF OnRequestLine
<1> QED
  BY <1>2, <1>7, <1>8

\* The version, and the line end after it.
LEMMA VersionStep ==
    ASSUME NEW r, NEW l, r.wire \in Seq(STRING), RequestLine(r.wire, l),
           NEW i \in Nat, i < Len(r.wire),
           NEW q, Begun(q), q.url = r.url,
           \/ i \in l.urlEnd .. l.version - 1 /\ q.state = "http_start"
           \/ i = l.version /\ q.state = "first_major"
           \/ i = l.version + 1 /\ q.state = "major"
           \/ i = l.version + 2 /\ q.state = "first_minor"
    PROVE  OnRequestLine(r, l, i + 1, Execute(q, r.wire[i + 1]))
<1>1. PICK c : c = r.wire[i + 1]
  OBVIOUS
<1>2. l.urlEnd \in Nat /\ l.version \in Nat /\ l.urlEnd < l.version
  BY DEF RequestLine
<1>3. Going(q) /\ Sound(q) /\ q \in Parser /\ q.left = FALSE /\ q.url = r.url
  BY DEF Begun, Going, Sound
<1>4. PICK e : e = Execute(q, c)
  OBVIOUS
<1>5. Sound(e) /\ c \in STRING
  BY <1>1, <1>3, <1>4, ExecuteSound, LexemeType
<1>6. "." \notin DOMAIN Decimal
  BY TokenNames
<1>7. CASE i \in l.urlEnd .. l.version - 1 /\ q.state = "http_start"
  <2>1. e = HttpStart(q, c)
    BY <1>3, <1>4, <1>7, RequestLineDispatch
  <2>2. CASE i + 1 < l.version
    <3>1. i + 1 \in l.urlEnd .. l.version - 1
      BY <1>2, <1>7, <2>2
    <3>2. c = "SP"
      BY <1>1, <3>1 DEF RequestLine, All
    <3>3. e = q
      BY <2>1, <3>2 DEF HttpStart
    <3> QED
      BY <1>1, <1>4, <1>7, <3>1, <3>3 DEF OnRequestLine
  <2>3. CASE i + 1 = l.version
    <3>1. c = "HTTP/"
      BY <1>1, <2>3 DEF RequestLine
    <3>2. e = To(q, "first_major")
      BY <2>1, <3>1 DEF HttpStart
    <3>3. Begun(e) /\ e.url = r.url /\ e.state = "first_major"
      BY <1>3, <1>5, <3>2, StateNames, ToKeeps DEF Begun, Going
    <3> QED
      BY <1>1, <1>4, <2>3, <3>3 DEF OnRequestLine
  <2> QED
    BY <1>2, <1>7, <2>2, <2>3
<1>8. CASE i = l.version /\ q.state = "first_major"
  <2>1. c \in DOMAIN Decimal \ {"0"}
    BY <1>1, <1>8 DEF RequestLine
  <2>2. e = [To(q, "major") EXCEPT !.major = Decimal[c]]
    BY <1>3, <1>4, <1>8, <2>1, RequestLineDispatch DEF FirstMajor
  <2>3. Begun(e) /\ e.url = r.url /\ e.state = "major"
    BY <1>3, <1>5, <2>2 DEF Begun, Going, To, Parser
  <2> QED
    BY <1>1, <1>4, <1>8, <2>3 DEF OnRequestLine
<1>9. CASE i = l.version + 1 /\ q.state = "major"
  <2>1. c = "." /\ i + 1 = l.version + 2
    BY <1>1, <1>2, <1>9 DEF RequestLine
  <2>2. e = To(q, "first_minor")
    BY <1>3, <1>4, <1>6, <1>9, <2>1, RequestLineDispatch, ZenonT(40) DEF Major
  <2>3. Begun(e) /\ e.url = r.url /\ e.state = "first_minor"
    BY <1>3, <1>5, <2>2, StateNames, ToKeeps DEF Begun, Going
  <2> QED
    BY <1>1, <1>4, <2>1, <2>3 DEF OnRequestLine
<1>10. CASE i = l.version + 2 /\ q.state = "first_minor"
  <2>1. c \in DOMAIN Decimal /\ i + 1 = l.version + 3
    BY <1>1, <1>2, <1>10 DEF RequestLine
  <2>2. e = [To(q, "minor") EXCEPT !.minor = Decimal[c]]
    BY <1>3, <1>4, <1>10, <2>1, RequestLineDispatch DEF FirstMinor
  <2>3. Begun(e) /\ e.url = r.url /\ e.state = "minor"
    BY <1>3, <1>5, <2>2 DEF Begun, Going, To, Parser
  <2> QED
    BY <1>1, <1>4, <2>1, <2>3 DEF OnRequestLine
<1> QED
  BY <1>7, <1>8, <1>9, <1>10

\* The end of the request line, after which the headers begin.
LEMMA RequestLineEnd ==
    ASSUME NEW r, NEW l, r.wire \in Seq(STRING), RequestLine(r.wire, l),
           Block(r.wire, l.value, l.head), LineEndAt(r.wire, l.version + 4, l.head.line[1]),
           NEW i \in Nat, i < Len(r.wire),
           NEW q, Begun(q), q.url = r.url,
           \/ i = l.version + 3 /\ q.state = "minor"
           \/ i = l.version + 4 /\ r.wire[i] = "CR" /\ q.state = "line_almost_done"
    PROVE  \/ OnRequestLine(r, l, i + 1, Execute(q, r.wire[i + 1]))
           \/ InBlock(r, l.value, l.head, FALSE, i + 1, Execute(q, r.wire[i + 1]))
<1>1. PICK c : c = r.wire[i + 1]
  OBVIOUS
<1>2. l.version \in Nat /\ l.head.line[1] \in Nat
  <2>1. 1 \in 1 .. Len(l.head.line)
    BY DEF Block
  <2> QED
    BY <2>1 DEF RequestLine, Block
<1>3. Going(q) /\ Sound(q) /\ q \in Parser /\ q.left = FALSE /\ q.url = r.url
  BY DEF Begun, Going, Sound
<1>4. PICK e : e = Execute(q, c)
  OBVIOUS
<1>5. Sound(e) /\ c \in STRING
  BY <1>1, <1>3, <1>4, ExecuteSound, LexemeType
<1>6. ASSUME e = To(q, "field_start"), i + 1 = l.head.line[1] - 1
      PROVE  InBlock(r, l.value, l.head, FALSE, i + 1, e)
  <2>1. Begun(e) /\ e.url = r.url /\ e.state = "field_start"
    BY <1>3, <1>5, <1>6, StateNames, ToKeeps DEF Begun, Going
  <2> QED
    BY <1>6, <2>1, BlockStart DEF Begun
<1>7. CASE i = l.version + 3 /\ q.state = "minor"
  <2>1. e = Minor(q, c)
    BY <1>3, <1>4, <1>7, RequestLineDispatch
  <2>2. i + 1 = l.version + 4
    BY <1>2, <1>7
  <2>3. CASE c = "LF" /\ l.head.line[1] = l.version + 5
    <3>1. e = To(q, "field_start") /\ i + 1 = l.head.line[1] - 1
      BY <1>2, <2>1, <2>2, <2>3, TokenNames DEF Minor
    <3> QED
      BY <1>1, <1>4, <1>6, <3>1
  <2>4. CASE c = "CR"
    <3>1. e = To(q, "line_almost_done")
      BY <2>1, <2>4, TokenNames DEF Minor
    <3>2. Begun(e) /\ e.url = r.url /\ e.state = "line_almost_done"
      BY <1>3, <1>5, <3>1, StateNames, ToKeeps DEF Begun, Going
    <3> QED
      BY <1>1, <1>4, <2>2, <2>4, <3>2 DEF OnRequestLine
  <2>5. \/ l.head.line[1] = l.version + 4 + 1 /\ r.wire[l.version + 4] = "LF"
        \/ r.wire[l.version + 4] = "CR"
    BY DEF LineEndAt
  <2>6. l.version + 4 + 1 = l.version + 5
    BY <1>2
  <2> QED
    BY <1>1, <2>2, <2>3, <2>4, <2>5, <2>6
<1>8. CASE i = l.version + 4 /\ r.wire[i] = "CR" /\ q.state = "line_almost_done"
  <2>1. l.head.line[1] = l.version + 6 /\ c = "LF"
    BY <1>1, <1>2, <1>8 DEF LineEndAt
  <2>2. e = To(q, "field_start")
    BY <1>3, <1>4, <1>8, <2>1, RequestLineDispatch DEF LineAlmostDone
  <2>3. i + 1 = l.head.line[1] - 1
    BY <1>2, <1>8, <2>1, SMTT(30)
  <2> QED
    BY <1>1, <1>4, <1>6, <2>2, <2>3
<1> QED
  BY <1>7, <1>8

\* A lexeme of the request line goes on with it, or begins the headers.
LEMMA RequestLineStep ==
    ASSUME NEW r, NEW l, r.wire \in Seq(STRING), RequestLine(r.wire, l),
           r.url = SubSeq(r.wire, l.method + 2, l.urlEnd - 1),
           Block(r.wire, l.value, l.head), LineEndAt(r.wire, l.version + 4, l.head.line[1]),
           NEW i \in Nat, i < Len(r.wire), NEW q, OnRequestLine(r, l, i, q)
    PROVE  \/ OnRequestLine(r, l, i + 1, Execute(q, r.wire[i + 1]))
           \/ InBlock(r, l.value, l.head, FALSE, i + 1, Execute(q, r.wire[i + 1]))
<1>1. CASE i < l.method /\ q = Fresh
  BY <1>1, MethodStep
<1>2. CASE Begun(q) /\ q.url = <<>> /\ \/ i = l.method /\ q.state = "req_method"
                                       \/ i = l.method + 1 /\ q.state = "spaces_before_url"
  BY <1>2, UrlBegins
<1>3. CASE /\ Begun(q) /\ i \in l.method + 2 .. l.urlEnd - 1
           /\ q.state \in InPath /\ q.url = SubSeq(r.wire, l.method + 2, i)
  BY <1>3, UrlContinues
<1>4. CASE Begun(q) /\ q.url = r.url /\ \/ i \in l.urlEnd .. l.version - 1 /\ q.state = "http_start"
                                        \/ i = l.version /\ q.state = "first_major"
                                        \/ i = l.version + 1 /\ q.state = "major"
                                        \/ i = l.version + 2 /\ q.state = "first_minor"
  BY <1>4, VersionStep
<1>5. CASE Begun(q) /\ q.url = r.url /\ \/ i = l.version + 3 /\ q.state = "minor"
                                        \/ i = l.version + 4 /\ r.wire[i] = "CR" /\ q.state = "line_almost_done"
  BY <1>5, RequestLineEnd
<1> QED
  BY <1>1, <1>2, <1>3, <1>4, <1>5 DEF OnRequestLine
-----------------------------------------------------------------------------
\* A step that stays before a line's value, and keeps what the lines before
\* have left.
LEMMA CarriesOn ==
    ASSUME NEW r, NEW value, NEW b, Block(r.wire, value, b), NEW trailing \in BOOLEAN,
           NEW i \in Nat, NEW j \in Nat, NEW k, NEW q, NEW e, Carries(r, value, b, trailing, k, i, q),
           k \in Lines(b) /\ IsLength(r.wire, b, k) => i < b.first[k] /\ j < b.first[k],
           Going(e), e.url = q.url, e.method = q.method, e.body = q.body, e.flags = q.flags,
           e.length = q.length
    PROVE  Carries(r, value, b, trailing, k, j, e)
<1>1. k \in Lines(b) => b.first[k] \in Nat
  BY LineOrder
<1>2. /\ LengthOn(r.wire, value, b, k, trailing, i, q.length)
      /\ q.url = r.url /\ q.method # "CONNECT"
      /\ q.body = IF trailing THEN r.body ELSE <<>>
      /\ FlagsBefore(r.wire, b, k, trailing, q.flags)
  BY DEF Carries
<1>3. trailing \/ LengthBefore(r.wire, value, b, k, q.length)
      \/ ~(k \in Lines(b) /\ IsLength(r.wire, b, k))
  BY <1>1, <1>2 DEF LengthOn
<1>4. LengthOn(r.wire, value, b, k, trailing, j, e.length)
  BY <1>1, <1>2 DEF LengthOn
<1> QED
  BY <1>2, <1>4 DEF Carries

\* What the names of headers mean.
LEMMA NameNames ==
    /\ ":" \notin Token /\ "SP" \notin Token /\ "CR" \notin Token /\ "LF" \notin Token
    /\ NameMeaning("content-length") = "content_length"
    /\ NameMeaning("transfer-encoding") = "transfer_encoding"
    /\ \A c : /\ NameMeaning(c) \in {"connection", "content_length", "transfer_encoding", "upgrade", "general"}
              /\ NameMeaning(c) = "content_length" => c = "content-length"
              /\ NameMeaning(c) = "transfer_encoding" => c = "transfer-encoding"
              /\ NameMeaning(c) = "upgrade" => c = "upgrade"
<1>1. ":" \notin Token /\ "SP" \notin Token /\ "CR" \notin Token /\ "LF" \notin Token
  BY TokenNames DEF Token, Method, Name, Word
<1>2. /\ NameMeaning("content-length") = "content_length"
      /\ NameMeaning("transfer-encoding") = "transfer_encoding"
  BY DEF NameMeaning, Meaning, Name
<1>3. ASSUME NEW c
      PROVE  /\ NameMeaning(c) \in {"connection", "content_length", "transfer_encoding", "upgrade", "general"}
             /\ NameMeaning(c) = "content_length" => c = "content-length"
             /\ NameMeaning(c) = "transfer_encoding" => c = "transfer-encoding"
             /\ NameMeaning(c) = "upgrade" => c = "upgrade"
  BY DEF NameMeaning, Meaning, Name
<1> QED
  BY <1>1, <1>2, <1>3

\* The first lexeme of a line.
LEMMA LineBegins ==
    ASSUME NEW r, r.wire \in Seq(STRING), NEW value, NEW b, Block(r.wire, value, b),
           NEW trailing \in BOOLEAN, NEW i \in Nat, i < Len(r.wire), NEW k \in Lines(b), NEW q,
           Between(r.wire, b, k, i, q), Carries(r, value, b, trailing, k, i, q)
    PROVE  InBlock(r, value, b, trailing, i + 1, Execute(q, r.wire[i + 1]))
<1>1. PICK c : c = r.wire[i + 1]
  OBVIOUS
<1>2. PICK e : e = Execute(q, c)
  OBVIOUS
<1>3. /\ k \in 1 .. Len(b.line) /\ b.line[k] \in Nat \ {0} /\ b.first[k] \in Nat
      /\ b.line[k] < b.first[k]
  BY LineOrder
<1>4. i + 1 = b.line[k] /\ c = r.wire[b.line[k]]
  BY <1>1, <1>3 DEF Between
<1>5. Going(q) /\ Sound(q) /\ q \in Parser /\ q.left = FALSE /\ q.complete = FALSE
  BY DEF Carries, Going, Sound
<1>6. Sound(e)
  BY <1>1, <1>2, <1>5, ExecuteSound, LexemeType
<1>7. LineStart(r.wire, b, k)
  BY DEF Block, LineAt
<1>8. /\ q.state = "field_start" => e = FieldStart(q, c)
      /\ q.state = "value_lws" => e = ValueLws(q, c)
  BY <1>2, <1>5, HeaderDispatch
<1>9. CASE IsHeader(r.wire, b, k)
  <2>1. c \in Token /\ c \notin {"SP", "CR", "LF"}
    BY <1>4, <1>9, NameNames DEF IsHeader
  <2>2. e = FieldStart(q, c)
    BY <1>8, <2>1 DEF Between, ValueLws
  <2>3. e = [To(q, "field") EXCEPT !.header = NameMeaning(c)]
    BY <2>1, <2>2 DEF FieldStart, NameMeaning
  <2>4. /\ e.state = "field" /\ e.header = NameMeaning(c) /\ Going(e) /\ e.url = q.url
        /\ e.method = q.method /\ e.body = q.body /\ e.flags = q.flags /\ e.length = q.length
    BY <1>5, <1>6, <2>3 DEF To, Parser, Going
  <2>5. OnLine(r.wire, b, k, i + 1, e)
    BY <1>4, <1>9, <2>4 DEF OnLine, OnName
  <2>6. Carries(r, value, b, trailing, k, i + 1, e)
    BY <1>3, <1>4, <2>4, CarriesOn
  <2> QED
    BY <1>1, <1>2, <1>3, <2>5, <2>6 DEF InBlock
<1>10. CASE ~IsHeader(r.wire, b, k)
  <2>1. k > 1 /\ ~IsLength(r.wire, b, k - 1) /\ c = "SP"
    BY <1>3, <1>4, <1>7, <1>10, SMTT(30) DEF LineStart, All
  <2>2. q.state = "value_lws" /\ q.header \in Others \cup {"chunked"}
    BY <2>1 DEF Between
  <2>3. e = To(q, "value_start")
    BY <1>8, <2>1, <2>2 DEF ValueLws
  <2>4. /\ e.state = "value_start" /\ e.header = q.header /\ Going(e) /\ e.url = q.url
        /\ e.method = q.method /\ e.body = q.body /\ e.flags = q.flags /\ e.length = q.length
    BY <1>5, <1>6, <2>3, ToKeeps, StateNames DEF Going
  <2>5. OnLine(r.wire, b, k, i + 1, e)
    BY <1>3, <1>4, <1>10, <2>2, <2>4 DEF OnLine, Spaces
  <2>6. Carries(r, value, b, trailing, k, i + 1, e)
    BY <1>3, <1>4, <2>4, CarriesOn
  <2> QED
    BY <1>1, <1>2, <1>3, <2>5, <2>6 DEF InBlock
<1> QED
  BY <1>9, <1>10

\* The colon after a name.
LEMMA NameEnds ==
    ASSUME NEW r, r.wire \in Seq(STRING), NEW value, NEW b, Block(r.wire, value, b),
           NEW trailing \in BOOLEAN, NEW i \in Nat, i < Len(r.wire), NEW k \in Lines(b), NEW q,
           OnName(r.wire, b, k, i, q), Carries(r, value, b, trailing, k, i, q)
    PROVE  InBlock(r, value, b, trailing, i + 1, Execute(q, r.wire[i + 1]))
<1>1. PICK c : c = r.wire[i + 1]
  OBVIOUS
<1>2. PICK e : e = Execute(q, c)
  OBVIOUS
<1>3. /\ k \in 1 .. Len(b.line) /\ b.line[k] \in Nat \ {0} /\ b.first[k] \in Nat
      /\ b.line[k] < b.first[k] /\ i = b.line[k]
  BY LineOrder DEF OnName
<1>4. Going(q) /\ Sound(q) /\ q \in Parser /\ q.left = FALSE /\ q.complete = FALSE
  BY DEF Carries, Going, Sound
<1>5. Sound(e)
  BY <1>1, <1>2, <1>4, ExecuteSound, LexemeType
<1>6. c = ":" /\ b.line[k] + 2 <= b.first[k]
  <2>1. r.wire[b.line[k]] # "SP"
    BY NameNames DEF OnName, IsHeader
  <2>2. LineStart(r.wire, b, k)
    BY DEF Block, LineAt
  <2>3. ~(b.line[k] < b.first[k] /\ All(r.wire, b.line[k], b.first[k], {"SP"}))
    BY <1>3, <2>1 DEF All
  <2> QED
    BY <1>1, <1>3, <2>2, <2>3 DEF LineStart
<1>7. e = To(q, "value_start")
  BY <1>2, <1>4, <1>6, HeaderDispatch, NameNames DEF OnName, Field
<1>8. /\ e.state = "value_start" /\ e.header = q.header /\ Going(e) /\ e.url = q.url
      /\ e.method = q.method /\ e.body = q.body /\ e.flags = q.flags /\ e.length = q.length
  BY <1>4, <1>5, <1>7, ToKeeps, StateNames DEF Going
<1>9. i < b.first[k] /\ i + 1 < b.first[k] /\ i + 1 > b.line[k]
  BY <1>3, <1>6, SMTT(30)
<1>10. OnLine(r.wire, b, k, i + 1, e)
  BY <1>3, <1>8, <1>9 DEF OnLine, OnName, Spaces
<1>11. Carries(r, value, b, trailing, k, i + 1, e)
  BY <1>8, <1>9, CarriesOn
<1> QED
  BY <1>1, <1>2, <1>3, <1>10, <1>11 DEF InBlock

\* Of the first lexeme of a value, the parser remembers what it means.
LEMMA ValueMeaning ==
    ASSUME NEW w, NEW b, NEW k, NEW q \in Parser, NEW c, c = w[b.first[k]], b.first[k] \in Nat,
           \/ IsHeader(w, b, k) /\ w[b.line[k]] # "upgrade" /\ q.header = NameMeaning(w[b.line[k]])
           \/ ~IsHeader(w, b, k) /\ q.header \in Others \cup {"chunked"},
           IsLength(w, b, k) => c \in DOMAIN Decimal,
           NEW e, e = FirstOfValue(q, c)
    PROVE  /\ HeaderAt(w, b, k, b.first[k], e.header)
           /\ IsLength(w, b, k) => e.length = Decimal[c]
           /\ ~IsLength(w, b, k) => e.length = q.length
           /\ e.state = q.state /\ e.flags = q.flags /\ e.method = q.method /\ e.url = q.url
           /\ e.body = q.body /\ e.complete = q.complete /\ e.left = q.left
<1>1. All(w, b.first[k] + 1, b.first[k] + 1, {"SP"})
  BY DEF All
<1>2. IsLength(w, b, k) => IsHeader(w, b, k)
  BY DEF IsLength, IsHeader, Token, Name
<1>3. w[b.line[k]] = "transfer-encoding" => IsHeader(w, b, k)
  BY DEF IsHeader, Token, Name
<1>4. IsLength(w, b, k) <=> q.header = "content_length"
  BY <1>2, NameNames DEF IsLength, Others
<1>5. w[b.line[k]] = "transfer-encoding" <=> q.header = "transfer_encoding"
  BY <1>3, NameNames DEF Others
<1>6. q.header # "upgrade"
  BY NameNames DEF Others
<1>7. CASE IsLength(w, b, k)
  <2>1. e = [q EXCEPT !.length = Decimal[c]]
    BY <1>4, <1>6, <1>7 DEF FirstOfValue
  <2>2. HeaderAt(w, b, k, b.first[k], "content_length")
    BY <1>4, <1>5, <1>7 DEF HeaderAt
  <2> QED
    BY <1>4, <1>7, <2>1, <2>2 DEF Parser
<1>8. CASE ~IsLength(w, b, k) /\ w[b.line[k]] = "transfer-encoding" /\ c = "chunked"
  <2>1. e = [q EXCEPT !.header = "chunked"]
    BY <1>5, <1>8 DEF FirstOfValue
  <2>2. HeaderAt(w, b, k, b.first[k], "chunked")
    BY <1>1, <1>8 DEF HeaderAt
  <2> QED
    BY <1>8, <2>1, <2>2 DEF Parser
<1>9. CASE ~IsLength(w, b, k) /\ ~(w[b.line[k]] = "transfer-encoding" /\ c = "chunked")
  <2>1. PICK h \in {"general", "keep_alive", "close"} : e = [q EXCEPT !.header = h]
    BY <1>4, <1>5, <1>6, <1>9 DEF FirstOfValue
  <2>2. HeaderAt(w, b, k, b.first[k], h)
    BY <1>9 DEF HeaderAt, Others
  <2> QED
    BY <1>9, <2>1, <2>2 DEF Parser
<1> QED
  BY <1>7, <1>8, <1>9

\* The spaces before a value, and the value's first lexeme.
LEMMA SpacesEnd ==
    ASSUME NEW r, r.wire \in Seq(STRING), NEW value, NEW b, Block(r.wire, value, b),
           NEW trailing \in BOOLEAN, NEW i \in Nat, i < Len(r.wire), NEW k \in Lines(b), NEW q,
           Spaces(r.wire, b, k, i, q), Carries(r, value, b, trailing, k, i, q)
    PROVE  InBlock(r, value, b, trailing, i + 1, Execute(q, r.wire[i + 1]))
<1>1. PICK c : c = r.wire[i + 1]
  OBVIOUS
<1>2. PICK e : e = Execute(q, c)
  OBVIOUS
<1>3. /\ k \in 1 .. Len(b.line) /\ b.line[k] \in Nat \ {0} /\ b.first[k] \in Nat /\ b.stop[k] \in Nat
      /\ b.line[k] < b.first[k] /\ b.first[k] < b.stop[k]
  BY LineOrder
<1>4. /\ Going(q) /\ Sound(q) /\ q \in Parser /\ q.left = FALSE /\ q.complete = FALSE
      /\ q.url = r.url /\ q.method # "CONNECT" /\ q.body = IF trailing THEN r.body ELSE <<>>
      /\ FlagsBefore(r.wire, b, k, trailing, q.flags)
      /\ LengthOn(r.wire, value, b, k, trailing, i, q.length)
  BY DEF Carries, Going, Sound
<1>5. Sound(e)
  BY <1>1, <1>2, <1>4, ExecuteSound, LexemeType
<1>6. LineAt(r.wire, value, b, k) /\ LineStart(r.wire, b, k)
  BY DEF Block, LineAt
<1>7. q.state = "value_start" /\ e = ValueStart(q, c)
  BY <1>2, <1>4, HeaderDispatch DEF Spaces
<1>8. CASE i + 1 < b.first[k]
  <2>1. c = "SP"
    <3>1. CASE IsHeader(r.wire, b, k)
      <4>1. b.line[k] + 2 <= i + 1 /\ r.wire[b.line[k]] # "SP"
        BY <1>3, <3>1, NameNames, SMTT(30) DEF Spaces, IsHeader
      <4>2. ~All(r.wire, b.line[k], b.first[k], {"SP"})
        BY <1>3, <4>1, SMTT(30) DEF All
      <4>3. All(r.wire, b.line[k] + 2, b.first[k], {"SP"})
        BY <1>6, <4>2 DEF LineStart
      <4>4. i + 1 \in b.line[k] + 2 .. b.first[k] - 1
        BY <1>3, <1>8, <4>1
      <4> QED
        BY <1>1, <4>3, <4>4 DEF All
    <3>2. CASE ~IsHeader(r.wire, b, k)
      <4>1. All(r.wire, b.line[k], b.first[k], {"SP"})
        BY <1>6, <3>2 DEF LineStart
      <4>2. i + 1 \in b.line[k] .. b.first[k] - 1
        BY <1>3, <1>8, <3>2, SMTT(30) DEF Spaces
      <4> QED
        BY <1>1, <4>1, <4>2 DEF All
    <3> QED
      BY <3>1, <3>2
  <2>2. e = q
    BY <1>7, <2>1 DEF ValueStart
  <2>3. i < b.first[k] /\ OnLine(r.wire, b, k, i + 1, e)
    BY <1>3, <1>8, <2>2 DEF OnLine, Spaces
  <2>4. Carries(r, value, b, trailing, k, i + 1, e)
    BY <1>4, <1>8, <2>2, <2>3, CarriesOn
  <2> QED
    BY <1>1, <1>2, <1>3, <2>3, <2>4 DEF InBlock
<1>9. CASE i + 1 = b.first[k]
  <2>1. c = r.wire[b.first[k]] /\ c \notin {"SP", "CR", "LF"}
    <3>1. b.first[k] \in b.first[k] .. b.stop[k] - 1
      BY <1>3, SMTT(30)
    <3> QED
      BY <1>1, <1>6, <1>9, <3>1 DEF LineAt, LineEnd
  <2>2. PICK p : p = To(q, "value")
    OBVIOUS
  <2>3. /\ p \in Parser /\ p.state = "value" /\ p.header = q.header /\ p.flags = q.flags
        /\ p.length = q.length /\ p.method = q.method /\ p.url = q.url /\ p.body = q.body
        /\ p.complete = FALSE /\ p.left = FALSE
    BY <1>4, <2>2, ToKeeps, StateNames
  <2>4. e = FirstOfValue(p, c)
    BY <1>7, <2>1, <2>2 DEF ValueStart
  <2>5. IsLength(r.wire, b, k) =>
            /\ c \in DOMAIN Decimal /\ value[b.first[k]] = Decimal[c]
    <3>1. ASSUME IsLength(r.wire, b, k) PROVE NumberAt(r.wire, value, b.first[k], b.stop[k], 10, Decimal)
      BY <1>6, <3>1 DEF LineAt
    <3>2. b.first[k] \in b.first[k] .. b.stop[k] - 1
      BY <1>3
    <3>3. \A d \in DOMAIN Decimal : 0 + Decimal[d] = Decimal[d]
      BY DigitValues, SMTT(30)
    <3> QED
      BY <2>1, <3>1, <3>2, <3>3 DEF NumberAt, All
  <2>6. \/ IsHeader(r.wire, b, k) /\ r.wire[b.line[k]] # "upgrade" /\ p.header = NameMeaning(r.wire[b.line[k]])
        \/ ~IsHeader(r.wire, b, k) /\ p.header \in Others \cup {"chunked"}
    <3>1. IsHeader(r.wire, b, k) => r.wire[b.line[k]] # "SP"
      BY NameNames DEF IsHeader
    <3>2. IsHeader(r.wire, b, k) => ~All(r.wire, b.line[k], b.first[k], {"SP"})
      BY <1>3, <3>1, SMTT(30) DEF All
    <3> QED
      BY <1>6, <2>3, <3>2 DEF Spaces, LineStart
  <2>7. /\ HeaderAt(r.wire, b, k, b.first[k], e.header)
        /\ IsLength(r.wire, b, k) => e.length = Decimal[c]
        /\ ~IsLength(r.wire, b, k) => e.length = p.length
        /\ e.state = p.state /\ e.flags = p.flags /\ e.method = p.method /\ e.url = p.url
        /\ e.body = p.body /\ e.complete = p.complete /\ e.left = p.left
    <3>1. p \in Parser /\ b.first[k] \in Nat /\ c = r.wire[b.first[k]]
      BY <1>3, <2>1, <2>3
    <3>2. IsLength(r.wire, b, k) => c \in DOMAIN Decimal
      BY <2>5
    <3> QED
      BY <2>4, <2>6, <3>1, <3>2, ValueMeaning, SMTT(60)
  <2>8. /\ e.state = "value" /\ Going(e) /\ e.url = q.url /\ e.method = q.method /\ e.body = q.body
        /\ e.flags = q.flags
        /\ IsLength(r.wire, b, k) => e.length = Decimal[c]
        /\ ~IsLength(r.wire, b, k) => e.length = q.length
    BY <1>5, <2>3, <2>7 DEF Going
  <2>9. HeaderAt(r.wire, b, k, i + 1, e.header)
    BY <1>9, <2>7
  <2>10. OnLine(r.wire, b, k, i + 1, e)
    BY <1>3, <1>9, <2>8, <2>9 DEF OnLine, Inside
  <2>11. LengthOn(r.wire, value, b, k, trailing, i + 1, e.length)
    <3>1. CASE IsLength(r.wire, b, k)
      BY <1>3, <1>9, <2>5, <2>8, <3>1 DEF LengthOn
    <3>2. CASE ~IsLength(r.wire, b, k)
      BY <1>4, <2>8, <3>2 DEF LengthOn
    <3> QED
      BY <3>1, <3>2
  <2>12. Carries(r, value, b, trailing, k, i + 1, e)
    BY <1>4, <2>8, <2>11 DEF Carries
  <2> QED
    BY <1>1, <1>2, <1>3, <2>10, <2>12 DEF InBlock
<1> QED
  BY <1>3, <1>8, <1>9 DEF Spaces

\* The line end after a value, at its last lexeme j: what the line says goes
\* into the flags, and the length that it may have been is now known.
LEMMA LineDone ==
    ASSUME NEW r, r.wire \in Seq(STRING), NEW value, NEW b, Block(r.wire, value, b),
           NEW trailing \in BOOLEAN, NEW i \in Nat, NEW k \in Lines(b), NEW q,
           Carries(r, value, b, trailing, k, i, q), i + 1 = b.line[k + 1] - 1,
           i = b.stop[k] - 1 \/ i = b.stop[k], HeaderAt(r.wire, b, k, b.stop[k] - 1, q.header),
           NEW e, e = HeaderAlmostDone(q, "LF"), Sound(e)
    PROVE  InBlock(r, value, b, trailing, i + 1, e)
<1>1. /\ k + 1 \in 1 .. Len(b.line) /\ k \in Nat \ {0} /\ Len(b.line) \in Nat
      /\ {b.line[k], b.line[k + 1], b.first[k], b.stop[k]} \subseteq Nat /\ b.first[k] < b.stop[k]
      /\ b.stop[k] < b.line[k + 1]
  <2>1. Len(b.line) \in Nat /\ k \in 1 .. Len(b.line) - 1
    BY DEF Lines, Block
  <2> QED
    BY <2>1, LineOrder, SMTT(30)
<1>2. /\ Going(q) /\ Sound(q) /\ q \in Parser /\ q.left = FALSE /\ q.complete = FALSE
      /\ q.url = r.url /\ q.method # "CONNECT" /\ q.body = IF trailing THEN r.body ELSE <<>>
      /\ FlagsBefore(r.wire, b, k, trailing, q.flags)
      /\ LengthOn(r.wire, value, b, k, trailing, i, q.length)
  BY DEF Carries, Going, Sound
<1>3. PICK f : f = q.flags \cup ({q.header} \cap {"keep_alive", "close", "chunked"})
  OBVIOUS
<1>4. e = [To(q, "value_lws") EXCEPT !.flags = f]
  <2>1. q \in [state : States, header : Headers, flags : SUBSET Flags, length : 0 .. NoLength,
               major : Nat, minor : Nat, method : Method, url : Seq(STRING),
               body : Seq(STRING), complete : BOOLEAN, left : BOOLEAN]
    BY <1>2 DEF Parser
  <2> QED
    BY <1>3, <2>1 DEF HeaderAlmostDone, To
<1>5. /\ e.state = "value_lws" /\ e.header = q.header /\ Going(e) /\ e.url = q.url
      /\ e.method = q.method /\ e.body = q.body /\ e.flags = f /\ e.length = q.length
  BY <1>2, <1>4 DEF Going, To, Parser
<1>6. FlagsBefore(r.wire, b, k + 1, trailing, f)
  <2>1. CASE trailing
    BY <1>2, <1>3, <2>1 DEF FlagsBefore
  <2>2. CASE ~trailing
    <3>1. q.header = "chunked" <=> IsChunked(r.wire, b, k)
      <4>1. (b.stop[k] - 1) + 1 = b.stop[k]
        BY <1>1
      <4> QED
        BY <4>1 DEF HeaderAt, IsChunked
    <3>2. "chunked" \in q.flags <=> ChunkedBefore(r.wire, b, k)
      BY <1>2, <2>2 DEF FlagsBefore
    <3>3. ChunkedBefore(r.wire, b, k + 1) <=> ChunkedBefore(r.wire, b, k) \/ IsChunked(r.wire, b, k)
      <4>1. /\ \A j \in 1 .. (k + 1) - 1 : j \in 1 .. k - 1 \/ j = k
            /\ \A j \in 1 .. k - 1 : j \in 1 .. (k + 1) - 1
            /\ k \in 1 .. (k + 1) - 1
        BY <1>1
      <4>2. ChunkedBefore(r.wire, b, k + 1) => ChunkedBefore(r.wire, b, k) \/ IsChunked(r.wire, b, k)
        BY <4>1, Zenon DEF ChunkedBefore
      <4>3. ChunkedBefore(r.wire, b, k) \/ IsChunked(r.wire, b, k) => ChunkedBefore(r.wire, b, k + 1)
        BY <4>1, Zenon DEF ChunkedBefore
      <4> QED
        BY <4>2, <4>3
    <3>4. f \cap {"upgrade", "trailing"} = {}
      BY <1>2, <1>3, <2>2 DEF FlagsBefore
    <3>5. "chunked" \in f <=> "chunked" \in q.flags \/ q.header = "chunked"
      BY <1>3
    <3> QED
      BY <2>2, <3>1, <3>2, <3>3, <3>4, <3>5 DEF FlagsBefore
  <2> QED
    BY <2>1, <2>2
<1>7. LengthOn(r.wire, value, b, k + 1, trailing, i + 1, e.length)
  <2>1. ~(k + 1 \in Lines(b) /\ i + 1 >= b.first[k + 1])
    <3>1. k + 1 \in Lines(b) => b.line[k + 1] < b.first[k + 1] /\ b.first[k + 1] \in Nat
      BY LineOrder
    <3> QED
      BY <1>1, <3>1, SMTT(30)
  <2>2. ASSUME ~trailing PROVE LengthBefore(r.wire, value, b, k + 1, q.length)
    <3>1. /\ \A j \in 1 .. (k + 1) - 1 : j \in 1 .. k - 1 \/ j = k
          /\ \A j \in 1 .. k - 1 : j \in 1 .. (k + 1) - 1
          /\ k \in 1 .. (k + 1) - 1
      BY <1>1
    <3>2. CASE IsLength(r.wire, b, k)
      <4>1. q.length = value[IF i < b.stop[k] THEN i ELSE i - 1] /\ i >= b.first[k]
        BY <1>1, <1>2, <3>2, SMTT(30) DEF LengthOn
      <4>2. (IF i < b.stop[k] THEN i ELSE i - 1) = b.stop[k] - 1
        <5>1. PICK s \in Nat : s = b.stop[k]
          BY <1>1
        <5>2. \/ i < s /\ i = s - 1
              \/ ~(i < s) /\ i - 1 = s - 1
          BY <1>1, <5>1, SMTT(30)
        <5> QED
          BY <5>1, <5>2
      <4> QED
        BY <3>1, <3>2, <4>1, <4>2 DEF LengthBefore
    <3>3. CASE ~IsLength(r.wire, b, k)
      <4>1. LengthBefore(r.wire, value, b, k, q.length)
        BY <1>2, <2>2, <3>3 DEF LengthOn
      <4> QED
        BY <3>1, <3>3, <4>1, Zenon DEF LengthBefore
    <3> QED
      BY <3>2, <3>3
  <2> QED
    BY <1>5, <2>1, <2>2 DEF LengthOn
<1>8. OnLine(r.wire, b, k + 1, i + 1, e)
  <2>1. k + 1 > 1 /\ (k + 1) - 1 = k
    BY <1>1
  <2>2. /\ q.header \in Others \cup {"chunked", "content_length"}
        /\ ~IsLength(r.wire, b, k) => q.header # "content_length"
    BY DEF HeaderAt
  <2>3. ~IsLength(r.wire, b, (k + 1) - 1) => q.header # "content_length"
    BY <2>1, <2>2
  <2> QED
    BY <1>5, <2>1, <2>2, <2>3, Zenon DEF OnLine, Between
<1>9. Carries(r, value, b, trailing, k + 1, i + 1, e)
  BY <1>2, <1>5, <1>6, <1>7 DEF Carries
<1> QED
  BY <1>1, <1>8, <1>9 DEF InBlock

\* A number that is read digit by digit and fits is read without a wrap.
LEMMA DigitRead ==
    ASSUME NEW q \in Parser, NEW base \in {10, 16}, NEW d \in 0 .. 15, NEW t \in 0 .. NoLength - 1,
           q.length # NoLength, t = q.length * base + d
    PROVE  Longer(q, base, d) = [q EXCEPT !.length = t]
<1>1. q.length \in Nat /\ t \in Nat /\ t < NoLength + 1 /\ t # NoLength
  BY LengthRoom, SMTT(30) DEF Parser
<1>2. PICK n \in Nat : n = q.length * base /\ n >= q.length
  <2>1. \A m \in Nat : m * 10 \in Nat /\ m * 10 >= m /\ m * 16 \in Nat /\ m * 16 >= m
    OBVIOUS
  <2> QED
    BY <1>1, <2>1
<1>3. t = n + d /\ ~(t < q.length)
  BY <1>1, <1>2
<1>4. t % (NoLength + 1) = t
  BY <1>1, LengthRoom
<1>5. PICK m : m = q.length * base + d
  OBVIOUS
<1>6. m % 2 ^ Width = t
  BY <1>4, <1>5, LengthRoom
<1> QED
  BY <1>1, <1>3, <1>5, <1>6 DEF Longer

\* A value goes on.
LEMMA ValueGoesOn ==
    ASSUME NEW r, r.wire \in Seq(STRING), NEW value, NEW b, Block(r.wire, value, b),
           NEW trailing \in BOOLEAN, NEW i \in Nat, i < Len(r.wire), NEW k \in Lines(b), NEW q,
           Carries(r, value, b, trailing, k, i, q), i \in b.first[k] .. b.stop[k] - 1,
           i + 1 < b.stop[k], q.state = "value", HeaderAt(r.wire, b, k, i, q.header)
    PROVE  InBlock(r, value, b, trailing, i + 1, Execute(q, r.wire[i + 1]))
<1>1. PICK c : c = r.wire[i + 1]
  OBVIOUS
<1>2. PICK e : e = Execute(q, c)
  OBVIOUS
<1>3. /\ k \in 1 .. Len(b.line) /\ {b.first[k], b.stop[k]} \subseteq Nat
      /\ i + 1 \in b.first[k] .. b.stop[k] - 1 /\ i \in b.first[k] .. b.stop[k] - 1
  BY LineOrder
<1>4. /\ Going(q) /\ Sound(q) /\ q \in Parser /\ q.left = FALSE /\ q.complete = FALSE
      /\ q.url = r.url /\ q.method # "CONNECT" /\ q.body = IF trailing THEN r.body ELSE <<>>
      /\ FlagsBefore(r.wire, b, k, trailing, q.flags)
      /\ LengthOn(r.wire, value, b, k, trailing, i, q.length)
  BY DEF Carries, Going, Sound
<1>5. Sound(e)
  BY <1>1, <1>2, <1>4, ExecuteSound, LexemeType
<1>6. LineAt(r.wire, value, b, k)
  BY DEF Block
<1>7. c # "CR" /\ c # "LF"
  BY <1>1, <1>3, <1>6 DEF LineAt, LineEnd
<1>8. e = Value(q, c)
  BY <1>2, <1>4, HeaderDispatch
<1>9. All(r.wire, b.first[k] + 1, (i + 1) + 1, {"SP"}) <=> All(r.wire, b.first[k] + 1, i + 1, {"SP"}) /\ c = "SP"
  <2>1. /\ \A j \in b.first[k] + 1 .. ((i + 1) + 1) - 1 : j \in b.first[k] + 1 .. (i + 1) - 1 \/ j = i + 1
        /\ \A j \in b.first[k] + 1 .. (i + 1) - 1 : j \in b.first[k] + 1 .. ((i + 1) + 1) - 1
        /\ i + 1 \in b.first[k] + 1 .. ((i + 1) + 1) - 1
    BY <1>3
  <2> QED
    BY <1>1, <2>1 DEF All
<1>10. SUFFICES /\ e.state = "value" /\ Going(e) /\ e.url = q.url /\ e.method = q.method
                /\ e.body = q.body /\ e.flags = q.flags
                /\ HeaderAt(r.wire, b, k, i + 1, e.header)
                /\ LengthOn(r.wire, value, b, k, trailing, i + 1, e.length)
  <2>1. Carries(r, value, b, trailing, k, i + 1, e)
    BY <1>4, <1>10 DEF Carries
  <2>2. OnLine(r.wire, b, k, i + 1, e)
    BY <1>3, <1>10 DEF OnLine, Inside
  <2> QED
    BY <1>1, <1>2, <1>3, <2>1, <2>2 DEF InBlock
<1>11. CASE IsLength(r.wire, b, k)
  <2>1. NumberAt(r.wire, value, b.first[k], b.stop[k], 10, Decimal)
    BY <1>6, <1>11 DEF LineAt
  <2>2. c \in DOMAIN Decimal /\ c # "SP"
    BY <1>1, <1>3, <2>1, TokenNames DEF NumberAt, All
  <2>3. PICK t \in 0 .. NoLength - 1 : t = value[i + 1]
    BY <1>3, <2>1 DEF NumberAt
  <2>4. t = value[i] * 10 + Decimal[c] /\ value[i] \in 0 .. NoLength - 1
    <3>1. i + 1 # b.first[k] /\ (i + 1) - 1 = i
      BY <1>3
    <3>2. value[i + 1] = (IF i + 1 = b.first[k] THEN 0 ELSE value[(i + 1) - 1] * 10) + Decimal[r.wire[i + 1]]
      BY <1>3, <2>1 DEF NumberAt
    <3>3. value[i] \in 0 .. NoLength - 1
      BY <1>3, <2>1 DEF NumberAt
    <3> QED
      BY <1>1, <2>3, <3>1, <3>2, <3>3
  <2>5. q.header = "content_length"
    BY <1>11 DEF HeaderAt
  <2>6. q.length = value[i] /\ q.length # NoLength
    <3>1. q.length = value[i]
      BY <1>3, <1>4, <1>11 DEF LengthOn
    <3> QED
      BY <2>4, <3>1, LengthRoom
  <2>7. e = [q EXCEPT !.length = t]
    <3>1. e = Longer(q, 10, Decimal[c])
      BY <1>7, <1>8, <2>2, <2>5 DEF Value
    <3>2. Decimal[c] \in 0 .. 15
      BY <2>2, DigitValues
    <3>3. t = q.length * 10 + Decimal[c] /\ 10 \in {10, 16}
      BY <2>4, <2>6
    <3> QED
      BY <1>4, <2>6, <3>1, <3>2, <3>3, DigitRead, ZenonT(40)
  <2>8. /\ e.state = "value" /\ Going(e) /\ e.url = q.url /\ e.method = q.method
        /\ e.body = q.body /\ e.flags = q.flags /\ e.header = q.header /\ e.length = value[i + 1]
    BY <1>4, <1>5, <2>3, <2>7 DEF Parser, Going
  <2>9. HeaderAt(r.wire, b, k, i + 1, e.header)
    BY <1>11, <2>5, <2>8 DEF HeaderAt, IsLength
  <2>10. LengthOn(r.wire, value, b, k, trailing, i + 1, e.length)
    BY <1>3, <1>11, <2>8 DEF LengthOn
  <2> QED
    BY <2>8, <2>9, <2>10
<1>12. CASE ~IsLength(r.wire, b, k)
  <2>1. q.header # "content_length"
    BY <1>12 DEF HeaderAt
  <2>2. e = IF c = "SP" THEN q ELSE [q EXCEPT !.header = "general"]
    BY <1>7, <1>8, <2>1 DEF Value
  <2>3. /\ e.state = "value" /\ Going(e) /\ e.url = q.url /\ e.method = q.method
        /\ e.body = q.body /\ e.flags = q.flags /\ e.length = q.length
        /\ c = "SP" => e.header = q.header
        /\ c # "SP" => e.header = "general"
    BY <1>4, <1>5, <2>2 DEF Parser, Going
  <2>4. HeaderAt(r.wire, b, k, i + 1, e.header)
    BY <1>9, <1>12, <2>1, <2>3 DEF HeaderAt, Others
  <2>5. LengthOn(r.wire, value, b, k, trailing, i + 1, e.length)
    BY <1>4, <1>12, <2>3 DEF LengthOn
  <2> QED
    BY <2>3, <2>4, <2>5
<1> QED
  BY <1>11, <1>12

\* The end of a line, with or without its carriage return.
LEMMA ValueEnds ==
    ASSUME NEW r, r.wire \in Seq(STRING), NEW value, NEW b, Block(r.wire, value, b),
           NEW trailing \in BOOLEAN, NEW i \in Nat, i < Len(r.wire), NEW k \in Lines(b), NEW q,
           Carries(r, value, b, trailing, k, i, q),
           \/ /\ i + 1 = b.stop[k] /\ q.state = "value" /\ HeaderAt(r.wire, b, k, i, q.header)
           \/ /\ i = b.stop[k] /\ r.wire[i] = "CR" /\ q.state = "header_almost_done"
              /\ HeaderAt(r.wire, b, k, i - 1, q.header)
    PROVE  InBlock(r, value, b, trailing, i + 1, Execute(q, r.wire[i + 1]))
<1>1. PICK c : c = r.wire[i + 1]
  OBVIOUS
<1>2. PICK e : e = Execute(q, c)
  OBVIOUS
<1>3. /\ k \in 1 .. Len(b.line) /\ {b.first[k], b.stop[k], b.line[k + 1]} \subseteq Nat
      /\ b.first[k] < b.stop[k]
  BY LineOrder
<1>4. /\ Going(q) /\ Sound(q) /\ q \in Parser /\ q.left = FALSE /\ q.complete = FALSE
      /\ q.url = r.url /\ q.method # "CONNECT" /\ q.body = IF trailing THEN r.body ELSE <<>>
      /\ FlagsBefore(r.wire, b, k, trailing, q.flags)
      /\ LengthOn(r.wire, value, b, k, trailing, i, q.length)
  BY DEF Carries, Going, Sound
<1>5. Sound(e)
  BY <1>1, <1>2, <1>4, ExecuteSound, LexemeType
<1>6. LineEndAt(r.wire, b.stop[k], b.line[k + 1])
  BY DEF Block, LineAt
<1>7. CASE i + 1 = b.stop[k] /\ q.state = "value" /\ HeaderAt(r.wire, b, k, i, q.header)
  <2>1. e = Value(q, c) /\ i = b.stop[k] - 1
    <3>1. e = Value(q, c)
      BY <1>2, <1>4, <1>7, HeaderDispatch
    <3> QED
      BY <1>3, <1>7, <3>1, SMTT(30)
  <2>2. CASE c = "LF" /\ b.line[k + 1] = b.stop[k] + 1
    <3>1. e = HeaderAlmostDone(q, "LF")
      BY <2>1, <2>2 DEF Value
    <3>2. i + 1 = b.line[k + 1] - 1
      BY <1>3, <1>7, <2>2
    <3> QED
      BY <1>1, <1>2, <1>5, <1>7, <2>1, <3>1, <3>2, LineDone
  <2>3. CASE c = "CR"
    <3>1. e = To(q, "header_almost_done")
      BY <2>1, <2>3 DEF Value
    <3>2. /\ e.state = "header_almost_done" /\ e.header = q.header /\ Going(e) /\ e.url = q.url
          /\ e.method = q.method /\ e.body = q.body /\ e.flags = q.flags /\ e.length = q.length
      BY <1>4, <1>5, <3>1, ToKeeps, StateNames DEF Going
    <3>3. (i + 1) - 1 = i
      OBVIOUS
    <3>4. OnLine(r.wire, b, k, i + 1, e)
      BY <1>1, <1>7, <2>3, <3>2, <3>3 DEF OnLine, Inside
    <3>5. LengthOn(r.wire, value, b, k, trailing, i + 1, e.length)
      BY <1>3, <1>4, <1>7, <3>2, <3>3 DEF LengthOn
    <3>6. Carries(r, value, b, trailing, k, i + 1, e)
      BY <1>4, <3>2, <3>5 DEF Carries
    <3> QED
      BY <1>1, <1>2, <1>3, <3>4, <3>6 DEF InBlock
  <2> QED
    BY <1>1, <1>6, <1>7, <2>2, <2>3 DEF LineEndAt
<1>8. CASE /\ i = b.stop[k] /\ r.wire[i] = "CR" /\ q.state = "header_almost_done"
           /\ HeaderAt(r.wire, b, k, i - 1, q.header)
  <2>1. c = "LF" /\ b.line[k + 1] = b.stop[k] + 2
    BY <1>1, <1>6, <1>8 DEF LineEndAt
  <2>2. e = HeaderAlmostDone(q, "LF")
    BY <1>2, <1>4, <1>8, <2>1, HeaderDispatch
  <2>3. i + 1 = b.line[k + 1] - 1
    BY <1>3, <1>8, <2>1
  <2> QED
    BY <1>1, <1>2, <1>5, <1>8, <2>2, <2>3, LineDone
<1> QED
  BY <1>7, <1>8

\* The blank line after the last one; `end' is where the block ends.
LEMMA BlankLine ==
    ASSUME NEW r, r.wire \in Seq(STRING), NEW value, NEW b, Block(r.wire, value, b),
           NEW trailing \in BOOLEAN, NEW end \in Nat, LineEndAt(r.wire, Blank(b), end),
           NEW i \in Nat, i < Len(r.wire), NEW k, k = Len(b.line), NEW q,
           Between(r.wire, b, k, i, q) \/ BlankRead(r.wire, b, k, i, q),
           Carries(r, value, b, trailing, k, i, q)
    PROVE  \/ InBlock(r, value, b, trailing, i + 1, Execute(q, r.wire[i + 1]))
           \/ i + 1 = end - 1 /\ Execute(q, r.wire[i + 1]) = HeadersAlmostDone(q, "LF")
<1>1. PICK c : c = r.wire[i + 1]
  OBVIOUS
<1>2. PICK e : e = Execute(q, c)
  OBVIOUS
<1>3. k \in 1 .. Len(b.line) /\ b.line[k] \in Nat \ {0} /\ Blank(b) = b.line[k]
  BY DEF Block, Blank
<1>4. Going(q) /\ Sound(q) /\ q \in Parser /\ q.left = FALSE /\ q.complete = FALSE
  BY DEF Carries, Going, Sound
<1>5. Sound(e)
  BY <1>1, <1>2, <1>4, ExecuteSound, LexemeType
<1>6. CASE Between(r.wire, b, k, i, q)
  <2>1. i + 1 = b.line[k]
    BY <1>3, <1>6 DEF Between
  <2>2. c = "CR" \/ (c = "LF" /\ end = b.line[k] + 1)
    <3>1. LineEndAt(r.wire, b.line[k], end)
      BY <1>3
    <3>2. c = r.wire[b.line[k]]
      BY <1>1, <2>1
    <3> QED
      BY <3>1, <3>2, Zenon DEF LineEndAt
  <2>3. e = FieldStart(q, c)
    <3>1. /\ q.state = "field_start" => e = FieldStart(q, c)
          /\ q.state = "value_lws" => e = ValueLws(q, c)
      BY <1>2, <1>4, HeaderDispatch
    <3> QED
      BY <1>6, <2>2, <3>1 DEF Between, ValueLws
  <2>4. CASE c = "LF" /\ end = b.line[k] + 1
    <3>1. e = HeadersAlmostDone(q, "LF")
      BY <2>3, <2>4, NameNames DEF FieldStart
    <3> QED
      BY <1>1, <1>2, <1>3, <2>1, <2>4, <3>1
  <2>5. CASE c = "CR"
    <3>1. e = To(q, "headers_almost_done")
      BY <2>3, <2>5, NameNames DEF FieldStart
    <3>2. /\ e.state = "headers_almost_done" /\ Going(e) /\ e.url = q.url
          /\ e.method = q.method /\ e.body = q.body /\ e.flags = q.flags /\ e.length = q.length
      BY <1>4, <1>5, <3>1, ToKeeps, StateNames DEF Going
    <3>3. OnLine(r.wire, b, k, i + 1, e)
      BY <1>1, <2>1, <2>5, <3>2 DEF OnLine, BlankRead
    <3>4. k \notin Lines(b)
      BY <1>3 DEF Lines
    <3>5. Carries(r, value, b, trailing, k, i + 1, e)
      BY <3>2, <3>4, CarriesOn
    <3> QED
      BY <1>1, <1>2, <1>3, <3>3, <3>5 DEF InBlock
  <2> QED
    BY <2>2, <2>4, <2>5
<1>7. CASE BlankRead(r.wire, b, k, i, q)
  <2>1. i = b.line[k] /\ r.wire[i] = "CR" /\ q.state = "headers_almost_done"
    BY <1>7 DEF BlankRead
  <2>2. c = "LF" /\ end = b.line[k] + 2
    BY <1>1, <1>3, <2>1 DEF LineEndAt
  <2>3. e = HeadersAlmostDone(q, "LF")
    BY <1>2, <1>4, <2>1, <2>2, HeaderDispatch
  <2> QED
    BY <1>1, <1>2, <1>3, <2>1, <2>2, <2>3
<1> QED
  BY <1>6, <1>7

\* A lexeme of a block goes on with it, or ends it.
LEMMA BlockStep ==
    ASSUME NEW r, r.wire \in Seq(STRING), NEW value, NEW b, Block(r.wire, value, b),
           NEW trailing \in BOOLEAN, NEW end \in Nat, LineEndAt(r.wire, Blank(b), end),
           NEW i \in Nat, i < Len(r.wire), NEW q, InBlock(r, value, b, trailing, i, q)
    PROVE  \/ InBlock(r, value, b, trailing, i + 1, Execute(q, r.wire[i + 1]))
           \/ /\ i + 1 = end - 1 /\ Execute(q, r.wire[i + 1]) = HeadersAlmostDone(q, "LF")
              /\ Carries(r, value, b, trailing, Len(b.line), i, q)
<1>1. PICK k \in 1 .. Len(b.line) : OnLine(r.wire, b, k, i, q) /\ Carries(r, value, b, trailing, k, i, q)
  BY DEF InBlock
<1>2. k \in Lines(b) \/ k = Len(b.line)
  BY DEF Lines, Block
<1>3. CASE k \in Lines(b)
  <2>1. k # Len(b.line)
    BY <1>3 DEF Lines, Block
  <2>2. {b.first[k], b.stop[k]} \subseteq Nat
    BY <1>3, LineOrder
  <2>3. CASE Between(r.wire, b, k, i, q)
    BY <1>1, <1>3, <2>3, LineBegins
  <2>4. CASE OnName(r.wire, b, k, i, q)
    BY <1>1, <1>3, <2>4, NameEnds
  <2>5. CASE Spaces(r.wire, b, k, i, q)
    BY <1>1, <1>3, <2>5, SpacesEnd
  <2>6. CASE Inside(r.wire, b, k, i, q)
    <3>1. CASE i \in b.first[k] .. b.stop[k] - 1 /\ q.state = "value" /\ HeaderAt(r.wire, b, k, i, q.header)
      <4>1. i + 1 < b.stop[k] \/ i + 1 = b.stop[k]
        BY <2>2, <3>1
      <4>2. CASE i + 1 < b.stop[k]
        BY <1>1, <1>3, <3>1, <4>2, ValueGoesOn
      <4>3. CASE i + 1 = b.stop[k]
        BY <1>1, <1>3, <3>1, <4>3, ValueEnds
      <4> QED
        BY <4>1, <4>2, <4>3
    <3>2. CASE /\ i = b.stop[k] /\ r.wire[i] = "CR" /\ q.state = "header_almost_done"
               /\ HeaderAt(r.wire, b, k, i - 1, q.header)
      BY <1>1, <1>3, <3>2, ValueEnds
    <3> QED
      BY <2>6, <3>1, <3>2 DEF Inside
  <2> QED
    BY <1>1, <2>1, <2>3, <2>4, <2>5, <2>6 DEF OnLine, BlankRead
<1>4. CASE k = Len(b.line)
  <2>1. k \notin Lines(b)
    BY <1>4 DEF Lines, Block
  <2> QED
    BY <1>1, <1>4, <2>1, BlankLine DEF OnLine
<1> QED
  BY <1>2, <1>3, <1>4

\* The parts of a layout.
LEMMA LaidParts ==
    ASSUME NEW r, NEW l, Laid(r, l)
    PROVE  /\ RequestLine(r.wire, l) /\ r.url = SubSeq(r.wire, l.method + 2, l.urlEnd - 1)
           /\ Block(r.wire, l.value, l.head) /\ LineEndAt(r.wire, l.version + 4, l.head.line[1])
           /\ l.data \in Nat /\ LineEndAt(r.wire, Blank(l.head), l.data)
           /\ r.end \in Nat \ {0} /\ All(r.wire, r.end + 1, Len(r.wire) + 1, LineEnd)
           /\ Blank(l.head) \in Nat \ {0} /\ Blank(l.head) < l.data
<1>1. /\ RequestLine(r.wire, l) /\ r.url = SubSeq(r.wire, l.method + 2, l.urlEnd - 1)
      /\ Block(r.wire, l.value, l.head) /\ LineEndAt(r.wire, l.version + 4, l.head.line[1])
      /\ l.data \in Nat /\ LineEndAt(r.wire, Blank(l.head), l.data)
      /\ r.end \in 1 .. Len(r.wire) /\ All(r.wire, r.end + 1, Len(r.wire) + 1, LineEnd)
  BY DEF Laid
<1>2. Blank(l.head) \in Nat \ {0}
  BY <1>1 DEF Block, Blank
<1>3. Blank(l.head) < l.data
  BY <1>1, <1>2 DEF LineEndAt
<1> QED
  BY <1>1, <1>2, <1>3

\* What a layout says of either body.
LEMMA ChunkedParts ==
    ASSUME NEW r, NEW l, Laid(r, l), Chunked(r.wire, l.head)
    PROVE  /\ ChunksAt(r.wire, l, r.body) /\ Block(r.wire, l.value, l.trailer)
           /\ l.trailer.line[1] = l.cr[Len(l.chunk)] + 2
           /\ LineEndAt(r.wire, Blank(l.trailer), r.end + 1)
  BY Zenon DEF Laid

LEMMA IdentityParts ==
    ASSUME NEW r, NEW l, Laid(r, l), ~Chunked(r.wire, l.head)
    PROVE  \E n \in Nat : /\ LengthIs(r.wire, l.value, l.head, n) /\ r.end = l.data - 1 + n
                          /\ r.body = SubSeq(r.wire, l.data, r.end)
<1>1. \E n \in 0 .. Len(r.wire) : /\ LengthIs(r.wire, l.value, l.head, n) /\ r.end = l.data - 1 + n
                                  /\ r.body = SubSeq(r.wire, l.data, r.end)
  BY Zenon DEF Laid
<1>2. \A n \in 0 .. Len(r.wire) : n \in Nat
  OBVIOUS
<1> QED
  BY <1>1, <1>2, Zenon

\* A request without a body is complete at the end of its headers, any other
\* goes on with its body.
LEMMA HeadEnds ==
    ASSUME NEW r, NEW l, r.wire \in Seq(STRING), Laid(r, l), NEW i \in Nat, i + 1 = l.data - 1, NEW q,
           Carries(r, l.value, l.head, FALSE, Len(l.head.line), i, q),
           NEW e, e = HeadersAlmostDone(q, "LF"), Sound(e)
    PROVE  InIdentity(r, l, i + 1, e) \/ InChunks(r, l, i + 1, e) \/ Done(r, i + 1, e)
<1> DEFINE b == l.head  w == r.wire
<1>1. /\ Block(w, l.value, b) /\ l.data \in Nat /\ r.end \in Nat
      /\ Len(b.line) \in Nat /\ Len(b.line) \notin Lines(b)
  <2>1. Block(w, l.value, b) /\ l.data \in Nat /\ r.end \in Nat
    BY LaidParts
  <2> QED
    BY <2>1, SMTT(30) DEF Block, Lines
<1>2. /\ Going(q) /\ Sound(q) /\ q \in Parser /\ q.left = FALSE /\ q.complete = FALSE
      /\ q.url = r.url /\ q.method # "CONNECT" /\ q.body = <<>>
      /\ FlagsBefore(w, b, Len(b.line), FALSE, q.flags)
      /\ LengthOn(w, l.value, b, Len(b.line), FALSE, i, q.length)
  BY DEF Carries, Going, Sound
<1>3. /\ "upgrade" \notin q.flags /\ "trailing" \notin q.flags
      /\ "chunked" \in q.flags <=> Chunked(w, b)
  BY <1>2 DEF FlagsBefore, ChunkedBefore, Chunked, Lines
<1>4. LengthBefore(w, l.value, b, Len(b.line), q.length)
  BY <1>1, <1>2 DEF LengthOn
<1>5. e = HeadersDone(q, "LF")
  BY <1>3 DEF HeadersAlmostDone
<1> HIDE DEF b, w
<1>6. CASE Chunked(w, b)
  <2>1. e = To(q, "chunk_size_start")
    BY <1>2, <1>3, <1>5, <1>6 DEF HeadersDone
  <2>2. Going(e) /\ e.url = r.url /\ e.method # "CONNECT" /\ e.body = <<>> /\ e.state = "chunk_size_start"
    BY <1>2, <2>1, ToKeeps, StateNames DEF Going
  <2>3. /\ 1 \in 1 .. Len(l.chunk) /\ l.chunk[1] = l.data /\ l.offset[1] = 0
    BY <1>6, ChunkedParts DEF ChunksAt, b, w
  <2>4. SubSeq(r.body, 1, l.offset[1]) = <<>>
    BY <2>3, SubSeqEmpty
  <2>5. InChunk(r, l, 1, i + 1, e)
    BY <2>2, <2>3, <2>4 DEF InChunk, SizeOn
  <2> QED
    BY <1>6, <2>2, <2>3, <2>5 DEF InChunks, b, w
<1>7. CASE ~Chunked(w, b)
  <2>1. PICK n \in Nat : LengthIs(w, l.value, b, n) /\ r.end = l.data - 1 + n /\ r.body = SubSeq(w, l.data, r.end)
    BY <1>7, IdentityParts DEF b, w
  <2>2. (q.length = NoLength /\ n = 0) \/ (q.length = n /\ n # NoLength)
    <3>1. CASE q.length = NoLength /\ \A j \in Lines(b) : ~IsLength(w, b, j)
      BY <2>1, <3>1 DEF LengthIs
    <3>2. CASE \E j \in Lines(b) : IsLength(w, b, j) /\ q.length = l.value[b.stop[j] - 1]
      <4>1. PICK j \in Lines(b) : IsLength(w, b, j) /\ q.length = l.value[b.stop[j] - 1]
        BY <3>2
      <4>2. PICK k \in Lines(b) : IsLength(w, b, k) /\ n = l.value[b.stop[k] - 1]
        BY <2>1, <4>1 DEF LengthIs
      <4>3. j = k
        BY <1>1, <4>1, <4>2 DEF Block
      <4>4. {b.first[k], b.stop[k]} \subseteq Nat /\ b.first[k] < b.stop[k]
        BY <1>1, <4>2, LineOrder
      <4>5. NumberAt(w, l.value, b.first[k], b.stop[k], 10, Decimal)
        BY <1>1, <4>2 DEF Block, LineAt
      <4>6. b.stop[k] - 1 \in b.first[k] .. b.stop[k] - 1
        BY <4>4
      <4>7. n \in 0 .. NoLength - 1
        BY <4>2, <4>5, <4>6 DEF NumberAt
      <4> QED
        BY <4>1, <4>2, <4>3, <4>7, LengthRoom
    <3> QED
      BY <1>4, <3>1, <3>2 DEF LengthBefore, Lines
  <2>3. e = IF q.length \in {0, NoLength} THEN Complete(q) ELSE To(q, "body_identity")
    BY <1>2, <1>3, <1>5, <1>7 DEF HeadersDone
  <2>4. CASE n = 0
    <3>1. e = Complete(q)
      BY <2>2, <2>3, <2>4
    <3>2. PICK s \in {"start_req", "dead"} : e = [To(q, s) EXCEPT !.complete = TRUE]
      BY <3>1 DEF Complete
    <3>3. /\ e.state = s /\ e.left = FALSE /\ e.complete = TRUE /\ e.url = r.url /\ e.body = <<>>
      BY <1>2, <3>2 DEF To, Parser
    <3>4. r.end = i + 1 /\ r.end < l.data
      BY <1>1, <2>1, <2>4
    <3>5. r.body = <<>>
      <4>1. r.end \in Int /\ l.data \in Int
        BY <1>1
      <4>2. SubSeq(w, l.data, r.end) = <<>>
        BY <3>4, <4>1, SubSeqEmpty
      <4> QED
        BY <2>1, <4>2
    <3> QED
      BY <3>3, <3>4, <3>5 DEF Done
  <2>5. CASE n # 0 /\ q.length # NoLength
    <3>1. e = To(q, "body_identity") /\ q.length = n
      BY <2>2, <2>3, <2>5
    <3>2. Going(e) /\ e.url = r.url /\ e.body = <<>> /\ e.state = "body_identity" /\ e.length = n
      BY <1>2, <3>1, ToKeeps, StateNames DEF Going
    <3>3. i + 1 \in l.data - 1 .. r.end - 1 /\ n = r.end - (i + 1)
      <4>1. n \in Nat \ {0} /\ r.end = (i + 1) + n /\ l.data - 1 = i + 1
        BY <2>1, <2>5
      <4>2. \A m \in Nat, k \in Nat \ {0} : m \in m .. (m + k) - 1 /\ k = (m + k) - m
        OBVIOUS
      <4> QED
        BY <4>1, <4>2
    <3>4. SubSeq(w, l.data, i + 1) = <<>>
      BY <1>1, SubSeqEmpty
    <3> QED
      BY <1>7, <3>2, <3>3, <3>4 DEF InIdentity, b, w
  <2>6. q.length # NoLength \/ n = 0
    BY <2>2
  <2> QED
    BY <2>4, <2>5, <2>6
<1> QED
  BY <1>6, <1>7

\* The blank line after the trailers completes a chunked request.
LEMMA TrailerEnds ==
    ASSUME NEW r, NEW value, NEW b, NEW i \in Nat, i + 1 = r.end, NEW q, NEW k,
           Carries(r, value, b, TRUE, k, i, q), NEW e, e = HeadersAlmostDone(q, "LF"), Sound(e)
    PROVE  Done(r, i + 1, e)
<1>1. /\ q \in Parser /\ q.left = FALSE /\ q.url = r.url /\ q.body = r.body /\ "trailing" \in q.flags
  BY DEF Carries, Going, Sound, FlagsBefore
<1>2. e = Complete(q)
  BY <1>1 DEF HeadersAlmostDone
<1>3. PICK s \in {"start_req", "dead"} : e = [To(q, s) EXCEPT !.complete = TRUE]
  BY <1>2 DEF Complete
<1>4. e.state = s /\ e.left = FALSE /\ e.complete = TRUE /\ e.url = r.url /\ e.body = r.body
  BY <1>1, <1>3 DEF To, Parser
<1> QED
  BY <1>4 DEF Done

\* One byte of a body with a length.
LEMMA IdentityStep ==
    ASSUME NEW r, NEW l, r.wire \in Seq(STRING), Laid(r, l), NEW i \in Nat, i < Len(r.wire), NEW q,
           InIdentity(r, l, i, q)
    PROVE  InIdentity(r, l, i + 1, Execute(q, r.wire[i + 1])) \/ Done(r, i + 1, Execute(q, r.wire[i + 1]))
<1>1. PICK c : c = r.wire[i + 1]
  OBVIOUS
<1>2. PICK e : e = Execute(q, c)
  OBVIOUS
<1>3. /\ Going(q) /\ Sound(q) /\ q \in Parser /\ q.left = FALSE /\ q.complete = FALSE /\ q.url = r.url
      /\ q.state = "body_identity" /\ i \in l.data - 1 .. r.end - 1 /\ q.length = r.end - i
      /\ q.body = SubSeq(r.wire, l.data, i) /\ ~Chunked(r.wire, l.head)
  BY DEF InIdentity, Going, Sound
<1>4. Sound(e)
  BY <1>1, <1>2, <1>3, ExecuteSound, LexemeType
<1>5. l.data \in Nat \ {0} /\ r.end \in Nat /\ r.body = SubSeq(r.wire, l.data, r.end)
  <2>1. l.data \in Nat \ {0} /\ r.end \in Nat
    BY LaidParts
  <2> QED
    BY <1>3, <2>1, IdentityParts
<1>6. Append(q.body, c) = SubSeq(r.wire, l.data, i + 1)
  <2>1. l.data <= i + 1 /\ i + 1 <= Len(r.wire)
    BY <1>3, <1>5
  <2> QED
    BY <1>1, <1>3, <1>5, <2>1, PartGrows
<1>7. PICK p : p = Byte(q, c)
  OBVIOUS
<1>8. /\ p \in Parser /\ p.length = r.end - (i + 1) /\ p.body = SubSeq(r.wire, l.data, i + 1)
      /\ p.state = "body_identity" /\ p.left = FALSE /\ p.complete = FALSE /\ p.url = r.url
  <2>1. p \in Parser /\ p.length = q.length - 1
    <3>1. q.length # 0
      BY <1>3, <1>5
    <3> QED
      BY <1>1, <1>3, <1>7, <3>1, BodyByte, LexemeType
  <2>2. /\ p.body = Append(q.body, c) /\ p.state = q.state /\ p.left = FALSE /\ p.complete = FALSE
        /\ p.url = q.url
    BY <1>3, <1>7 DEF Byte, Parser
  <2> QED
    BY <1>3, <1>5, <1>6, <2>1, <2>2
<1>9. e = IF p.length = 0 THEN Complete(p) ELSE p
  BY <1>2, <1>3, <1>7, BodyDispatch DEF BodyIdentity, MessageDone
<1>10. CASE p.length = 0
  <2>1. PICK s \in {"start_req", "dead"} : e = [To(p, s) EXCEPT !.complete = TRUE]
    BY <1>9, <1>10 DEF Complete
  <2>2. /\ e.state = s /\ e.left = FALSE /\ e.complete = TRUE /\ e.url = r.url /\ e.body = p.body
    BY <1>8, <2>1 DEF To, Parser
  <2>3. r.end = i + 1
    BY <1>5, <1>8, <1>10
  <2> QED
    BY <1>1, <1>2, <1>4, <1>5, <1>8, <2>2, <2>3 DEF Done
<1>11. CASE p.length # 0
  <2>1. e = p
    BY <1>9, <1>11
  <2>2. i + 1 \in l.data - 1 .. r.end - 1
    BY <1>3, <1>5, <1>8, <1>11, SMTT(30)
  <2> QED
    BY <1>1, <1>2, <1>3, <1>4, <1>8, <2>1, <2>2 DEF InIdentity, Going
<1> QED
  BY <1>10, <1>11

\* Line ends after a request change nothing.
LEMMA DoneStep ==
    ASSUME NEW r, NEW l, r.wire \in Seq(STRING), Laid(r, l), NEW i \in Nat, i < Len(r.wire), NEW q,
           Done(r, i, q)
    PROVE  Done(r, i + 1, Execute(q, r.wire[i + 1]))
<1>1. PICK c : c = r.wire[i + 1]
  OBVIOUS
<1>2. r.end \in Nat /\ i >= r.end /\ q.left = FALSE /\ q.state \in {"start_req", "dead"}
  BY LaidParts DEF Done
<1>3. c \in LineEnd
  <2>1. i + 1 \in r.end + 1 .. (Len(r.wire) + 1) - 1
    BY <1>2
  <2> QED
    BY <1>1, <2>1, LaidParts DEF All
<1>4. Execute(q, c) = q
  BY <1>2, <1>3, RequestLineDispatch, BodyDispatch DEF StartReq, Dead
<1> QED
  BY <1>1, <1>2, <1>4 DEF Done

\* The parts of a chunk come one after the other.
LEMMA ChunkOrder ==
    ASSUME NEW w, NEW l, NEW body, ChunksAt(w, l, body), NEW c \in 1 .. Len(l.chunk)
    PROVE  /\ {l.chunk[c], l.size[c], l.cr[c], l.offset[c]} \subseteq Nat
           /\ l.chunk[c] < l.size[c] /\ l.size[c] <= l.cr[c] /\ ChunkAt(w, l, c)
           /\ l.offset[c] <= Len(body) /\ ChunkLength(l, c) \in 0 .. NoLength - 1
           /\ c \in Chunks(l) <=> c # Len(l.chunk)
<1>1. Len(l.chunk) \in Nat /\ l.chunk \in Seq(Nat) /\ body \in Seq(STRING)
  BY DEF ChunksAt
<1>2. l.chunk[c] \in Nat /\ (c \in Chunks(l) <=> c # Len(l.chunk))
  BY <1>1 DEF Chunks
<1>3. {l.size[c], l.cr[c]} \subseteq Nat /\ ChunkAt(w, l, c) /\ l.offset[c] \in 0 .. Len(body)
  BY DEF ChunksAt
<1>4. l.chunk[c] < l.size[c] /\ l.size[c] <= l.cr[c]
  <2>1. l.chunk[c] < l.size[c]
    BY <1>3 DEF ChunkAt, NumberAt
  <2>2. l.cr[c] = l.size[c] \/ l.size[c] < l.cr[c]
    BY <1>3 DEF ChunkAt
  <2> QED
    BY <1>3, <2>1, <2>2
<1>5. l.size[c] - 1 \in l.chunk[c] .. l.size[c] - 1
  BY <1>2, <1>3, <1>4
<1>6. ChunkLength(l, c) \in 0 .. NoLength - 1
  BY <1>3, <1>5 DEF ChunkAt, NumberAt, ChunkLength
<1>7. l.offset[c] \in Nat /\ l.offset[c] <= Len(body)
  BY <1>1, <1>3
<1> QED
  BY <1>2, <1>3, <1>4, <1>6, <1>7

\* The size of a chunk, digit by digit.
LEMMA ChunkSizeStep ==
    ASSUME NEW r, NEW l, r.wire \in Seq(STRING), ChunksAt(r.wire, l, r.body), NEW c \in 1 .. Len(l.chunk),
           NEW i \in Nat, i < Len(r.wire), NEW q, Going(q), SizeOn(r, l, c, i, q),
           NEW e, e = Execute(q, r.wire[i + 1])
    PROVE  Follows(q, e) /\ InChunk(r, l, c, i + 1, e)
<1>1. PICK x : x = r.wire[i + 1]
  OBVIOUS
<1>2. /\ {l.chunk[c], l.size[c], l.cr[c], l.offset[c]} \subseteq Nat
      /\ l.chunk[c] < l.size[c] /\ l.size[c] <= l.cr[c] /\ ChunkAt(r.wire, l, c)
  BY ChunkOrder
<1>3. Sound(q) /\ q \in Parser /\ q.left = FALSE /\ q.complete = FALSE
  BY DEF Going, Sound
<1>4. Sound(e)
  BY <1>3, ExecuteSound, LexemeType
<1>5. NumberAt(r.wire, l.value, l.chunk[c], l.size[c], 16, Hex)
  BY <1>2 DEF ChunkAt
<1>6. \A k \in l.chunk[c] .. l.size[c] - 1 : r.wire[k] \in DOMAIN Hex /\ l.value[k] \in 0 .. NoLength - 1
  BY <1>5 DEF NumberAt, All
<1>7. /\ q.body = SubSeq(r.body, 1, l.offset[c])
       /\ \/ i = l.chunk[c] - 1 /\ q.state = "chunk_size_start"
          \/ i \in l.chunk[c] .. l.size[c] - 1 /\ q.state = "chunk_size" /\ q.length = l.value[i]
  BY DEF SizeOn
<1>8. ASSUME i + 1 \in l.chunk[c] .. l.size[c] - 1, e.state = "chunk_size", e.length = l.value[i + 1],
             e.body = q.body
      PROVE  InChunk(r, l, c, i + 1, e)
  BY <1>8, <1>7 DEF Follows, InChunk, SizeOn
<1>9. CASE i = l.chunk[c] - 1 /\ q.state = "chunk_size_start"
  <2>1. i + 1 = l.chunk[c] /\ i + 1 \in l.chunk[c] .. l.size[c] - 1
    BY <1>2, <1>9
  <2>2. PICK t \in 0 .. 15 : t = Hex[x] /\ x \in DOMAIN Hex
    BY <1>1, <1>6, <2>1, DigitValues
  <2>3. l.value[i + 1] = t
    <3>1. l.value[i + 1] = 0 + Hex[r.wire[i + 1]]
      BY <1>5, <2>1 DEF NumberAt
    <3> QED
      BY <1>1, <2>2, <3>1
  <2>4. e = [To(q, "chunk_size") EXCEPT !.length = t]
    BY <1>1, <1>3, <1>9, <2>2, BodyDispatch DEF ChunkSizeStart
  <2>5. /\ e.state = "chunk_size" /\ e.length = t /\ e.body = q.body /\ e.url = q.url
        /\ e.method = q.method /\ e.left = FALSE /\ e.complete = FALSE
    BY <1>3, <2>4 DEF To, Parser
  <2> QED
    BY <1>4, <1>8, <2>1, <2>3, <2>5 DEF Follows, Going
<1>10. CASE i \in l.chunk[c] .. l.size[c] - 1 /\ q.state = "chunk_size" /\ q.length = l.value[i]
  <2>1. e = ChunkSize(q, x)
    BY <1>1, <1>3, <1>10, BodyDispatch
  <2>2. CASE i + 1 < l.size[c]
    <3>1. i + 1 \in l.chunk[c] .. l.size[c] - 1 /\ i + 1 # l.chunk[c] /\ (i + 1) - 1 = i
      <4>1. PICK a \in Nat : a = l.chunk[c]
        BY <1>2
      <4>2. PICK b \in Nat : b = l.size[c]
        BY <1>2
      <4>3. i \in a .. b - 1 /\ i + 1 < b
        BY <1>10, <2>2, <4>1, <4>2
      <4>4. i + 1 \in a .. b - 1 /\ i + 1 # a /\ (i + 1) - 1 = i
        BY <4>3
      <4> QED
        BY <4>1, <4>2, <4>4
    <3>2. PICK t \in 0 .. NoLength - 1 : t = l.value[i + 1]
      BY <1>6, <3>1
    <3>3. PICK d \in 0 .. 15 : d = Hex[x] /\ x \in DOMAIN Hex
      BY <1>1, <1>6, <3>1, DigitValues
    <3>4. t = q.length * 16 + d /\ q.length # NoLength
      <4>1. l.value[i + 1] = (IF i + 1 = l.chunk[c] THEN 0 ELSE l.value[(i + 1) - 1] * 16) + Hex[r.wire[i + 1]]
        BY <1>5, <3>1 DEF NumberAt
      <4>2. q.length \in 0 .. NoLength - 1
        BY <1>6, <1>10
      <4> QED
        BY <1>1, <1>10, <3>1, <3>2, <3>3, <4>1, <4>2, LengthRoom, SMTT(30)
    <3>5. e = Longer(q, 16, d)
      <4>1. x # "CR"
        BY <3>3, TokenNames
      <4> QED
        BY <2>1, <3>3, <4>1, TokenNames DEF ChunkSize
    <3>6. e = [q EXCEPT !.length = t]
      BY <1>3, <3>2, <3>3, <3>4, <3>5, DigitRead, ZenonT(40)
    <3>7. /\ e.state = "chunk_size" /\ e.length = t /\ e.body = q.body /\ e.url = q.url
          /\ e.method = q.method /\ e.left = FALSE /\ e.complete = FALSE
      BY <1>3, <1>10, <3>6 DEF Parser
    <3> QED
      BY <1>4, <1>8, <3>1, <3>2, <3>7 DEF Follows, Going
  <2>3. CASE i + 1 = l.size[c]
    <3>1. i = l.size[c] - 1 /\ q.length = ChunkLength(l, c)
      <4>1. PICK a \in Nat : a = l.size[c]
        BY <1>2
      <4>2. i = a - 1
        BY <2>3, <4>1, SMTT(30)
      <4> QED
        BY <1>10, <4>1, <4>2 DEF ChunkLength
    <3>2. CASE l.cr[c] = l.size[c]
      <4>1. x = "CR"
        BY <1>1, <1>2, <2>3, <3>2 DEF ChunkAt
      <4>2. e = To(q, "chunk_size_almost_done")
        BY <2>1, <4>1, TokenNames DEF ChunkSize
      <4>3. /\ e.state = "chunk_size_almost_done" /\ Going(e) /\ e.url = q.url /\ e.method = q.method
            /\ e.length = q.length /\ e.body = q.body
        BY <1>3, <1>4, <4>2, ToKeeps, StateNames, SMTT(30) DEF Going
      <4> QED
        BY <1>7, <2>3, <3>1, <3>2, <4>3, ZenonT(40) DEF Follows, InChunk, SizeRead, ParametersOn
    <3>3. CASE l.cr[c] # l.size[c]
      <4>1. x \in {";", "SP"} /\ l.size[c] < l.cr[c]
        BY <1>1, <1>2, <2>3, <3>3 DEF ChunkAt
      <4>2. e = To(q, "chunk_parameters")
        BY <2>1, <4>1, TokenNames DEF ChunkSize
      <4>3. /\ e.state = "chunk_parameters" /\ Going(e) /\ e.url = q.url /\ e.method = q.method
            /\ e.length = q.length /\ e.body = q.body
        BY <1>3, <1>4, <4>2, ToKeeps, StateNames DEF Going
      <4>4. i + 1 \in l.size[c] .. l.cr[c] - 1
        <5>1. l.size[c] \in Nat /\ l.cr[c] \in Nat /\ l.size[c] < l.cr[c]
          BY <1>2, <4>1
        <5>2. l.size[c] \in l.size[c] .. l.cr[c] - 1
          BY <5>1
        <5> QED
          BY <2>3, <5>2
      <4> QED
        BY <1>7, <3>1, <4>3, <4>4, ZenonT(40) DEF Follows, InChunk, SizeRead, ParametersOn
    <3> QED
      BY <3>2, <3>3
  <2> QED
    BY <1>2, <1>10, <2>2, <2>3
<1> QED
  BY <1>9, <1>10, <1>7

\* Parameters are passed over.
LEMMA ChunkParametersStep ==
    ASSUME NEW r, NEW l, r.wire \in Seq(STRING), ChunksAt(r.wire, l, r.body), NEW c \in 1 .. Len(l.chunk),
           NEW i \in Nat, i < Len(r.wire), NEW q, Going(q), ParametersOn(r, l, c, i, q),
           NEW e, e = Execute(q, r.wire[i + 1])
    PROVE  Follows(q, e) /\ InChunk(r, l, c, i + 1, e)
<1>1. PICK x : x = r.wire[i + 1]
  OBVIOUS
<1>2. {l.size[c], l.cr[c]} \subseteq Nat /\ ChunkAt(r.wire, l, c)
  BY ChunkOrder
<1>3. Sound(q) /\ q \in Parser /\ q.left = FALSE /\ q.complete = FALSE
  BY DEF Going, Sound
<1>4. Sound(e)
  BY <1>3, ExecuteSound, LexemeType
<1>5. /\ q.body = SubSeq(r.body, 1, l.offset[c]) /\ q.length = ChunkLength(l, c)
      /\ i \in l.size[c] .. l.cr[c] - 1 /\ q.state = "chunk_parameters"
  BY DEF ParametersOn
<1>6. e = ChunkParameters(q, x)
  BY <1>1, <1>3, <1>5, BodyDispatch
<1>7. CASE i + 1 < l.cr[c]
  <2>1. i + 1 \in l.size[c] .. l.cr[c] - 1
    BY <1>2, <1>7, <1>5
  <2>2. x # "CR"
    <3>1. l.cr[c] # l.size[c]
      BY <1>2, <2>1
    <3>2. \A k \in l.size[c] .. l.cr[c] - 1 : r.wire[k] # "CR"
      BY <1>2, <3>1 DEF ChunkAt
    <3> QED
      BY <1>1, <2>1, <3>2
  <2>3. e = q
    BY <1>6, <2>2 DEF ChunkParameters
  <2> QED
    BY <1>5, <2>1, <2>3 DEF Follows, InChunk, ParametersOn
<1>8. CASE i + 1 = l.cr[c]
  <2>1. x = "CR"
    BY <1>1, <1>2, <1>8 DEF ChunkAt
  <2>2. e = To(q, "chunk_size_almost_done")
    BY <1>6, <2>1 DEF ChunkParameters
  <2>3. /\ e.state = "chunk_size_almost_done" /\ Going(e) /\ e.url = q.url /\ e.method = q.method
        /\ e.length = q.length /\ e.body = q.body
    BY <1>3, <1>4, <2>2, ToKeeps, StateNames DEF Going
  <2> QED
    BY <1>8, <1>5, <2>3 DEF Follows, InChunk, SizeRead
<1> QED
  BY <1>2, <1>7, <1>8, <1>5

\* The line end after a chunk's size: its data follows, or the trailers.
LEMMA ChunkSizeEnds ==
    ASSUME NEW r, NEW l, r.wire \in Seq(STRING), Laid(r, l), Chunked(r.wire, l.head),
           NEW c \in 1 .. Len(l.chunk), NEW i \in Nat, i < Len(r.wire), NEW q, Going(q),
           SizeRead(r, l, c, i, q), q.url = r.url, q.method # "CONNECT",
           NEW e, e = Execute(q, r.wire[i + 1])
    PROVE  InChunks(r, l, i + 1, e) \/ InBlock(r, l.value, l.trailer, TRUE, i + 1, e)
<1>1. /\ ChunksAt(r.wire, l, r.body) /\ Block(r.wire, l.value, l.trailer)
      /\ l.trailer.line[1] = l.cr[Len(l.chunk)] + 2
  BY ChunkedParts
<1>2. /\ {l.cr[c], l.offset[c]} \subseteq Nat /\ ChunkAt(r.wire, l, c)
      /\ ChunkLength(l, c) \in 0 .. NoLength - 1 /\ (c \in Chunks(l) <=> c # Len(l.chunk))
  BY <1>1, ChunkOrder
<1>3. Sound(q) /\ q \in Parser /\ q.left = FALSE /\ q.complete = FALSE
  BY DEF Going, Sound
<1>4. Sound(e)
  BY <1>3, ExecuteSound, LexemeType
<1>5. /\ q.body = SubSeq(r.body, 1, l.offset[c]) /\ q.length = ChunkLength(l, c)
      /\ i = l.cr[c] /\ q.state = "chunk_size_almost_done"
  BY DEF SizeRead
<1>6. r.wire[i + 1] = "LF"
  BY <1>2, <1>5 DEF ChunkAt
<1>7. e = ChunkSizeAlmostDone(q, "LF")
  BY <1>3, <1>6, <1>5, BodyDispatch
<1>8. CASE c = Len(l.chunk)
  <2>1. q.length = 0 /\ l.offset[c] = Len(r.body) /\ r.body \in Seq(STRING)
    BY <1>1, <1>8, <1>5 DEF ChunksAt
  <2>2. e = [To(q, "field_start") EXCEPT !.flags = @ \cup {"trailing"}]
    BY <1>7, <2>1 DEF ChunkSizeAlmostDone
  <2>3. /\ e.state = "field_start" /\ "trailing" \in e.flags /\ Going(e) /\ e.url = r.url
        /\ e.method # "CONNECT" /\ e.body = q.body
    BY <1>3, <1>4, <2>2 DEF To, Parser, Going
  <2>4. SubSeq(r.body, 1, Len(r.body)) = r.body
    BY <2>1, SubSeqFull, SMTT(30)
  <2>5. e.body = r.body
    BY <1>5, <2>1, <2>3, <2>4
  <2>6. i + 1 = l.trailer.line[1] - 1
    BY <1>1, <1>2, <1>8, <1>5
  <2>7. InBlock(r, l.value, l.trailer, TRUE, l.trailer.line[1] - 1, e)
    BY <1>1, <2>3, <2>5, BlockStart
  <2> QED
    BY <2>6, <2>7
<1>9. CASE c # Len(l.chunk)
  <2>1. c \in Chunks(l)
    BY <1>2, <1>9
  <2>2. ChunkLength(l, c) > 0
    BY <1>1, <2>1 DEF ChunksAt
  <2>3. e = To(q, "chunk_data")
    BY <1>2, <1>7, <1>5, <2>2 DEF ChunkSizeAlmostDone
  <2>4. /\ e.state = "chunk_data" /\ Going(e) /\ e.url = r.url /\ e.method # "CONNECT"
        /\ e.length = q.length /\ e.body = q.body
    BY <1>3, <1>4, <2>3, ToKeeps, StateNames DEF Going
  <2>5. /\ (i + 1) - (l.cr[c] + 1) = 0 /\ 0 \in 0 .. ChunkLength(l, c) - 1
        /\ ChunkLength(l, c) - 0 = ChunkLength(l, c) /\ l.offset[c] + 0 = l.offset[c]
    <3>1. PICK a \in Nat : a = l.cr[c]
      BY <1>2
    <3>2. PICK n \in Nat : n = ChunkLength(l, c)
      BY <1>2, LengthRoom
    <3>3. (a + 1) - (a + 1) = 0 /\ 0 \in 0 .. n - 1 /\ n - 0 = n
      BY <2>2, <3>2
    <3>4. l.offset[c] + 0 = l.offset[c]
      BY <1>2, SMTT(30)
    <3> QED
      BY <1>5, <3>1, <3>2, <3>3, <3>4
  <2>6. InChunk(r, l, c, i + 1, e)
    BY <1>5, <2>1, <2>4, <2>5 DEF InChunk, DataOn
  <2> QED
    BY <2>4, <2>6 DEF InChunks
<1> QED
  BY <1>8, <1>9

\* One byte of a chunk.
LEMMA ChunkDataStep ==
    ASSUME NEW r, NEW l, r.wire \in Seq(STRING), ChunksAt(r.wire, l, r.body), NEW c \in Chunks(l),
           NEW i \in Nat, i < Len(r.wire), NEW q, Going(q), DataOn(r, l, c, i, q),
           NEW e, e = Execute(q, r.wire[i + 1])
    PROVE  Follows(q, e) /\ InChunk(r, l, c, i + 1, e)
<1>1. PICK x : x = r.wire[i + 1]
  OBVIOUS
<1>2. PICK n \in Nat : n = ChunkLength(l, c)
  <2>1. c \in 1 .. Len(l.chunk)
    BY DEF ChunksAt, Chunks
  <2> QED
    BY <2>1, ChunkOrder, LengthRoom
<1>3. /\ Len(l.chunk) \in Nat /\ r.body \in Seq(STRING) /\ c \in 1 .. Len(l.chunk)
      /\ c + 1 \in 1 .. Len(l.chunk)
  <2>1. Len(l.chunk) \in Nat /\ r.body \in Seq(STRING)
    BY DEF ChunksAt
  <2> QED
    BY <2>1 DEF Chunks
<1>4. /\ l.cr[c] \in Nat /\ l.offset[c] \in Nat /\ l.offset[c + 1] \in Nat
      /\ n \in 0 .. NoLength - 1 /\ l.offset[c + 1] <= Len(r.body)
  BY <1>2, <1>3, ChunkOrder
<1>5. /\ l.offset[c + 1] = l.offset[c] + n
      /\ \A k \in 0 .. n - 1 : r.body[l.offset[c] + k + 1] = r.wire[l.cr[c] + 2 + k]
  BY <1>2 DEF ChunksAt
<1>6. /\ q.state = "chunk_data" /\ i - (l.cr[c] + 1) \in 0 .. n - 1
       /\ q.length = n - (i - (l.cr[c] + 1))
       /\ q.body = SubSeq(r.body, 1, l.offset[c] + (i - (l.cr[c] + 1)))
  BY <1>2 DEF DataOn
<1>7. PICK read \in Nat : read = i - (l.cr[c] + 1) /\ read < n
  BY <1>4, <1>6
<1>8. q.length = n - read /\ q.body = SubSeq(r.body, 1, l.offset[c] + read)
  BY <1>6, <1>7
<1>9. /\ read \in Nat /\ read < n /\ n \in Nat /\ i + 1 = l.cr[c] + 2 + read
      /\ (i + 1) - (l.cr[c] + 1) = read + 1
  <2>1. PICK a \in Nat : a = l.cr[c]
    BY <1>4
  <2>2. i = a + 1 + read
    <3>1. read = i - (a + 1)
      BY <1>7, <2>1
    <3> QED
      BY <3>1
  <2>3. i + 1 = a + 2 + read /\ (i + 1) - (a + 1) = read + 1
    BY <2>2
  <2> QED
    BY <1>2, <1>7, <2>1, <2>3
<1>10. Sound(q) /\ q \in Parser /\ q.left = FALSE /\ q.complete = FALSE
  BY DEF Going, Sound
<1>11. Sound(e) /\ x \in STRING
  BY <1>1, <1>10, ExecuteSound, LexemeType
<1>12. PICK m \in Nat : m = l.offset[c] + read
  <2>1. PICK a \in Nat : a = l.offset[c]
    BY <1>4
  <2>2. a + read \in Nat
    OBVIOUS
  <2> QED
    BY <2>1, <2>2
<1>13. x = r.body[m + 1]
  <2>1. read \in 0 .. n - 1
    BY <1>9
  <2>2. r.body[l.offset[c] + read + 1] = r.wire[l.cr[c] + 2 + read]
    BY <1>5, <2>1
  <2> QED
    BY <1>1, <1>9, <1>12, <2>2
<1>14. Append(q.body, x) = SubSeq(r.body, 1, m + 1)
  <2>1. m + 1 <= Len(r.body) /\ 1 <= m + 1
    <3>1. PICK a \in Nat : a = l.offset[c]
      BY <1>4
    <3>2. PICK d \in Nat : d = Len(r.body)
      BY <1>3
    <3>3. a + n <= d /\ m = a + read
      BY <1>4, <1>5, <1>12, <3>1, <3>2
    <3> QED
      BY <1>9, <3>2, <3>3
  <2>2. q.body = SubSeq(r.body, 1, m)
    BY <1>12, <1>8
  <2>3. Append(SubSeq(r.body, 1, m), r.body[m + 1]) = SubSeq(r.body, 1, m + 1)
    BY <1>3, <2>1, PartGrows
  <2> QED
    BY <1>13, <2>2, <2>3
<1>15. PICK p : p = Byte(q, x)
  OBVIOUS
<1>16. /\ p \in Parser /\ p.length = n - (read + 1) /\ p.body = SubSeq(r.body, 1, m + 1)
       /\ p.state = "chunk_data" /\ p.left = FALSE /\ p.complete = FALSE /\ p.url = q.url
       /\ p.method = q.method
  <2>1. q.length # 0
    BY <1>2, <1>9, <1>8
  <2>2. p \in Parser /\ p.length = q.length - 1
    BY <1>10, <1>11, <1>15, <2>1, BodyByte
  <2>3. /\ p.body = Append(q.body, x) /\ p.state = q.state /\ p.left = FALSE /\ p.complete = FALSE
        /\ p.url = q.url /\ p.method = q.method
    BY <1>10, <1>15 DEF Byte, Parser
  <2>4. q.length - 1 = n - (read + 1)
    BY <1>2, <1>9, <1>8
  <2> QED
    BY <1>14, <1>6, <2>2, <2>3, <2>4
<1>17. e = IF p.length = 0 THEN To(p, "chunk_data_almost_done") ELSE p
  BY <1>1, <1>10, <1>15, <1>6, BodyDispatch, ZenonT(40) DEF ChunkData
<1>18. (i + 1) - (l.cr[c] + 1) = read + 1 /\ l.offset[c] + (read + 1) = m + 1
  <2>1. PICK a \in Nat : a = l.offset[c]
    BY <1>4
  <2>2. m = a + read
    BY <1>12, <2>1
  <2>3. a + (read + 1) = m + 1
    BY <2>2
  <2> QED
    BY <1>9, <2>1, <2>3
<1>19. CASE p.length = 0
  <2>1. /\ e.state = "chunk_data_almost_done" /\ Going(e) /\ e.url = q.url /\ e.method = q.method
        /\ e.body = SubSeq(r.body, 1, m + 1)
    BY <1>11, <1>16, <1>17, <1>19, ToKeeps, StateNames DEF Going
  <2>2. read + 1 = n
    BY <1>9, <1>16, <1>19
  <2> QED
    BY <1>2, <1>18, <2>1, <2>2 DEF Follows, InChunk, DataRead
<1>20. CASE p.length # 0
  <2>1. e = p /\ Going(e)
    BY <1>11, <1>16, <1>17, <1>20 DEF Going
  <2>2. read + 1 \in 0 .. n - 1
    BY <1>9, <1>16, <1>20
  <2> QED
    BY <1>2, <1>16, <1>18, <2>1, <2>2 DEF Follows, InChunk, DataOn
<1> QED
  BY <1>19, <1>20

\* The line end after a chunk's data, and the next chunk.
LEMMA ChunkEnds ==
    ASSUME NEW r, NEW l, r.wire \in Seq(STRING), ChunksAt(r.wire, l, r.body), NEW c \in Chunks(l),
           NEW i \in Nat, i < Len(r.wire), NEW q, Going(q),
           DataRead(r, l, c, i, q),
           NEW e, e = Execute(q, r.wire[i + 1])
    PROVE  /\ Follows(q, e)
           /\ InChunk(r, l, c, i + 1, e) \/ InChunk(r, l, c + 1, i + 1, e)
<1>1. PICK n : n = ChunkLength(l, c)
  OBVIOUS
<1>2. c \in 1 .. Len(l.chunk) /\ c + 1 \in 1 .. Len(l.chunk)
  <2>1. Len(l.chunk) \in Nat
    BY DEF ChunksAt
  <2> QED
    BY <2>1 DEF Chunks
<1>3. l.cr[c] \in Nat /\ n \in Nat
  BY <1>1, <1>2, ChunkOrder, LengthRoom
<1>4. /\ l.offset[c + 1] = l.offset[c] + n
      /\ r.wire[l.cr[c] + 2 + n] = "CR" /\ r.wire[l.cr[c] + 2 + n + 1] = "LF"
      /\ l.chunk[c + 1] = l.cr[c] + 2 + n + 2
  BY <1>1 DEF ChunksAt
<1>5. Sound(q) /\ q \in Parser /\ q.left = FALSE /\ q.complete = FALSE
  BY DEF Going, Sound
<1>6. Sound(e)
  BY <1>5, ExecuteSound, LexemeType
<1>7. /\ q.body = SubSeq(r.body, 1, l.offset[c] + n)
      /\ \/ i - (l.cr[c] + 1) = n /\ q.state = "chunk_data_almost_done"
         \/ i - (l.cr[c] + 1) = n + 1 /\ q.state = "chunk_data_done"
  BY <1>1 DEF DataRead
<1>8. CASE i - (l.cr[c] + 1) = n /\ q.state = "chunk_data_almost_done"
  <2>1. i + 1 = l.cr[c] + 2 + n /\ (i + 1) - (l.cr[c] + 1) = n + 1
    <3>1. \A a \in Nat : \A k \in Nat : i - (a + 1) = k => i + 1 = a + 2 + k /\ (i + 1) - (a + 1) = k + 1
      OBVIOUS
    <3> QED
      BY <1>3, <1>8, <3>1
  <2>2. e = To(q, "chunk_data_done")
    BY <1>4, <1>5, <1>8, <2>1, BodyDispatch DEF ChunkDataAlmostDone
  <2>3. /\ e.state = "chunk_data_done" /\ Going(e) /\ e.url = q.url /\ e.method = q.method
        /\ e.body = q.body
    BY <1>5, <1>6, <2>2, ToKeeps, StateNames DEF Going
  <2> QED
    BY <1>1, <1>7, <2>1, <2>3 DEF Follows, InChunk, DataRead
<1>9. CASE i - (l.cr[c] + 1) = n + 1 /\ q.state = "chunk_data_done"
  <2>1. i + 1 = l.cr[c] + 2 + n + 1 /\ i + 1 = l.chunk[c + 1] - 1
    <3>1. \A a \in Nat : \A k \in Nat :
              i - (a + 1) = k + 1 => i + 1 = a + 2 + k + 1 /\ i + 1 = (a + 2 + k + 2) - 1
      OBVIOUS
    <3>2. l.chunk[c + 1] - 1 = (l.cr[c] + 2 + n + 2) - 1
      BY <1>4
    <3> QED
      BY <1>3, <1>9, <3>1, <3>2
  <2>2. e = To(q, "chunk_size_start")
    BY <1>4, <1>5, <1>9, <2>1, BodyDispatch DEF ChunkDataDone
  <2>3. /\ e.state = "chunk_size_start" /\ Going(e) /\ e.url = q.url /\ e.method = q.method
        /\ e.body = q.body
    BY <1>5, <1>6, <2>2, ToKeeps, StateNames DEF Going
  <2>4. e.body = SubSeq(r.body, 1, l.offset[c + 1])
    BY <1>1, <1>4, <1>7, <2>3
  <2> QED
    BY <2>1, <2>3, <2>4 DEF Follows, InChunk, SizeOn
<1> QED
  BY <1>8, <1>9, <1>7

\* A lexeme of the chunks goes on with them, or begins the trailers.
LEMMA ChunksStep ==
    ASSUME NEW r, NEW l, r.wire \in Seq(STRING), Laid(r, l), NEW i \in Nat, i < Len(r.wire), NEW q,
           InChunks(r, l, i, q), NEW e, e = Execute(q, r.wire[i + 1])
    PROVE  InChunks(r, l, i + 1, e) \/ InBlock(r, l.value, l.trailer, TRUE, i + 1, e)
<1>1. PICK c \in 1 .. Len(l.chunk) : InChunk(r, l, c, i, q)
  BY DEF InChunks
<1>2. Chunked(r.wire, l.head) /\ Going(q) /\ q.url = r.url /\ q.method # "CONNECT"
  BY DEF InChunks
<1>3. ChunksAt(r.wire, l, r.body)
  BY <1>2, ChunkedParts
<1>4. /\ Len(l.chunk) \in Nat /\ l.cr[c] \in Nat /\ ChunkLength(l, c) \in Nat
      /\ c \in Chunks(l) => c + 1 \in 1 .. Len(l.chunk)
  <2>1. Len(l.chunk) \in Nat
    BY <1>3 DEF ChunksAt
  <2>2. l.cr[c] \in Nat /\ ChunkLength(l, c) \in Nat
    BY <1>3, ChunkOrder, LengthRoom
  <2> QED
    BY <2>1, <2>2 DEF Chunks
<1>5. ASSUME NEW d \in 1 .. Len(l.chunk), InChunk(r, l, d, i + 1, e), Follows(q, e)
      PROVE  InChunks(r, l, i + 1, e)
  BY <1>2, <1>5 DEF InChunks, Follows
<1>6. CASE SizeOn(r, l, c, i, q)
  <2>1. Follows(q, e) /\ InChunk(r, l, c, i + 1, e)
    BY <1>1, <1>2, <1>3, <1>6, ChunkSizeStep
  <2> QED
    BY <1>5, <2>1
<1>7. CASE ParametersOn(r, l, c, i, q)
  <2>1. Follows(q, e) /\ InChunk(r, l, c, i + 1, e)
    BY <1>1, <1>2, <1>3, <1>7, ChunkParametersStep
  <2> QED
    BY <1>5, <2>1
<1>8. CASE SizeRead(r, l, c, i, q)
  BY <1>1, <1>2, <1>8, ChunkSizeEnds
<1>9. CASE DataOn(r, l, c, i, q)
  <2>1. c \in Chunks(l)
    BY <1>9 DEF DataOn
  <2>2. Follows(q, e) /\ InChunk(r, l, c, i + 1, e)
    BY <1>2, <1>3, <1>9, <2>1, ChunkDataStep
  <2> QED
    BY <1>1, <1>5, <2>2
<1>10. CASE DataRead(r, l, c, i, q)
  <2>1. c \in Chunks(l)
    BY <1>10 DEF DataRead
  <2>2. /\ Follows(q, e)
        /\ InChunk(r, l, c, i + 1, e) \/ InChunk(r, l, c + 1, i + 1, e)
    BY <1>2, <1>3, <1>10, <2>1, ChunkEnds
  <2> QED
    BY <1>1, <1>4, <1>5, <2>1, <2>2
<1> QED
  BY <1>1, <1>6, <1>7, <1>8, <1>9, <1>10 DEF InChunk

\* A lexeme of a request goes on with it, or is its last.
LEMMA EarlyStep ==
    ASSUME NEW r, NEW l, r.wire \in Seq(STRING), Laid(r, l), NEW i \in Nat, i < Len(r.wire), NEW q,
           Early(r, l, i, q), NEW e, e = Execute(q, r.wire[i + 1])
    PROVE  Early(r, l, i + 1, e) \/ Done(r, i + 1, e)
<1>1. /\ RequestLine(r.wire, l) /\ r.url = SubSeq(r.wire, l.method + 2, l.urlEnd - 1)
      /\ Block(r.wire, l.value, l.head) /\ LineEndAt(r.wire, l.version + 4, l.head.line[1])
      /\ l.data \in Nat /\ LineEndAt(r.wire, Blank(l.head), l.data) /\ r.end \in Nat
  BY LaidParts
<1>2. CASE OnRequestLine(r, l, i, q)
  BY <1>1, <1>2, RequestLineStep DEF Early
<1>3. CASE InBlock(r, l.value, l.head, FALSE, i, q)
  <2>1. Sound(e)
    BY <1>3, ExecuteSound, LexemeType DEF InBlock, Carries, Going
  <2>2. \/ InBlock(r, l.value, l.head, FALSE, i + 1, e)
        \/ /\ i + 1 = l.data - 1 /\ e = HeadersAlmostDone(q, "LF")
           /\ Carries(r, l.value, l.head, FALSE, Len(l.head.line), i, q)
    <3>1. FALSE \in BOOLEAN
      OBVIOUS
    <3> QED
      <4>1. \/ InBlock(r, l.value, l.head, FALSE, i + 1, Execute(q, r.wire[i + 1]))
            \/ /\ i + 1 = l.data - 1 /\ Execute(q, r.wire[i + 1]) = HeadersAlmostDone(q, "LF")
               /\ Carries(r, l.value, l.head, FALSE, Len(l.head.line), i, q)
        BY <1>1, <1>3, <3>1, BlockStep, Zenon
      <4> QED
        BY <4>1
  <2> QED
    BY <2>1, <2>2, HeadEnds DEF Early
<1>4. CASE InIdentity(r, l, i, q)
  BY <1>4, IdentityStep DEF Early
<1>5. CASE InChunks(r, l, i, q)
  <2>1. Chunked(r.wire, l.head)
    BY <1>5 DEF InChunks
  <2> QED
    BY <1>5, <2>1, ChunksStep DEF Early
<1>6. CASE Chunked(r.wire, l.head) /\ InBlock(r, l.value, l.trailer, TRUE, i, q)
  <2>1. Sound(e)
    BY <1>6, ExecuteSound, LexemeType DEF InBlock, Carries, Going
  <2>2. Block(r.wire, l.value, l.trailer) /\ LineEndAt(r.wire, Blank(l.trailer), r.end + 1) /\ r.end + 1 \in Nat
    BY <1>1, <1>6, ChunkedParts
  <2>3. \/ InBlock(r, l.value, l.trailer, TRUE, i + 1, e)
        \/ /\ i + 1 = (r.end + 1) - 1 /\ e = HeadersAlmostDone(q, "LF")
           /\ Carries(r, l.value, l.trailer, TRUE, Len(l.trailer.line), i, q)
    <3>1. TRUE \in BOOLEAN
      OBVIOUS
    <3> QED
      <4>1. \/ InBlock(r, l.value, l.trailer, TRUE, i + 1, Execute(q, r.wire[i + 1]))
            \/ /\ i + 1 = (r.end + 1) - 1 /\ Execute(q, r.wire[i + 1]) = HeadersAlmostDone(q, "LF")
               /\ Carries(r, l.value, l.trailer, TRUE, Len(l.trailer.line), i, q)
        BY <1>6, <2>2, <3>1, BlockStep, Zenon
      <4> QED
        BY <4>1
  <2>4. (r.end + 1) - 1 = r.end
    BY <1>1
  <2> QED
    BY <1>6, <2>1, <2>3, <2>4, TrailerEnds DEF Early
<1> QED
  BY <1>2, <1>3, <1>4, <1>5, <1>6 DEF Early

\* A block is not yet over.
LEMMA BlockBefore ==
    ASSUME NEW r, NEW value, NEW b, Block(r.wire, value, b), NEW trailing \in BOOLEAN,
           NEW end \in Nat, LineEndAt(r.wire, Blank(b), end), NEW i \in Nat, NEW q,
           InBlock(r, value, b, trailing, i, q)
    PROVE  i < end - 1
<1>1. PICK k \in 1 .. Len(b.line) : OnLine(r.wire, b, k, i, q)
  BY DEF InBlock
<1>2. /\ Len(b.line) \in Nat /\ Len(b.line) \in 1 .. Len(b.line)
      /\ \A j \in 1 .. Len(b.line) : b.line[j] \in Nat \ {0}
      /\ \A j, m \in 1 .. Len(b.line) : j < m => b.line[j] < b.line[m]
  <2>1. Len(b.line) \in Nat /\ b.line \in Seq(Nat \ {0}) /\ Len(b.line) > 0
    BY DEF Block
  <2> QED
    BY <2>1 DEF Block
<1>3. \A j \in 1 .. Len(b.line) : b.line[j] <= Blank(b)
  BY <1>2, SMTT(30) DEF Blank
<1>4. Blank(b) \in Nat \ {0} /\ Blank(b) < end
  BY <1>2 DEF Blank, LineEndAt
<1>5. CASE Between(r.wire, b, k, i, q)
  <2>1. i = b.line[k] - 1 /\ b.line[k] \in Nat \ {0} /\ b.line[k] <= Blank(b)
    BY <1>2, <1>3, <1>5 DEF Between
  <2> QED
    BY <1>4, <2>1
<1>6. CASE BlankRead(r.wire, b, k, i, q)
  <2>1. i = Blank(b) /\ r.wire[i] = "CR"
    BY <1>6 DEF BlankRead, Blank
  <2>2. end = Blank(b) + 2
    BY <2>1 DEF LineEndAt
  <2> QED
    BY <1>4, <2>1, <2>2
<1>7. CASE k \in Lines(b) /\ (OnName(r.wire, b, k, i, q) \/ Spaces(r.wire, b, k, i, q) \/ Inside(r.wire, b, k, i, q))
  <2>1. /\ k + 1 \in 1 .. Len(b.line) /\ {b.line[k], b.line[k + 1], b.first[k], b.stop[k]} \subseteq Nat
        /\ b.line[k] < b.first[k] /\ b.first[k] < b.stop[k] /\ b.stop[k] < b.line[k + 1]
    BY <1>7, LineOrder
  <2>2. i <= b.stop[k]
    BY <1>7, <2>1, SMTT(30) DEF OnName, Spaces, Inside
  <2>3. b.line[k + 1] <= Blank(b)
    BY <1>3, <2>1
  <2>4. b.stop[k] < Blank(b)
    BY <1>4, <2>1, <2>3, SMTT(30)
  <2> QED
    BY <1>4, <2>1, <2>2, <2>4
<1> QED
  BY <1>1, <1>5, <1>6, <1>7 DEF OnLine

LEMMA OneOrMore == \A n \in Nat \ {0} : n = 1 \/ 1 < n
  OBVIOUS

\* So is the request line.
LEMMA RequestLineBefore ==
    ASSUME NEW r, NEW l, RequestLine(r.wire, l), Block(r.wire, l.value, l.head),
           LineEndAt(r.wire, l.version + 4, l.head.line[1]), LineEndAt(r.wire, Blank(l.head), l.data),
           l.data \in Nat, NEW i \in Nat, NEW q, OnRequestLine(r, l, i, q)
    PROVE  i < l.data - 1
<1>1. /\ {l.method, l.urlEnd, l.version} \subseteq Nat \ {0} /\ l.method + 2 < l.urlEnd
      /\ l.urlEnd < l.version
  BY DEF RequestLine
<1>2. PICK v \in Nat : v = l.version
  BY <1>1
<1>3. PICK m \in Nat : m = l.method
  BY <1>1
<1>4. PICK u \in Nat : u = l.urlEnd
  BY <1>1
<1>5. m + 2 < u /\ u < v
  BY <1>1, <1>2, <1>3, <1>4
<1>6. i <= v + 3 \/ (i = v + 4 /\ r.wire[v + 4] = "CR")
  <2>1. \/ i < m \/ i = m \/ i = m + 1 \/ i \in m + 2 .. u - 1 \/ i \in u .. v - 1
        \/ i = v \/ i = v + 1 \/ i = v + 2 \/ i = v + 3
        \/ (i = v + 4 /\ r.wire[i] = "CR")
    BY <1>2, <1>3, <1>4, Zenon DEF OnRequestLine
  <2> QED
    BY <1>5, <2>1
<1>7. /\ Len(l.head.line) \in Nat /\ l.head.line \in Seq(Nat \ {0}) /\ Len(l.head.line) > 0
      /\ \A j, k \in 1 .. Len(l.head.line) : j < k => l.head.line[j] < l.head.line[k]
  BY DEF Block
<1>8. PICK h \in Nat : h = l.head.line[1]
  BY <1>7
<1>9. PICK t \in Nat : t = Blank(l.head) /\ h <= t
  <2>1. 1 \in 1 .. Len(l.head.line) /\ Len(l.head.line) \in 1 .. Len(l.head.line)
    BY <1>7
  <2>2. l.head.line[1] \in Nat /\ l.head.line[Len(l.head.line)] \in Nat
    BY <1>7, <2>1
  <2>3. l.head.line[1] <= l.head.line[Len(l.head.line)]
    <3>1. CASE Len(l.head.line) = 1
      BY <2>2, <3>1
    <3>2. CASE 1 < Len(l.head.line)
      <4>1. l.head.line[1] < l.head.line[Len(l.head.line)]
        BY <1>7, <2>1, <3>2, Zenon
      <4> QED
        BY <2>2, <4>1
    <3>3. Len(l.head.line) \in Nat \ {0}
      BY <1>7
    <3>4. Len(l.head.line) = 1 \/ 1 < Len(l.head.line)
      BY <3>3, OneOrMore, Zenon
    <3> QED
      BY <3>1, <3>2, <3>4
  <2> QED
    BY <1>8, <2>2, <2>3 DEF Blank
<1>10. t < l.data
  BY <1>9 DEF LineEndAt
<1>11. \/ h = v + 5 /\ r.wire[v + 4] = "LF"
       \/ h = v + 6
  <2>1. LineEndAt(r.wire, v + 4, h)
    BY <1>2, <1>8
  <2> QED
    BY <2>1 DEF LineEndAt
<1>12. i < h - 1
  BY <1>6, <1>11
<1> QED
  BY <1>9, <1>10, <1>12

\* While a request is being read, it is not over.
LEMMA EarlyBefore ==
    ASSUME NEW r, NEW l, r.wire \in Seq(STRING), Laid(r, l), NEW i \in Nat, NEW q, Early(r, l, i, q)
    PROVE  i < r.end
<1>1. /\ RequestLine(r.wire, l) /\ Block(r.wire, l.value, l.head)
      /\ LineEndAt(r.wire, l.version + 4, l.head.line[1])
      /\ l.data \in Nat /\ LineEndAt(r.wire, Blank(l.head), l.data) /\ r.end \in Nat
  BY LaidParts
<1>2. PICK d \in Nat : d = l.data
  BY <1>1
<1>3. PICK n \in Nat : n = r.end
  BY <1>1
<1>4. ASSUME Chunked(r.wire, l.head)
      PROVE  /\ d < n /\ Block(r.wire, l.value, l.trailer) /\ LineEndAt(r.wire, Blank(l.trailer), n + 1)
             /\ \A c \in 1 .. Len(l.chunk) : InChunk(r, l, c, i, q) => i < n
  <2>1. /\ ChunksAt(r.wire, l, r.body) /\ Block(r.wire, l.value, l.trailer)
        /\ l.trailer.line[1] = l.cr[Len(l.chunk)] + 2
        /\ LineEndAt(r.wire, Blank(l.trailer), n + 1)
    BY <1>3, <1>4, ChunkedParts
  <2>2. /\ Len(l.chunk) \in Nat \ {0} /\ l.chunk \in Seq(Nat) /\ l.chunk[1] = l.data
        /\ \A c, e \in 1 .. Len(l.chunk) : c < e => l.chunk[c] < l.chunk[e]
    BY <2>1 DEF ChunksAt
  <2>3. PICK last \in Nat : last = Len(l.chunk) /\ last \in 1 .. Len(l.chunk)
    BY <2>2
  <2>4. PICK a \in Nat : a = l.chunk[last]
    BY <2>2, <2>3
  <2>5. PICK f \in Nat : f = l.cr[last] /\ a < f
    <3>1. {l.chunk[last], l.size[last], l.cr[last]} \subseteq Nat /\ l.chunk[last] < l.size[last]
          /\ l.size[last] <= l.cr[last]
      BY <2>1, <2>3, ChunkOrder, ZenonT(40)
    <3> QED
      BY <2>4, <3>1
  <2>6. \A c \in 1 .. Len(l.chunk) : l.chunk[c] \in Nat /\ l.chunk[c] <= a
    <3>1. ASSUME NEW c \in 1 .. Len(l.chunk) PROVE l.chunk[c] \in Nat /\ l.chunk[c] <= a
      <4>1. l.chunk[c] \in Nat
        BY <2>2
      <4>2. c = last \/ c < last
        BY <2>3
      <4>3. c < last => l.chunk[c] < l.chunk[last]
        BY <2>2, <2>3, Zenon
      <4>4. c = last => l.chunk[c] = a
        BY <2>4
      <4> QED
        BY <2>4, <4>1, <4>2, <4>3, <4>4
    <3> QED
      BY <3>1
  <2>7. f + 2 < n + 1
    <3>1. /\ Len(l.trailer.line) \in Nat \ {0} /\ l.trailer.line \in Seq(Nat \ {0})
          /\ \A j, k \in 1 .. Len(l.trailer.line) : j < k => l.trailer.line[j] < l.trailer.line[k]
      BY <2>1 DEF Block
    <3>2. PICK t \in Nat : t = Blank(l.trailer)
      BY <3>1 DEF Blank
    <3>3. f + 2 <= t
      <4>1. 1 \in 1 .. Len(l.trailer.line) /\ Len(l.trailer.line) \in 1 .. Len(l.trailer.line)
        BY <3>1
      <4>2. Len(l.trailer.line) = 1 \/ 1 < Len(l.trailer.line)
        BY <3>1, OneOrMore, Zenon
      <4>3. l.trailer.line[1] = f + 2
        BY <2>1, <2>3, <2>5
      <4>4. l.trailer.line[1] = t \/ l.trailer.line[1] < t
        BY <3>1, <3>2, <4>1, <4>2 DEF Blank
      <4> QED
        BY <4>3, <4>4
    <3>4. t < n + 1
      BY <2>1, <3>2 DEF LineEndAt
    <3> QED
      BY <3>3, <3>4
  <2>8. d < n
    <3>1. 1 \in 1 .. Len(l.chunk)
      BY <2>2
    <3>2. d <= a
      BY <1>2, <2>2, <2>6, <3>1
    <3> QED
      BY <2>5, <2>7, <3>2, SMTT(30)
  <2>9. ASSUME NEW c \in 1 .. Len(l.chunk), InChunk(r, l, c, i, q) PROVE i < n
    <3>1. {l.chunk[c], l.size[c], l.cr[c]} \subseteq Nat /\ ChunkLength(l, c) \in 0 .. NoLength - 1
          /\ l.chunk[c] < l.size[c] /\ l.size[c] <= l.cr[c] /\ (c \in Chunks(l) <=> c # Len(l.chunk))
      BY <2>1, ChunkOrder
    <3>2. PICK cr \in Nat : cr = l.cr[c]
      BY <3>1
    <3>3. PICK m \in Nat : m = ChunkLength(l, c)
      BY <3>1, LengthRoom
    <3>4. \/ i <= cr
          \/ c \in Chunks(l) /\ i - (cr + 1) \in 0 .. m + 1
      <4>1. CASE SizeOn(r, l, c, i, q)
        <5>1. i <= l.size[c]
          BY <3>1, <4>1 DEF SizeOn
        <5> QED
          BY <3>1, <3>2, <5>1
      <4>2. CASE ParametersOn(r, l, c, i, q) \/ SizeRead(r, l, c, i, q)
        BY <3>1, <3>2, <4>2 DEF ParametersOn, SizeRead
      <4>3. CASE DataOn(r, l, c, i, q)
        <5>1. c \in Chunks(l) /\ i - (cr + 1) \in 0 .. m - 1
          BY <3>2, <3>3, <4>3 DEF DataOn
        <5> QED
          BY <5>1
      <4>4. CASE DataRead(r, l, c, i, q)
        <5>1. c \in Chunks(l) /\ (i - (cr + 1) = m \/ i - (cr + 1) = m + 1)
          BY <3>2, <3>3, <4>4 DEF DataRead
        <5> QED
          BY <5>1
      <4> QED
        BY <2>9, <4>1, <4>2, <4>3, <4>4 DEF InChunk
    <3>5. CASE c = Len(l.chunk)
      <4>1. i <= f
        BY <2>3, <2>5, <3>1, <3>2, <3>4, <3>5
      <4> QED
        BY <2>7, <4>1
    <3>6. CASE c # Len(l.chunk)
      <4>1. c \in Chunks(l) /\ c + 1 \in 1 .. Len(l.chunk)
        BY <2>2, <3>1, <3>6 DEF Chunks
      <4>2. l.chunk[c + 1] = cr + 2 + m + 2
        BY <2>1, <3>2, <3>3, <4>1 DEF ChunksAt
      <4>3. cr + 2 + m + 2 <= a
        BY <2>6, <4>1, <4>2
      <4>4. i <= cr \/ i - (cr + 1) <= m + 1
        BY <3>4
      <4> QED
        BY <2>5, <2>7, <4>3, <4>4, SMTT(30)
    <3> QED
      BY <3>5, <3>6
  <2> QED
    BY <2>1, <2>8, <2>9
<1>5. d - 1 <= n
  <2>1. CASE Chunked(r.wire, l.head)
    BY <1>4, <2>1
  <2>2. CASE ~Chunked(r.wire, l.head)
    <3>1. PICK m \in Nat : r.end = l.data - 1 + m
      BY <2>2, IdentityParts
    <3> QED
      BY <1>2, <1>3, <3>1
  <2> QED
    BY <2>1, <2>2
<1>6. CASE OnRequestLine(r, l, i, q)
  <2>1. i < d - 1
    BY <1>1, <1>2, <1>6, RequestLineBefore
  <2> QED
    BY <1>3, <1>5, <2>1
<1>7. CASE InBlock(r, l.value, l.head, FALSE, i, q)
  <2>1. i < d - 1
    <3>1. FALSE \in BOOLEAN /\ LineEndAt(r.wire, Blank(l.head), d)
      BY <1>1, <1>2
    <3> QED
      BY <1>1, <1>7, <3>1, BlockBefore
  <2> QED
    BY <1>3, <1>5, <2>1
<1>8. CASE InIdentity(r, l, i, q)
  BY <1>2, <1>3, <1>8 DEF InIdentity
<1>9. CASE InChunks(r, l, i, q)
  BY <1>3, <1>4, <1>9 DEF InChunks
<1>10. CASE Chunked(r.wire, l.head) /\ InBlock(r, l.value, l.trailer, TRUE, i, q)
  <2>1. i < (n + 1) - 1
    <3>1. TRUE \in BOOLEAN /\ n + 1 \in Nat
      OBVIOUS
    <3> QED
      BY <1>4, <1>10, <3>1, BlockBefore
  <2> QED
    BY <1>3, <2>1
<1> QED
  BY <1>6, <1>7, <1>8, <1>9, <1>10 DEF Early

\* A lexeme of a well-formed request takes the parser to the next place of it.
LEMMA ReadsStep ==
    ASSUME NEW r, NEW l, r.wire \in Seq(STRING), Laid(r, l), NEW i \in Nat, i < Len(r.wire), NEW q,
           Reads(r, l, i, q), NEW e, e = Execute(q, r.wire[i + 1])
    PROVE  Reads(r, l, i + 1, e)
<1>1. CASE Early(r, l, i, q)
  BY <1>1, EarlyStep DEF Reads
<1>2. CASE Done(r, i, q)
  BY <1>2, DoneStep DEF Reads
<1> QED
  BY <1>1, <1>2 DEF Reads

\* It starts before the first lexeme.
LEMMA ReadsFromStart ==
    ASSUME NEW r, NEW l, Laid(r, l)
    PROVE  Reads(r, l, 0, Fresh)
<1>1. RequestLine(r.wire, l)
  BY LaidParts
<1>2. 0 < l.method
  <2>1. l.method \in Nat \ {0}
    BY <1>1 DEF RequestLine
  <2> QED
    BY <2>1
<1>3. OnRequestLine(r, l, 0, Fresh)
  BY <1>2 DEF OnRequestLine
<1> QED
  BY <1>3 DEF Reads, Early

\* Before its end no request is complete, in no part of it.
LEMMA EarlyIncomplete ==
    ASSUME NEW r, NEW l, NEW i, NEW q, Early(r, l, i, q)
    PROVE  q.complete = FALSE
<1>1. CASE OnRequestLine(r, l, i, q)
  BY <1>1 DEF OnRequestLine, Begun, Going, Fresh
<1>2. CASE InBlock(r, l.value, l.head, FALSE, i, q) \/ InBlock(r, l.value, l.trailer, TRUE, i, q)
  BY <1>2 DEF InBlock, Carries, Going
<1>3. CASE InIdentity(r, l, i, q) \/ InChunks(r, l, i, q)
  BY <1>3 DEF InIdentity, InChunks, Going
<1> QED
  BY <1>1, <1>2, <1>3 DEF Early

\* Being at a place of the layout is to be complete at the end only.
LEMMA ReadsDelivers ==
    ASSUME NEW r, NEW l, r.wire \in Seq(STRING), Laid(r, l), NEW i \in Nat, NEW q, Reads(r, l, i, q)
    PROVE  /\ q.complete <=> r.end > 0 /\ i >= r.end
           /\ q.complete => q.url = r.url /\ q.body = r.body
<1>1. r.end \in Nat /\ r.end > 0
  <2>1. r.end \in Nat \ {0}
    BY LaidParts
  <2> QED
    BY <2>1
<1>2. CASE Early(r, l, i, q)
  <2>1. q.complete = FALSE
    BY <1>2, EarlyIncomplete
  <2>2. i < r.end
    BY <1>2, EarlyBefore
  <2>3. ~(i >= r.end)
    BY <1>1, <2>2
  <2> QED
    BY <2>1, <2>3
<1>3. CASE Done(r, i, q)
  BY <1>1, <1>3 DEF Done
<1> QED
  BY <1>2, <1>3 DEF Reads
-----------------------------------------------------------------------------
(***************************************************************************)
(* Both theorems come from one invariant: the parser is sound, and in a    *)
(* well-formed request it is where the layout says.                        *)
(***************************************************************************)
ParserInv ==
    /\ message \in Requests /\ pos \in Nat /\ Sound(parser)
    /\ \A l : Laid(message, l) => Reads(message, l, pos, parser)

LEMMA ParserInvInit == ParserInit => ParserInv
  BY FreshSound, ReadsFromStart DEF ParserInit, ParserInv

LEMMA ParserInvStep == ParserInv /\ [ParserNext]_parserVars => ParserInv'
<1> SUFFICES ASSUME ParserInv, [ParserNext]_parserVars
             PROVE  ParserInv'
  OBVIOUS
<1>1. CASE ReadLexeme
  <2>1. /\ message' = message /\ pos' = pos + 1 /\ pos < Len(message.wire)
        /\ parser' = Execute(parser, message.wire[pos'])
    BY <1>1 DEF ReadLexeme
  <2>2. message \in Requests /\ pos \in Nat /\ pos' \in Nat /\ message.wire \in Seq(STRING)
    BY <2>1, ParserAssumption DEF ParserInv
  <2>3. parser' = Execute(parser, message.wire[pos + 1])
    BY <2>1
  <2>4. Sound(parser')
    <3>1. message.wire[pos + 1] \in STRING
      BY <2>1, <2>2, LexemeType
    <3> QED
      BY <2>3, <3>1, ExecuteSound DEF ParserInv
  <2>5. ASSUME NEW l, Laid(message, l) PROVE Reads(message, l, pos + 1, parser')
    <3>1. Reads(message, l, pos, parser)
      BY <2>5 DEF ParserInv
    <3> QED
      BY <2>1, <2>2, <2>3, <2>5, <3>1, ReadsStep
  <2> QED
    BY <2>1, <2>2, <2>4, <2>5 DEF ParserInv
<1>2. CASE UNCHANGED parserVars
  BY <1>2 DEF ParserInv, parserVars
<1> QED
  BY <1>1, <1>2 DEF ParserNext

THEOREM ParserInvariant == ParserSpec => []ParserInv
<1>1. ParserInit => ParserInv
  BY ParserInvInit
<1>2. ParserInv /\ [ParserNext]_parserVars => ParserInv'
  BY ParserInvStep
<1> QED
  BY <1>1, <1>2, PTL DEF ParserSpec

\* Whatever a client sends, well-formed or not, http_parser_execute keeps its
\* fields in range and passes its asserts about them: it reads a body or a chunk
\* only with a length that is neither zero nor unknown (http_parser.cpp:1667 and
\* 1796), chunks only under F_CHUNKED (1713 to 1822), the line end after a chunk
\* only when all of its data has come (1815); in a header's value it never finds
\* the header as the name left it (1461); it is in a state it knows (1829).
THEOREM AssertionsHold == ParserSpec => [](parser \in Parser /\ Asserts(parser))
<1>1. ParserInv => parser \in Parser /\ Asserts(parser)
  BY DEF ParserInv, Sound
<1> QED
  BY <1>1, ParserInvariant, PTL

\* A well-formed request of any length, with a body framed by its length or by
\* chunks, however many headers, continuation lines, chunks and trailers it has,
\* is taken for complete at its last byte, neither before nor later, and leaves
\* its own url and body in the wrapper.
THEOREM DeliversWellFormed == ParserSpec => [](WellFormed(message) => DeliversRequest)
<1>1. ParserInv => (WellFormed(message) => DeliversRequest)
  <2> SUFFICES ASSUME ParserInv, NEW l, Laid(message, l)
               PROVE  DeliversRequest
    BY DEF WellFormed
  <2>1. message.wire \in Seq(STRING) /\ pos \in Nat
    BY ParserAssumption DEF ParserInv
  <2>2. Reads(message, l, pos, parser)
    BY DEF ParserInv
  <2> QED
    BY <2>1, <2>2, ReadsDelivers DEF DeliversRequest
<1> QED
  BY <1>1, ParserInvariant, PTL
==============================================================================
