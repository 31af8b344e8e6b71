---------------------------- MODULE Robot_proofs ----------------------------
(***************************************************************************)
(* Proofs that the composition keeps what its parts promise, for every     *)
(* configuration, any messages and any hash: each step of the robot is a   *)
(* step of the traffic limit or leaves it alone, and the same for the      *)
(* receive centre's channel and the two task pools.  What is proved of the *)
(* parts then holds in the whole.                                          *)
(*                                                                         *)
(* Two properties are of the whole alone.  Every message comes to every    *)
(* handler and to the push once: what has been received is the messages    *)
(* that were let through and wait for no picture (MailInv, ReceivedOnce),  *)
(* and the push tasks are those messages again (PushInv, PoolInv).  A      *)
(* person's questions are answered in order: each is in one place, and     *)
(* the earlier one is ahead (AskInv), since all are with one worker.       *)
(***************************************************************************)
EXTENDS Robot, TrafficControl_proofs

allVars == <<trafficVars, robotVars>>
Box == UNION {s.incoming : s \in Scenes}

\* What the steps need to know: the scene is one of Scenes, and messages are
\* numbers.
RobotInv ==
    /\ scene \in Scenes
    /\ box \in Seq(Box)
    /\ pictures \subseteq Nat

LEMMA RobotInvInductive == RobotSpec => []RobotInv
<1>1. RobotInit => RobotInv
  BY DEF RobotInit, RobotInv
<1>2. RobotInv /\ [RobotNext]_allVars => RobotInv'
  <2> SUFFICES ASSUME RobotInv, [RobotNext]_allVars PROVE RobotInv'
    OBVIOUS
  <2> USE DEF RobotInv
  <2>1. CASE UNCHANGED allVars
    BY <2>1 DEF allVars, robotVars
  <2>2. CASE ConfigureTraffic
    BY <2>2 DEF ConfigureTraffic, robotVars
  <2>3. ASSUME NEW h \in {kHelper, kPush}, RegisterHandler(h) PROVE RobotInv'
    BY <2>3 DEF RegisterHandler, weChatSide
  <2>4. CASE OpenMain
    BY <2>4 DEF OpenMain
  <2>5. ASSUME NEW m \in scene.incoming, SendWxMessage(m) PROVE RobotInv'
    <3>1. m \in Box
      BY DEF Box
    <3>2. box' \in Seq(Box) /\ scene' = scene
      BY <2>5, <3>1 DEF SendWxMessage
    <3>3. pictures' \in {pictures, pictures \cup {Len(box) + 1}}
      BY <2>5 DEF SendWxMessage
    <3>4. Len(box) + 1 \in Nat
      BY LenProperties
    <3> QED
      BY <3>2, <3>3, <3>4
  <2>6. ASSUME NEW i \in pictures, FnSaveImagesCore(i) PROVE RobotInv'
    BY <2>6 DEF FnSaveImagesCore
  <2>7. CASE TakeMessage
    BY <2>7 DEF TakeMessage, weChatSide
  <2>8. CASE HandleChatMsg
    BY <2>8 DEF HandleChatMsg, Quiet, weChatSide
  <2>9. CASE onReceiveMsg
    BY <2>9 DEF onReceiveMsg, weChatSide
  <2>10. CASE EndRound
    BY <2>10 DEF EndRound, weChatSide
  <2>11. ASSUME NEW w \in AskPool!Worker, Execute(w) \/ SendAnswer(w)
         PROVE  RobotInv'
    BY <2>11 DEF Execute, SendAnswer, weChatSide
  <2>12. ASSUME NEW w \in PushPool!Worker, onExecutePushTask(w) \/ Posted(w)
         PROVE  RobotInv'
    BY <2>12 DEF onExecutePushTask, Posted, weChatSide
  <2>13. CASE (Tick \/ SetClockBack) /\ UNCHANGED robotVars
    BY <2>13 DEF robotVars
  <2> QED
    BY <2>1, <2>2, <2>3, <2>4, <2>5, <2>6, <2>7, <2>8, <2>9, <2>10, <2>11, <2>12,
       <2>13 DEF RobotNext
<1> QED
  BY <1>1, <1>2, PTL DEF RobotSpec, allVars
-----------------------------------------------------------------------------
\* What a step of the robot is to the traffic limit.
LEMMA TrafficStep ==
    ASSUME RobotInv, [RobotNext]_allVars
    PROVE  [TrafficNext]_trafficVars
<1>1. CASE UNCHANGED allVars
  BY <1>1 DEF allVars
<1>2. CASE ConfigureTraffic
  <2>1. PICK t \in scene.traffic : SetLimit(t[1], t[2])
    BY <1>2 DEF ConfigureTraffic
  <2>2. t[1] \in ConfigInterval /\ t[2] \in ConfigLimit
    BY <2>1, SceneAssumption DEF RobotInv
  <2> QED
    BY <2>1, <2>2 DEF TrafficNext
<1>3. ASSUME NEW h \in {kHelper, kPush}, RegisterHandler(h)
      PROVE  UNCHANGED trafficVars
  BY <1>3 DEF RegisterHandler
<1>4. CASE OpenMain
  BY <1>4 DEF OpenMain
<1>5. ASSUME NEW m \in scene.incoming, SendWxMessage(m)
      PROVE  UNCHANGED trafficVars
  BY <1>5 DEF SendWxMessage
<1>6. ASSUME NEW i \in pictures, FnSaveImagesCore(i)
      PROVE  UNCHANGED trafficVars
  BY <1>6 DEF FnSaveImagesCore
<1>7. CASE TakeMessage
  BY <1>7 DEF TakeMessage
<1>8. CASE HandleChatMsg
  <2>1. ASSUME NEW c \in {"group", "private"}, NEW i, NEW asks, Limit(c, i, asks)
        PROVE  TrafficNext
    BY <2>1, CallerAssumption DEF Limit, TrafficNext
  <2>2. NoAnswer \/ HandleGroupChatMsg(taken) \/ HandlePrivateChatMsg(taken)
    BY <1>8 DEF HandleChatMsg
  <2> QED
    BY <2>1, <2>2 DEF NoAnswer, HandleGroupChatMsg, HandlePrivateChatMsg
<1>9. CASE onReceiveMsg
  BY <1>9 DEF onReceiveMsg
<1>10. CASE EndRound
  BY <1>10 DEF EndRound
<1>11. ASSUME NEW w \in AskPool!Worker, Execute(w) \/ SendAnswer(w)
       PROVE  UNCHANGED trafficVars
  BY <1>11 DEF Execute, SendAnswer
<1>12. ASSUME NEW w \in PushPool!Worker, onExecutePushTask(w) \/ Posted(w)
       PROVE  UNCHANGED trafficVars
  BY <1>12 DEF onExecutePushTask, Posted
<1>13. CASE Tick \/ SetClockBack
  BY <1>13 DEF TrafficNext
<1> QED
  BY <1>1, <1>2, <1>3, <1>4, <1>5, <1>6, <1>7, <1>8, <1>9, <1>10, <1>11, <1>12,
     <1>13 DEF RobotNext

\* The robot's handlers, its clock and its start-up keep to the traffic limit
\* as TrafficControl has it: Grant is called from nowhere else, and never
\* before SetLimit (MsgHelper.cpp:137 and 238, Main.cpp:130).
THEOREM TrafficOfRobot == RobotSpec => TrafficSpec
<1>1. RobotInit => TrafficInit
  BY DEF RobotInit
<1>2. RobotInv /\ [RobotNext]_allVars => [TrafficNext]_trafficVars
  BY TrafficStep
<1> QED
  BY <1>1, <1>2, RobotInvInductive, PTL DEF RobotSpec, TrafficSpec, allVars

\* In the whole robot, too, a window grants no more than its quota and refuses
\* only when it is spent, whatever comes from how many chats.
THEOREM QuotaOfRobot == RobotSpec => []WindowQuota
  BY TrafficOfRobot, QuotaKept, PTL

\* In the whole robot, too, nobody gets a second tip in a window.
THEOREM OneTipOfRobot == RobotSpec => []OneTipPerWindow
  BY TrafficOfRobot, OneTip, PTL

\* Nor does a span as long as a window see two quotas granted in the whole robot.
THEOREM SpansOfRobot == RobotSpec => []SlidingBound
  BY TrafficOfRobot, SpansAreBounded, PTL

\* And what its handlers refuse comes after a whole quota was granted.
THEOREM RefusalsOfRobot == RobotSpec => []RefusalsJustified
  BY TrafficOfRobot, RefusalsAreJustified, PTL
-----------------------------------------------------------------------------
\* What a step of the robot is to the receive centre.
LEMMA ChannelStep ==
    ASSUME RobotInv, [RobotNext]_allVars
    PROVE  [Channel!Next]_(Channel!vars)
<1> USE DEF Channel!vars
<1>1. CASE UNCHANGED allVars
  BY <1>1 DEF allVars, robotVars
<1>2. CASE ConfigureTraffic
  BY <1>2 DEF ConfigureTraffic, robotVars
<1>3. ASSUME NEW h \in {kHelper, kPush}, RegisterHandler(h)
      PROVE  Channel!Next
  BY <1>3 DEF RegisterHandler, Channel!Next
<1>4. CASE OpenMain
  BY <1>4 DEF OpenMain, channelVars
<1>5. ASSUME NEW i \in Nat, NEW m, OnCopyData(i, m)
      PROVE  [Channel!Next]_(Channel!vars)
  BY <1>5 DEF OnCopyData, channelVars, Channel!Next
<1>6. ASSUME NEW m \in scene.incoming, SendWxMessage(m)
      PROVE  [Channel!Next]_(Channel!vars)
  <2>1. Len(box) + 1 \in Nat
    BY LenProperties DEF RobotInv
  <2>2. OnCopyData(Len(box) + 1, m) \/ UNCHANGED channelVars
    BY <1>6 DEF SendWxMessage
  <2> QED
    BY <1>5, <2>1, <2>2 DEF channelVars
<1>7. ASSUME NEW i \in pictures, FnSaveImagesCore(i)
      PROVE  [Channel!Next]_(Channel!vars)
  <2>1. i \in Nat
    BY DEF RobotInv
  <2>2. OnCopyData(i, box[i]) \/ UNCHANGED channelVars
    BY <1>7 DEF FnSaveImagesCore
  <2> QED
    BY <1>5, <2>1, <2>2 DEF channelVars
<1>8. CASE TakeMessage
  BY <1>8 DEF TakeMessage, Channel!Next
<1>9. CASE HandleChatMsg
  BY <1>9 DEF HandleChatMsg, Channel!Next
<1>10. CASE onReceiveMsg
  BY <1>10 DEF onReceiveMsg, Channel!Next
<1>11. CASE EndRound
  BY <1>11 DEF EndRound, Channel!Next
<1>12. ASSUME NEW w \in AskPool!Worker, Execute(w) \/ SendAnswer(w)
       PROVE  UNCHANGED channelVars
  BY <1>12 DEF Execute, SendAnswer
<1>13. ASSUME NEW w \in PushPool!Worker, onExecutePushTask(w) \/ Posted(w)
       PROVE  UNCHANGED channelVars
  BY <1>13 DEF onExecutePushTask, Posted
<1>14. CASE UNCHANGED robotVars
  BY <1>14 DEF robotVars
<1> QED
  BY <1>1, <1>2, <1>3, <1>4, <1>6, <1>7, <1>8, <1>9, <1>10, <1>11, <1>12, <1>13,
     <1>14 DEF RobotNext, channelVars

\* What the robot does to the receive centre is what MsgChannel allows: the
\* handlers are called as it promises, and OnHandleMsg is all that CMain calls.
THEOREM ChannelOfRobot == RobotSpec => Channel!Spec
<1>1. RobotInit => Channel!Init
  BY DEF RobotInit
<1>2. RobotInv /\ [RobotNext]_allVars => [Channel!Next]_(Channel!vars)
  BY ChannelStep
<1> QED
  BY <1>1, <1>2, RobotInvInductive, PTL DEF RobotSpec, Channel!Spec, allVars
-----------------------------------------------------------------------------
(* Every message once: the way to the handlers. *)

Mails == 1 .. Len(box)

\* Messages are numbers of box; those that wait for their pictures are images,
\* and not lost.
MailInv ==
    /\ pictures \subseteq Mails /\ lost \subseteq Mails
    /\ \A i \in pictures : i \notin lost /\ Waits(box[i])
    /\ handled \in Seq(Nat \ {0}) /\ pending \in Seq(Nat \ {0}) /\ taken \in Nat

Current == IF taken = 0 THEN <<>> ELSE <<taken>>
InReceived(i) == \E j \in 1 .. Len(Received) : Received[j] = i

\* The part of EveryMessageOnce that is about the receive centre.
ReceivedOnce ==
    /\ \A j, k \in 1 .. Len(Received) : Received[j] = Received[k] => j = k
    /\ \A i : InReceived(i) <=>
           i \in Mails /\ LetThrough(box[i]) /\ i \notin pictures /\ i \notin lost
    /\ \A j, k \in 1 .. Len(Received) :
           j < k /\ ~Waits(box[Received[j]]) /\ ~Waits(box[Received[k]])
               => Received[j] < Received[k]

LEMMA ReceivedType ==
    ASSUME MailInv
    PROVE  /\ Received = (handled \o Current) \o pending
           /\ handled \o Current \in Seq(Nat \ {0})
           /\ Received \in Seq(Nat \ {0})
<1>1. Current \in Seq(Nat \ {0})
  <2>1. CASE taken = 0
    BY <2>1, EmptySeq DEF Current
  <2>2. CASE taken # 0
    <3>1. taken \in Nat \ {0}
      BY <2>2 DEF MailInv
    <3>2. <<taken>> \in Seq(Nat \ {0})
      BY <3>1
    <3> QED
      BY <2>2, <3>2 DEF Current
  <2> QED
    BY <2>1, <2>2
<1>2. handled \o Current \in Seq(Nat \ {0})
  BY <1>1, ConcatProperties DEF MailInv
<1>3. Received = (handled \o Current) \o pending
  BY DEF Received, Current
<1> QED
  BY <1>2, <1>3, ConcatProperties DEF MailInv

LEMMA AppendToConcat ==
    ASSUME NEW S, NEW s \in Seq(S), NEW t \in Seq(S), NEW e \in S
    PROVE  s \o Append(t, e) = Append(s \o t, e)
<1>1. <<e>> \in Seq(S) /\ s \o t \in Seq(S)
  BY ConcatProperties
<1>2. Append(t, e) = t \o <<e>> /\ Append(s \o t, e) = (s \o t) \o <<e>>
  BY <1>1, AppendIsConcat
<1> QED
  BY <1>1, <1>2, ConcatAssociative

\* What OnCopyData does to the messages received.
LEMMA CopyReceives ==
    ASSUME MailInv, NEW i \in Nat \ {0}, NEW m, OnCopyData(i, m), UNCHANGED handled
    PROVE  /\ \/ ~window /\ lost' = lost \cup {i} /\ UNCHANGED channelVars
              \/ window /\ UNCHANGED <<lost, channelVars>> /\ ~LetThrough(m)
              \/ /\ window /\ UNCHANGED <<lost, handlers, taken, owed>> /\ LetThrough(m)
                 /\ pending' = Append(pending, i) /\ Received' = Append(Received, i)
           /\ UNCHANGED channelVars => Received' = Received
<1>1. UNCHANGED channelVars => Received' = Received
  BY DEF channelVars, Received
<1>2. CASE window /\ LetThrough(m)
  <2>1. /\ pending' = Append(pending, i)
        /\ UNCHANGED <<lost, handlers, taken, owed>>
    BY <1>2 DEF OnCopyData, Channel!Receive
  <2>2. Received' = (handled \o Current) \o Append(pending, i)
    BY <2>1 DEF Received, Current
  <2>3. handled \o Current \in Seq(Nat \ {0}) /\ pending \in Seq(Nat \ {0})
    BY ReceivedType DEF MailInv
  <2>4. Received' = Append((handled \o Current) \o pending, i)
    BY <2>2, <2>3, AppendToConcat, SMTT(30)
  <2>5. Received' = Append(Received, i)
    BY <2>4, ReceivedType
  <2> QED
    BY <1>1, <1>2, <2>1, <2>5
<1> QED
  BY <1>1, <1>2 DEF OnCopyData, Channel!Receive, channelVars

\* Taking a message and being done with it moves nothing.
LEMMA TakeMoves ==
    ASSUME MailInv, TakeMessage
    PROVE  /\ Received' = Received /\ pending' \in Seq(Nat \ {0}) /\ taken' \in Nat \ {0}
           /\ taken = 0 /\ owed' = handlers
           /\ UNCHANGED <<box, pictures, lost, handled, handlers, window>>
<1>1. /\ taken = 0 /\ pending # <<>> /\ taken' = Head(pending) /\ pending' = Tail(pending)
      /\ owed' = handlers
      /\ UNCHANGED <<box, pictures, lost, handled, handlers, window>>
  BY DEF TakeMessage, Channel!Take, weChatSide
<1>2. pending \in Seq(Nat \ {0}) /\ handled \in Seq(Nat \ {0})
  BY DEF MailInv
<1>3. Head(pending) \in Nat \ {0} /\ Tail(pending) \in Seq(Nat \ {0})
  BY <1>1, <1>2, HeadTailProperties
<1>4. pending = <<Head(pending)>> \o Tail(pending)
  BY <1>1, <1>2
<1>5. (handled \o <<Head(pending)>>) \o Tail(pending)
          = handled \o (<<Head(pending)>> \o Tail(pending))
  <2>1. <<Head(pending)>> \in Seq(Nat \ {0})
    BY <1>3
  <2> QED
    BY <1>2, <1>3, <2>1, ConcatAssociative, SMTT(30)
<1>6. Received = handled \o pending
  BY <1>1, <1>2, ConcatEmptySeq DEF Received
<1>7. Received' = (handled \o <<Head(pending)>>) \o Tail(pending)
  BY <1>1, <1>3 DEF Received
<1> QED
  BY <1>1, <1>3, <1>4, <1>5, <1>6, <1>7

LEMMA EndMoves ==
    ASSUME MailInv, EndRound
    PROVE  /\ Received' = Received /\ handled' = handled \o <<taken>>
           /\ handled' \in Seq(Nat \ {0}) /\ taken \in Nat \ {0} /\ taken' = 0
           /\ owed = {} /\ owed' = {}
           /\ UNCHANGED <<box, pictures, lost, pending, handlers, window>>
<1>1. /\ taken # 0 /\ owed = {} /\ taken' = 0 /\ handled' = Append(handled, taken)
      /\ UNCHANGED <<box, pictures, lost, pending, handlers, owed, window>>
  BY DEF EndRound, Channel!Finish, weChatSide
<1>2. handled \in Seq(Nat \ {0}) /\ pending \in Seq(Nat \ {0}) /\ taken \in Nat \ {0}
  BY <1>1 DEF MailInv
<1>3. handled' = handled \o <<taken>> /\ handled' \in Seq(Nat \ {0})
  BY <1>1, <1>2, AppendIsConcat, AppendProperties
<1>4. Received' = (handled \o <<taken>>) \o pending
  BY <1>1, <1>2, <1>3, ConcatEmptySeq DEF Received
<1>5. Received = (handled \o <<taken>>) \o pending
  BY <1>1 DEF Received
<1> QED
  BY <1>1, <1>2, <1>3, <1>4, <1>5

\* A message that the receive centre should have got.
Due(i) == i \in Mails /\ LetThrough(box[i]) /\ i \notin pictures /\ i \notin lost
BoxGrows == Mails \subseteq Mails' /\ \A i \in Mails : box'[i] = box[i]

LEMMA ElementsDue ==
    ASSUME MailInv, ReceivedOnce, NEW j \in 1 .. Len(Received)
    PROVE  Received[j] \in Nat \ {0} /\ InReceived(Received[j]) /\ Received[j] \in Mails
<1>1. Received[j] \in Nat \ {0}
  BY ReceivedType, ElementOfSeq
<1>2. InReceived(Received[j])
  BY DEF InReceived
<1> QED
  BY <1>1, <1>2 DEF ReceivedOnce

LEMMA OnceStays ==
    ASSUME MailInv, ReceivedOnce, Received' = Received, BoxGrows,
           \A i : Due(i)' <=> Due(i)
    PROVE  ReceivedOnce'
<1>1. \A j \in 1 .. Len(Received) : box'[Received[j]] = box[Received[j]]
  BY ElementsDue DEF BoxGrows
<1>2. \A i : InReceived(i)' <=> InReceived(i)
  BY DEF InReceived
<1>3. \A i : InReceived(i) <=> Due(i)
  BY DEF ReceivedOnce, Due
<1>4. /\ \A j, k \in 1 .. Len(Received') : Received'[j] = Received'[k] => j = k
      /\ \A j, k \in 1 .. Len(Received') :
             j < k /\ ~Waits(box'[Received'[j]]) /\ ~Waits(box'[Received'[k]])
                 => Received'[j] < Received'[k]
  BY <1>1 DEF ReceivedOnce
<1> QED
  BY <1>2, <1>3, <1>4 DEF ReceivedOnce, Due

LEMMA OnceGrows ==
    ASSUME MailInv, ReceivedOnce, NEW i \in Nat \ {0}, Received' = Append(Received, i),
           BoxGrows, ~Due(i), \A k : Due(k)' <=> Due(k) \/ k = i,
           Waits(box'[i]) \/ \A k \in Mails : k < i
    PROVE  ReceivedOnce'
<1> DEFINE n == Len(Received)
<1>1. n \in Nat /\ Received \in Seq(Nat \ {0}) /\ Received' \in Seq(Nat \ {0})
  BY ReceivedType, LenProperties, AppendProperties
<1>2. /\ Len(Received') = n + 1 /\ Received'[n + 1] = i
      /\ \A j \in 1 .. n : Received'[j] = Received[j]
  BY <1>1
<1> HIDE DEF n
<1>3. \A j \in 1 .. n : box'[Received[j]] = box[Received[j]] /\ Received[j] \in Mails
  BY ElementsDue DEF BoxGrows, n
<1>4. \A k : InReceived(k) <=> Due(k)
  BY DEF ReceivedOnce, Due
<1>5. \A j \in 1 .. n : Received[j] # i
  BY <1>4 DEF InReceived, n
<1>6. \A j \in 1 .. n + 1 : j \in 1 .. n \/ j = n + 1
  BY <1>1 DEF n
<1>7. n + 1 \in 1 .. n + 1 /\ \A j \in 1 .. n : j \in 1 .. n + 1 /\ j < n + 1
  BY <1>1 DEF n
<1>8. \A k : InReceived(k)' <=> InReceived(k) \/ k = i
  <2>1. \A k : InReceived(k)' <=> \E j \in 1 .. n + 1 : Received'[j] = k
    BY <1>2 DEF InReceived
  <2>2. \A k : InReceived(k) <=> \E j \in 1 .. n : Received[j] = k
    BY DEF InReceived, n
  <2> QED
    BY <1>2, <1>6, <1>7, <2>1, <2>2
<1>9. ASSUME NEW j \in 1 .. n + 1, NEW k \in 1 .. n + 1, Received'[j] = Received'[k]
      PROVE  j = k
  BY <1>2, <1>5, <1>6, <1>9 DEF ReceivedOnce, n
<1>10. ASSUME NEW j \in 1 .. n + 1, NEW k \in 1 .. n + 1, j < k,
              ~Waits(box'[Received'[j]]), ~Waits(box'[Received'[k]])
       PROVE  Received'[j] < Received'[k]
  <2>1. j \in 1 .. n
    BY <1>1, <1>6, <1>7, <1>10 DEF n
  <2>2. CASE k \in 1 .. n
    BY <1>2, <1>3, <1>10, <2>1, <2>2 DEF ReceivedOnce, n
  <2>3. CASE k = n + 1
    BY <1>2, <1>3, <1>10, <2>1, <2>3
  <2> QED
    BY <1>6, <2>2, <2>3
<1> QED
  BY <1>2, <1>4, <1>8, <1>9, <1>10 DEF ReceivedOnce, Due

LEMMA ImagesLetThrough == \A m : Waits(m) => LetThrough(m)
  BY DEF Waits, LetThrough

LEMMA BoxLength == RobotInv => Len(box) \in Nat /\ \A i \in Mails : i \in Nat \ {0}
  BY LenProperties DEF RobotInv, Mails

LEMMA SendKeeps ==
    ASSUME RobotInv, MailInv, ReceivedOnce, NEW m \in scene.incoming, SendWxMessage(m)
    PROVE  MailInv' /\ ReceivedOnce'
<1> DEFINE i == Len(box) + 1
<1>1. Len(box) \in Nat /\ box \in Seq(Box) /\ m \in Box
  BY BoxLength DEF RobotInv, Box
<1>2. box' = Append(box, m) /\ UNCHANGED <<window, handled>>
  BY DEF SendWxMessage
<1>3. Len(box') = i /\ box'[i] = m /\ \A j \in 1 .. Len(box) : box'[j] = box[j]
  BY <1>1, <1>2
<1>i. i = Len(box) + 1
  OBVIOUS
<1> HIDE DEF i
<1>4. Mails' = Mails \cup {i} /\ i \notin Mails /\ i \in Nat \ {0} /\ \A k \in Mails : k < i
  BY <1>1, <1>3, <1>i DEF Mails
<1>5. BoxGrows
  BY <1>3, <1>4 DEF BoxGrows, Mails
<1>6. i \notin pictures /\ i \notin lost /\ ~Due(i)
  BY <1>4 DEF MailInv, Due
<1>7. CASE Waits(m)
  <2>1. pictures' = pictures \cup {i} /\ UNCHANGED <<lost, channelVars>>
    BY <1>7 DEF SendWxMessage, i
  <2>2. Received' = Received
    BY <1>2, <2>1 DEF Received, channelVars
  <2>3. \A k : Due(k)' <=> Due(k)
    BY <1>3, <1>4, <1>5, <1>6, <2>1 DEF Due, BoxGrows
  <2>4. MailInv'
    BY <1>2, <1>3, <1>4, <1>5, <1>6, <1>7, <2>1 DEF MailInv, channelVars, BoxGrows
  <2> QED
    BY <1>5, <2>2, <2>3, <2>4, OnceStays
<1>8. CASE ~Waits(m)
  <2>1. OnCopyData(i, m) /\ pictures' = pictures
    BY <1>8 DEF SendWxMessage, i
  <2>2. CASE ~window /\ lost' = lost \cup {i} /\ UNCHANGED channelVars
    <3>1. Received' = Received
      BY <1>2, <2>2 DEF Received, channelVars
    <3>2. \A k : Due(k)' <=> Due(k)
      BY <1>3, <1>4, <1>5, <1>6, <2>1, <2>2 DEF Due, BoxGrows
    <3>3. MailInv'
      BY <1>2, <1>4, <1>5, <1>6, <2>1, <2>2 DEF MailInv, channelVars, BoxGrows
    <3> QED
      BY <1>5, <3>1, <3>2, <3>3, OnceStays
  <2>3. CASE window /\ UNCHANGED <<lost, channelVars>> /\ ~LetThrough(m)
    <3>1. Received' = Received
      BY <1>2, <2>3 DEF Received, channelVars
    <3>2. \A k : Due(k)' <=> Due(k)
      BY <1>3, <1>4, <1>5, <2>1, <2>3 DEF Due, BoxGrows
    <3>3. MailInv'
      BY <1>2, <1>4, <1>5, <2>1, <2>3 DEF MailInv, channelVars, BoxGrows
    <3> QED
      BY <1>5, <3>1, <3>2, <3>3, OnceStays
  <2>4. CASE /\ window /\ UNCHANGED <<lost, handlers, taken, owed>> /\ LetThrough(m)
             /\ pending' = Append(pending, i) /\ Received' = Append(Received, i)
    <3>1. \A k : Due(k)' <=> Due(k) \/ k = i
      BY <1>3, <1>4, <1>5, <1>6, <2>1, <2>4 DEF Due, BoxGrows
    <3>2. pending' \in Seq(Nat \ {0})
      BY <1>4, <2>4, AppendProperties DEF MailInv
    <3>3. MailInv'
      BY <1>2, <1>4, <1>5, <2>1, <2>4, <3>2 DEF MailInv, BoxGrows
    <3> QED
      BY <1>4, <1>5, <1>6, <2>4, <3>1, <3>3, OnceGrows
  <2> QED
    BY <1>2, <1>4, <2>1, <2>2, <2>3, <2>4, CopyReceives
<1> QED
  BY <1>7, <1>8

LEMMA SaveKeeps ==
    ASSUME RobotInv, MailInv, ReceivedOnce, NEW i \in pictures, FnSaveImagesCore(i)
    PROVE  MailInv' /\ ReceivedOnce'
<1>1. /\ pictures' = pictures \ {i} /\ UNCHANGED <<box, window, handled>>
      /\ \/ lost' = lost \cup {i} /\ UNCHANGED channelVars
         \/ OnCopyData(i, box[i])
  BY DEF FnSaveImagesCore
<1>2. /\ i \in Mails /\ i \in Nat \ {0} /\ i \notin lost /\ Waits(box[i]) /\ LetThrough(box[i])
      /\ ~Due(i)
  BY BoxLength, ImagesLetThrough DEF MailInv, Due
<1>3. BoxGrows /\ Mails' = Mails /\ box'[i] = box[i]
  BY <1>1, <1>2 DEF BoxGrows, Mails
<1>4. CASE lost' = lost \cup {i} /\ UNCHANGED channelVars
  <2>1. Received' = Received
    BY <1>1, <1>4 DEF Received, channelVars
  <2>2. \A k : Due(k)' <=> Due(k)
    BY <1>1, <1>2, <1>3, <1>4 DEF Due
  <2>3. MailInv'
    BY <1>1, <1>2, <1>3, <1>4 DEF MailInv, channelVars
  <2> QED
    BY <1>3, <2>1, <2>2, <2>3, OnceStays
<1>5. CASE /\ window /\ UNCHANGED <<lost, handlers, taken, owed>>
           /\ pending' = Append(pending, i) /\ Received' = Append(Received, i)
  <2>1. \A k : Due(k)' <=> Due(k) \/ k = i
    BY <1>1, <1>2, <1>3, <1>5 DEF Due
  <2>2. pending' \in Seq(Nat \ {0})
    BY <1>2, <1>5, AppendProperties DEF MailInv
  <2>3. MailInv'
    BY <1>1, <1>3, <1>5, <2>2 DEF MailInv
  <2> QED
    BY <1>2, <1>3, <1>5, <2>1, <2>3, OnceGrows
<1> QED
  BY <1>1, <1>2, <1>4, <1>5, CopyReceives

LEMMA MailInit == RobotInit => MailInv /\ ReceivedOnce
<1> SUFFICES ASSUME RobotInit PROVE MailInv /\ ReceivedOnce
  OBVIOUS
<1>1. /\ box = <<>> /\ pictures = {} /\ lost = {} /\ handled = <<>> /\ taken = 0
      /\ pending = <<>>
  BY DEF RobotInit, Channel!Init
<1>2. MailInv
  BY <1>1, EmptySeq DEF MailInv
<1>3. Received = <<>>
  BY <1>1, ConcatEmptySeq, EmptySeq DEF Received
<1> QED
  BY <1>1, <1>2, <1>3 DEF ReceivedOnce, InReceived, Mails

LEMMA MailStep ==
    ASSUME RobotInv, MailInv, ReceivedOnce, [RobotNext]_allVars
    PROVE  MailInv' /\ ReceivedOnce'
<1>1. ASSUME UNCHANGED <<box, pictures, lost, handled, taken, pending>>
      PROVE  MailInv' /\ ReceivedOnce'
  BY <1>1, ZenonT(40) DEF MailInv, Mails, ReceivedOnce, Received, InReceived
<1>2. ASSUME NEW m \in scene.incoming, SendWxMessage(m) PROVE MailInv' /\ ReceivedOnce'
  BY <1>2, SendKeeps
<1>3. ASSUME NEW i \in pictures, FnSaveImagesCore(i) PROVE MailInv' /\ ReceivedOnce'
  BY <1>3, SaveKeeps
<1>4. ASSUME Received' = Received, UNCHANGED <<box, pictures, lost>> PROVE ReceivedOnce'
  BY <1>4 DEF ReceivedOnce, InReceived, Mails
<1>5. CASE TakeMessage
  <2>1. MailInv'
    BY <1>5, TakeMoves DEF MailInv, Mails
  <2> QED
    BY <1>4, <1>5, <2>1, TakeMoves
<1>6. CASE EndRound
  <2>1. MailInv'
    <3>1. /\ handled' \in Seq(Nat \ {0}) /\ taken' = 0
          /\ UNCHANGED <<box, pictures, lost, pending>>
      BY <1>6, EndMoves
    <3> QED
      BY <3>1 DEF MailInv, Mails
  <2> QED
    BY <1>4, <1>6, <2>1, EndMoves
<1>7. CASE ConfigureTraffic
  BY <1>1, <1>7 DEF ConfigureTraffic, robotVars
<1>8. ASSUME NEW h \in {kHelper, kPush}, RegisterHandler(h) PROVE MailInv' /\ ReceivedOnce'
  BY <1>1, <1>8 DEF RegisterHandler, Channel!Register, weChatSide
<1>9. CASE OpenMain
  BY <1>1, <1>9 DEF OpenMain, channelVars
<1>10. CASE HandleChatMsg
  BY <1>1, <1>10 DEF HandleChatMsg, Channel!Call, Quiet, weChatSide
<1>11. CASE onReceiveMsg
  BY <1>1, <1>11 DEF onReceiveMsg, Channel!Call, weChatSide
<1>12. ASSUME NEW w \in AskPool!Worker, Execute(w) \/ SendAnswer(w)
       PROVE  MailInv' /\ ReceivedOnce'
  BY <1>1, <1>12 DEF Execute, SendAnswer, weChatSide, channelVars
<1>13. ASSUME NEW w \in PushPool!Worker, onExecutePushTask(w) \/ Posted(w)
       PROVE  MailInv' /\ ReceivedOnce'
  BY <1>1, <1>13 DEF onExecutePushTask, Posted, weChatSide, channelVars
<1>14. CASE UNCHANGED robotVars
  BY <1>1, <1>14 DEF robotVars
<1> QED
  BY <1>2, <1>3, <1>5, <1>6, <1>7, <1>8, <1>9, <1>10, <1>11, <1>12, <1>13, <1>14
     DEF RobotNext, allVars
-----------------------------------------------------------------------------
(* Every message once: the push tasks. *)

\* The messages a push task has been made for, in their order: those handled, and
\* the one being handled once StartMsgPush's handler has been called.
PushDone == IF taken # 0 /\ kPush \notin owed THEN <<taken>> ELSE <<>>
PushInv ==
    /\ window => kPush \in handlers
    /\ pending # <<>> => window
    /\ taken = 0 => owed = {}
    /\ pushOf = IF scene.config.push THEN handled \o PushDone ELSE <<>>
    /\ g_task_id = Len(pushOf)

\* What PushInv is about stays as it is.
LEMMA PushStays ==
    ASSUME PushInv,
           UNCHANGED <<scene, window, taken, handled, pushOf, g_task_id>>,
           kPush \in handlers => kPush \in handlers',
           kPush \in owed <=> kPush \in owed',
           taken = 0 => owed' = {},
           pending' # <<>> => pending # <<>> \/ window
    PROVE  PushInv'
  BY DEF PushInv, PushDone

LEMMA CopyPushes ==
    ASSUME MailInv, NEW i \in Nat \ {0}, NEW m, OnCopyData(i, m), UNCHANGED handled
    PROVE  UNCHANGED <<taken, handlers, owed>> /\ (pending' # <<>> => pending # <<>> \/ window)
  BY CopyReceives DEF channelVars

LEMMA PushStep ==
    ASSUME RobotInv, MailInv, PushInv, [RobotNext]_allVars
    PROVE  PushInv'
<1>1. ASSUME UNCHANGED <<scene, window, handlers, pending, taken, owed, handled, pushOf,
                         g_task_id>>
      PROVE  PushInv'
  BY <1>1, PushStays DEF PushInv
<1>2. ASSUME NEW m \in scene.incoming, SendWxMessage(m) PROVE PushInv'
  <2>1. UNCHANGED <<scene, window, handled, pushOf, g_task_id>>
    BY <1>2 DEF SendWxMessage, pushVars
  <2>2. Len(box) + 1 \in Nat \ {0}
    BY BoxLength
  <2>3. UNCHANGED <<taken, handlers, owed>> /\ (pending' # <<>> => pending # <<>> \/ window)
    <3>1. UNCHANGED channelVars \/ OnCopyData(Len(box) + 1, m)
      BY <1>2 DEF SendWxMessage
    <3> QED
      BY <2>1, <2>2, <3>1, CopyPushes DEF channelVars
  <2> QED
    BY <2>1, <2>3, PushStays DEF PushInv
<1>3. ASSUME NEW i \in pictures, FnSaveImagesCore(i) PROVE PushInv'
  <2>1. UNCHANGED <<scene, window, handled, pushOf, g_task_id>>
    BY <1>3 DEF FnSaveImagesCore, pushVars
  <2>2. i \in Nat \ {0}
    BY BoxLength DEF MailInv
  <2>3. UNCHANGED <<taken, handlers, owed>> /\ (pending' # <<>> => pending # <<>> \/ window)
    <3>1. UNCHANGED channelVars \/ OnCopyData(i, box[i])
      BY <1>3 DEF FnSaveImagesCore
    <3> QED
      BY <2>1, <2>2, <3>1, CopyPushes DEF channelVars
  <2> QED
    BY <2>1, <2>3, PushStays DEF PushInv
<1>4. CASE TakeMessage
  <2>1. UNCHANGED <<scene, window, handlers, handled, pushOf, g_task_id>>
    BY <1>4, TakeMoves DEF TakeMessage, pushVars
  <2>2. taken = 0 /\ taken' # 0 /\ owed' = handlers /\ pending # <<>>
    BY <1>4, TakeMoves DEF TakeMessage, Channel!Take
  <2>3. kPush \in owed' /\ window
    BY <2>2 DEF PushInv
  <2>4. PushDone = <<>> /\ PushDone' = <<>>
    BY <2>2, <2>3 DEF PushDone
  <2> QED
    BY <2>1, <2>2, <2>3, <2>4 DEF PushInv
<1>5. CASE EndRound
  <2>1. UNCHANGED <<scene, window, handlers, pending, pushOf, g_task_id>>
    BY <1>5, EndMoves DEF EndRound, pushVars
  <2>2. /\ taken \in Nat \ {0} /\ taken' = 0 /\ owed = {} /\ owed' = {}
        /\ handled' = handled \o <<taken>> /\ handled' \in Seq(Nat \ {0})
    BY <1>5, EndMoves
  <2>3. PushDone = <<taken>> /\ PushDone' = <<>>
    BY <2>2 DEF PushDone
  <2>4. handled' \o PushDone' = handled \o PushDone
    BY <2>2, <2>3, ConcatEmptySeq
  <2> QED
    BY <2>1, <2>2, <2>4 DEF PushInv
<1>6. CASE onReceiveMsg
  <2>1. /\ kPush \in owed /\ owed' = owed \ {kPush}
        /\ UNCHANGED <<scene, window, handlers, pending, taken, handled>>
    BY <1>6 DEF onReceiveMsg, Channel!Call, weChatSide
  <2>2. taken \in Nat \ {0}
    BY <2>1 DEF PushInv, MailInv
  <2>3. PushDone = <<>> /\ PushDone' = <<taken>>
    BY <2>1, <2>2 DEF PushDone
  <2>4. /\ handled \o <<>> = handled /\ handled \o <<taken>> = Append(handled, taken)
        /\ Len(Append(handled, taken)) = Len(handled) + 1
    BY <2>2, ConcatEmptySeq, AppendIsConcat, AppendProperties DEF MailInv
  <2>5. CASE scene.config.push
    <3>1. g_task_id' = g_task_id + 1 /\ pushOf' = Append(pushOf, taken)
      BY <1>6, <2>5 DEF onReceiveMsg
    <3> QED
      BY <2>1, <2>2, <2>3, <2>4, <2>5, <3>1 DEF PushInv
  <2>6. CASE ~scene.config.push
    <3>1. UNCHANGED <<g_task_id, pushOf>>
      BY <1>6, <2>6 DEF onReceiveMsg, pushVars
    <3> QED
      BY <2>1, <2>2, <2>6, <3>1 DEF PushInv
  <2> QED
    BY <2>5, <2>6
<1>7. CASE HandleChatMsg
  <2>1. /\ kHelper \in owed /\ owed' = owed \ {kHelper}
        /\ UNCHANGED <<scene, window, handlers, pending, taken, handled, pushOf, g_task_id>>
    BY <1>7 DEF HandleChatMsg, Channel!Call, Quiet, weChatSide, pushVars
  <2>2. kHelper # kPush
    BY DEF kHelper, kPush
  <2> QED
    BY <2>1, <2>2, PushStays DEF PushInv
<1>8. ASSUME NEW h \in {kHelper, kPush}, RegisterHandler(h) PROVE PushInv'
  <2>1. /\ handlers' = handlers \cup {h}
        /\ UNCHANGED <<scene, window, pending, taken, owed, handled, pushOf, g_task_id>>
    BY <1>8 DEF RegisterHandler, Channel!Register, weChatSide, pushVars
  <2> QED
    BY <2>1, PushStays DEF PushInv
<1>9. CASE OpenMain
  <2>1. /\ kPush \in handlers /\ window' = TRUE
        /\ UNCHANGED <<scene, handlers, pending, taken, owed, handled, pushOf, g_task_id>>
    BY <1>9 DEF OpenMain, channelVars, pushVars
  <2> QED
    BY <2>1 DEF PushInv, PushDone
<1>10. CASE ConfigureTraffic
  BY <1>1, <1>10 DEF ConfigureTraffic, robotVars
<1>11. ASSUME NEW w \in AskPool!Worker, Execute(w) \/ SendAnswer(w) PROVE PushInv'
  BY <1>1, <1>11 DEF Execute, SendAnswer, weChatSide, channelVars, pushVars
<1>12. ASSUME NEW w \in PushPool!Worker, onExecutePushTask(w) \/ Posted(w) PROVE PushInv'
  BY <1>1, <1>12 DEF onExecutePushTask, Posted, weChatSide, channelVars
<1>13. CASE UNCHANGED robotVars
  BY <1>1, <1>13 DEF robotVars
<1> QED
  BY <1>2, <1>3, <1>4, <1>5, <1>6, <1>7, <1>8, <1>9, <1>10, <1>11, <1>12, <1>13
     DEF RobotNext, allVars

\* The message of each push task is another one; the next one is not among them.
LEMMA PushesDiffer ==
    ASSUME MailInv, ReceivedOnce, PushInv
    PROVE  /\ pushOf \in Seq(Nat \ {0}) /\ g_task_id = Len(pushOf) /\ g_task_id \in Nat
           /\ \A t, u \in 1 .. Len(pushOf) : pushOf[t] = pushOf[u] => t = u
           /\ scene.config.push =>
                  /\ Len(handled) <= Len(pushOf)
                  /\ \A j \in 1 .. Len(handled) : pushOf[j] = handled[j]
           /\ kPush \in owed => \A t \in 1 .. Len(pushOf) : pushOf[t] # taken
<1>1. handled \in Seq(Nat \ {0}) /\ Len(handled) \in Nat /\ pending \in Seq(Nat \ {0})
  BY LenProperties DEF MailInv
<1>2. taken # 0 => taken \in Nat \ {0} /\ <<taken>> \in Seq(Nat \ {0})
  <2>1. taken # 0 => taken \in Nat \ {0}
    BY DEF MailInv
  <2> QED
    BY <2>1
<1>3. PushDone \in Seq(Nat \ {0})
  BY <1>2, EmptySeq DEF PushDone
<1>4. /\ handled \o PushDone \in Seq(Nat \ {0})
      /\ Len(handled \o PushDone) = Len(handled) + Len(PushDone)
      /\ \A j \in 1 .. Len(handled) + Len(PushDone) :
             (handled \o PushDone)[j] =
                 IF j <= Len(handled) THEN handled[j] ELSE PushDone[j - Len(handled)]
  BY <1>1, <1>3, ConcatProperties
<1>5. pushOf \in Seq(Nat \ {0})
  BY <1>4, EmptySeq DEF PushInv
<1>6. g_task_id = Len(pushOf) /\ g_task_id \in Nat
  BY <1>5, LenProperties DEF PushInv
<1> DEFINE C == handled \o Current
<1>7. /\ Received = C \o pending /\ C \in Seq(Nat \ {0}) /\ Current \in Seq(Nat \ {0})
  <2>1. Current \in Seq(Nat \ {0})
    BY <1>2, EmptySeq DEF Current
  <2> QED
    BY <2>1, ReceivedType
<1>8. /\ Len(C) = Len(handled) + Len(Current)
      /\ \A j \in 1 .. Len(C) :
             C[j] = IF j <= Len(handled) THEN handled[j] ELSE Current[j - Len(handled)]
  BY <1>1, <1>7, ConcatProperties
<1> HIDE DEF C
<1>9. /\ Len(C) <= Len(Received) /\ Len(C) \in Nat
      /\ \A j \in 1 .. Len(C) : j \in 1 .. Len(Received) /\ Received[j] = C[j]
  <2>1. /\ Len(C) \in Nat /\ Len(pending) \in Nat /\ Len(Received) = Len(C) + Len(pending)
        /\ \A j \in 1 .. Len(C) + Len(pending) :
               Received[j] = IF j <= Len(C) THEN C[j] ELSE pending[j - Len(C)]
    BY <1>1, <1>7, ConcatProperties, LenProperties
  <2> QED
    BY <2>1
<1>10. \A j, k \in 1 .. Len(C) : C[j] = C[k] => j = k
  BY <1>9 DEF ReceivedOnce
<1>11. ASSUME scene.config.push
       PROVE  /\ pushOf = handled \o PushDone
              /\ Len(handled) <= Len(pushOf)
              /\ \A j \in 1 .. Len(handled) : pushOf[j] = handled[j]
              /\ Len(pushOf) <= Len(C) /\ Len(pushOf) \in Nat
              /\ \A t \in 1 .. Len(pushOf) : t \in 1 .. Len(C) /\ pushOf[t] = C[t]
  <2>1. pushOf = handled \o PushDone
    BY <1>11 DEF PushInv
  <2>2. CASE PushDone = <<>>
    <3>1. pushOf = handled
      BY <1>1, <2>1, <2>2, ConcatEmptySeq
    <3>2. Len(Current) \in Nat
      BY <1>7, LenProperties
    <3> QED
      BY <1>1, <1>8, <2>1, <3>1, <3>2
  <2>3. CASE PushDone = <<taken>> /\ taken # 0
    <3>1. Current = PushDone
      BY <2>3 DEF Current
    <3>2. pushOf = C
      BY <2>1, <3>1 DEF C
    <3>3. Len(C) >= Len(handled)
      BY <1>1, <1>3, <1>8, <3>1, LenProperties
    <3>4. \A j \in 1 .. Len(handled) : j \in 1 .. Len(C)
      BY <1>1, <1>9, <3>3
    <3> QED
      BY <1>1, <1>8, <1>9, <2>1, <3>2, <3>3, <3>4
  <2> QED
    BY <2>2, <2>3 DEF PushDone
<1>12. ASSUME ~scene.config.push PROVE pushOf = <<>> /\ Len(pushOf) = 0
  BY <1>12 DEF PushInv
<1>13. \A t, u \in 1 .. Len(pushOf) : pushOf[t] = pushOf[u] => t = u
  <2>1. CASE scene.config.push
    <3> SUFFICES ASSUME NEW t \in 1 .. Len(pushOf), NEW u \in 1 .. Len(pushOf),
                        pushOf[t] = pushOf[u]
                 PROVE  t = u
      OBVIOUS
    <3>1. t \in 1 .. Len(C) /\ u \in 1 .. Len(C) /\ C[t] = C[u]
      BY <1>11, <2>1
    <3> QED
      BY <1>10, <3>1
  <2> QED
    BY <1>12, <2>1
<1>14. ASSUME kPush \in owed, NEW t \in 1 .. Len(pushOf) PROVE pushOf[t] # taken
  <2>1. taken # 0 /\ taken \in Nat \ {0}
    BY <1>2, <1>14 DEF PushInv
  <2>2. scene.config.push
    BY <1>12, <1>14
  <2>3. Current = <<taken>> /\ PushDone = <<>>
    BY <1>14, <2>1 DEF Current, PushDone
  <2>4. pushOf = handled
    BY <1>1, <1>11, <2>2, <2>3, ConcatEmptySeq
  <2>5. Len(C) = Len(handled) + 1 /\ C[Len(handled) + 1] = taken
    BY <1>1, <1>8, <2>3
  <2>6. C[t] = pushOf[t] /\ t \in 1 .. Len(C) /\ t # Len(handled) + 1
        /\ Len(handled) + 1 \in 1 .. Len(C)
    BY <1>1, <1>11, <2>2, <2>4, <2>5
  <2> QED
    BY <1>10, <2>5, <2>6
<1> QED
  BY <1>5, <1>6, <1>11, <1>13, <1>14

\* Where a push task is: with its worker until it is posted, and there once.
WithWorker(w, t) ==
    pushRunning[w] = t \/ \E a \in 1 .. Len(pushTodo[w]) : pushTodo[w][a] = t
IsPosted(t) == \E k \in 1 .. Len(pushed) : pushed[k] = pushOf[t]
PoolTypes ==
    /\ pushTodo \in [PushPool!Worker -> Seq(Nat)]
    /\ pushRunning \in [PushPool!Worker -> Nat \cup {NoTask}]
    /\ pushed \in Seq(Nat)
PoolInv ==
    /\ PoolTypes
    /\ \A w \in PushPool!Worker :
           /\ pushRunning[w] \in 1 .. g_task_id \cup {NoTask}
           /\ \A a \in 1 .. Len(pushTodo[w]) :
                  /\ pushTodo[w][a] \in 1 .. g_task_id
                  /\ pushTodo[w][a] # pushRunning[w]
                  /\ \A b \in 1 .. Len(pushTodo[w]) : pushTodo[w][a] = pushTodo[w][b] => a = b
    /\ \A k \in 1 .. Len(pushed) : \E t \in 1 .. g_task_id : pushed[k] = pushOf[t]
    /\ \A w \in PushPool!Worker, t \in 1 .. g_task_id :
           WithWorker(w, t) <=> t % NumPush = w /\ ~IsPosted(t)

LEMMA PushWorker == \A t \in Nat : t % NumPush \in PushPool!Worker
  BY PoolsAssumption DEF PushPool!Worker

LEMMA PoolStays == PoolInv /\ UNCHANGED <<pushVars, pushed>> => PoolInv'
<1> SUFFICES ASSUME PoolInv, UNCHANGED <<pushVars, pushed>> PROVE PoolInv'
  OBVIOUS
<1>1. UNCHANGED <<g_task_id, pushTodo, pushRunning, pushOf, pushed>>
  BY DEF pushVars
<1>2. PoolTypes'
  BY <1>1 DEF PoolInv, PoolTypes
<1>3. (\A w \in PushPool!Worker :
           /\ pushRunning[w] \in 1 .. g_task_id \cup {NoTask}
           /\ \A a \in 1 .. Len(pushTodo[w]) :
                  /\ pushTodo[w][a] \in 1 .. g_task_id
                  /\ pushTodo[w][a] # pushRunning[w]
                  /\ \A b \in 1 .. Len(pushTodo[w]) : pushTodo[w][a] = pushTodo[w][b] => a = b)'
  BY <1>1, ZenonT(20) DEF PoolInv
<1>4. (\A k \in 1 .. Len(pushed) : \E t \in 1 .. g_task_id : pushed[k] = pushOf[t])'
  BY <1>1 DEF PoolInv
<1>5. (\A w \in PushPool!Worker, t \in 1 .. g_task_id :
           WithWorker(w, t) <=> t % NumPush = w /\ ~IsPosted(t))'
  BY <1>1 DEF PoolInv, WithWorker, IsPosted
<1> QED
  BY <1>2, <1>3, <1>4, <1>5 DEF PoolInv

LEMMA PoolBegins ==
    ASSUME MailInv, ReceivedOnce, PushInv, PoolInv,
           NEW w \in PushPool!Worker, onExecutePushTask(w)
    PROVE  PoolInv'
<1> DEFINE s == pushTodo[w]
<1>1. /\ pushRunning[w] = NoTask /\ s # <<>>
      /\ pushRunning' = [pushRunning EXCEPT ![w] = Head(s)]
      /\ pushTodo' = [pushTodo EXCEPT ![w] = Tail(s)]
      /\ UNCHANGED <<g_task_id, pushOf, pushed>>
  BY DEF onExecutePushTask, PushPool!Begin, ends
<1>2. PoolTypes /\ s \in Seq(Nat)
  BY DEF PoolInv, PoolTypes
<1>3. /\ Head(s) = s[1] /\ s[1] \in Nat /\ Tail(s) \in Seq(Nat) /\ Len(s) \in Nat /\ Len(s) > 0
      /\ Len(Tail(s)) = Len(s) - 1
      /\ \A a \in 1 .. Len(Tail(s)) : Tail(s)[a] = s[a + 1]
  BY <1>1, <1>2
<1>4. /\ pushRunning'[w] = s[1] /\ pushTodo'[w] = Tail(s)
      /\ \A v \in PushPool!Worker : v # w =>
             pushRunning'[v] = pushRunning[v] /\ pushTodo'[v] = pushTodo[v]
  BY <1>1, <1>2, <1>3 DEF PoolTypes
<1>5. PoolTypes'
  BY <1>1, <1>2, <1>3 DEF PoolTypes
<1>6. /\ \A a \in 1 .. Len(s) :
             /\ s[a] \in 1 .. g_task_id
             /\ \A b \in 1 .. Len(s) : s[a] = s[b] => a = b
  BY DEF PoolInv
<1> HIDE DEF s
<1>7. \A a \in 1 .. Len(Tail(s)) : a + 1 \in 1 .. Len(s) /\ a + 1 # 1
  BY <1>3
<1>8. ASSUME NEW v \in PushPool!Worker
      PROVE  /\ pushRunning'[v] \in 1 .. g_task_id \cup {NoTask}
             /\ \A a \in 1 .. Len(pushTodo'[v]) :
                    /\ pushTodo'[v][a] \in 1 .. g_task_id
                    /\ pushTodo'[v][a] # pushRunning'[v]
                    /\ \A b \in 1 .. Len(pushTodo'[v]) :
                           pushTodo'[v][a] = pushTodo'[v][b] => a = b
  <2>1. CASE v = w
    <3>1. 1 \in 1 .. Len(s)
      BY <1>3
    <3>2. s[1] \in 1 .. g_task_id
      BY <1>6, <3>1
    <3>3. ASSUME NEW a \in 1 .. Len(Tail(s)), NEW b \in 1 .. Len(Tail(s)), Tail(s)[a] = Tail(s)[b]
          PROVE  a = b
      <4>1. a + 1 = b + 1
        BY <1>3, <1>6, <1>7, <3>3
      <4>2. a \in Nat /\ b \in Nat
        OBVIOUS
      <4> QED
        BY <4>1, <4>2
    <3>4. \A a \in 1 .. Len(Tail(s)) : Tail(s)[a] \in 1 .. g_task_id /\ Tail(s)[a] # s[1]
      BY <1>3, <1>6, <1>7, <3>1
    <3> DEFINE r == Tail(s)
    <3>5. /\ pushTodo'[v] = r /\ pushRunning'[v] = s[1]
          /\ \A a \in 1 .. Len(r) : r[a] \in 1 .. g_task_id /\ r[a] # s[1]
          /\ \A a, b \in 1 .. Len(r) : r[a] = r[b] => a = b
      BY <1>4, <2>1, <3>3, <3>4
    <3> HIDE DEF r
    <3> QED
      BY <3>2, <3>5
  <2>2. CASE v # w
    BY <1>4, <2>2 DEF PoolInv
  <2> QED
    BY <2>1, <2>2
<1>9. ASSUME NEW v \in PushPool!Worker, NEW t \in 1 .. g_task_id
      PROVE  WithWorker(v, t)' <=> WithWorker(v, t)
  <2>1. CASE v = w
    <3>1. WithWorker(v, t) <=> \E a \in 1 .. Len(s) : s[a] = t
      <4>1. t # NoTask
        BY PoolsAssumption
      <4> QED
        BY <1>1, <2>1, <4>1 DEF WithWorker, s
    <3>2. WithWorker(v, t)' <=> s[1] = t \/ \E a \in 1 .. Len(Tail(s)) : s[a + 1] = t
      <4> DEFINE r == Tail(s)
      <4>1. /\ pushTodo'[v] = r /\ pushRunning'[v] = s[1]
            /\ \A a \in 1 .. Len(r) : r[a] = s[a + 1]
        BY <1>3, <1>4, <2>1
      <4>2. WithWorker(v, t)' <=> s[1] = t \/ \E a \in 1 .. Len(r) : r[a] = t
        <5> HIDE DEF r
        <5> QED
          BY <4>1 DEF WithWorker
      <4> QED
        BY <4>1, <4>2
    <3>3. 1 \in 1 .. Len(s) /\ \A a \in 1 .. Len(s) : a = 1 \/ a - 1 \in 1 .. Len(Tail(s))
      BY <1>3
    <3>4. \A a \in 1 .. Len(s) : (a - 1) + 1 = a
      BY <1>3
    <3> QED
      BY <1>7, <3>1, <3>2, <3>3, <3>4
  <2>2. CASE v # w
    BY <1>4, <2>2 DEF WithWorker
  <2> QED
    BY <2>1, <2>2
<1>10. \A t \in 1 .. g_task_id : IsPosted(t)' <=> IsPosted(t)
  BY <1>1 DEF IsPosted
<1>11. \A v \in PushPool!Worker, t \in 1 .. g_task_id :
           WithWorker(v, t)' <=> t % NumPush = v /\ ~IsPosted(t)'
  BY <1>9, <1>10 DEF PoolInv
<1>12. \A k \in 1 .. Len(pushed) : \E t \in 1 .. g_task_id : pushed[k] = pushOf[t]
  BY DEF PoolInv
<1>13. UNCHANGED <<g_task_id, pushOf, pushed>>
  BY <1>1
<1> QED
  BY <1>5, <1>8, <1>11, <1>12, <1>13 DEF PoolInv

LEMMA PoolPosts ==
    ASSUME MailInv, ReceivedOnce, PushInv, PoolInv,
           NEW w \in PushPool!Worker, Posted(w)
    PROVE  PoolInv'
<1> DEFINE u == pushRunning[w]
<1>1. /\ u # NoTask
      /\ pushRunning' = [pushRunning EXCEPT ![w] = NoTask]
      /\ pushed' = Append(pushed, pushOf[u])
      /\ UNCHANGED <<pushTodo, g_task_id, pushOf>>
  BY DEF Posted, PushPool!Finish
<1>2. PoolTypes /\ u \in 1 .. g_task_id
  BY <1>1 DEF PoolInv
<1>3. /\ pushOf[u] \in Nat
      /\ \A t \in 1 .. g_task_id : pushOf[t] = pushOf[u] => t = u
  <2>1. /\ pushOf \in Seq(Nat \ {0}) /\ g_task_id = Len(pushOf)
        /\ \A t, v \in 1 .. Len(pushOf) : pushOf[t] = pushOf[v] => t = v
    BY PushesDiffer
  <2>2. u \in 1 .. Len(pushOf)
    BY <1>2, <2>1
  <2>3. pushOf[u] \in Nat \ {0}
    BY <2>1, <2>2, ElementOfSeq
  <2> QED
    BY <2>1, <2>2, <2>3
<1>4. /\ pushed' \in Seq(Nat) /\ Len(pushed) \in Nat /\ Len(pushed') = Len(pushed) + 1
      /\ \A k \in 1 .. Len(pushed) : pushed'[k] = pushed[k]
      /\ pushed'[Len(pushed) + 1] = pushOf[u]
  BY <1>1, <1>2, <1>3 DEF PoolTypes
<1>5. /\ pushRunning'[w] = NoTask
      /\ \A v \in PushPool!Worker : v # w => pushRunning'[v] = pushRunning[v]
  BY <1>1, <1>2 DEF PoolTypes
<1>6. PoolTypes'
  BY <1>1, <1>2, <1>4 DEF PoolTypes
<1>u. u = pushRunning[w]
  OBVIOUS
<1> HIDE DEF u
<1>7. ASSUME NEW v \in PushPool!Worker
      PROVE  /\ pushRunning'[v] \in 1 .. g_task_id \cup {NoTask}
             /\ \A a \in 1 .. Len(pushTodo[v]) :
                    /\ pushTodo[v][a] \in 1 .. g_task_id
                    /\ pushTodo[v][a] # pushRunning'[v]
                    /\ \A b \in 1 .. Len(pushTodo[v]) :
                           pushTodo[v][a] = pushTodo[v][b] => a = b
  <2>1. ~(NoTask \in 1 .. g_task_id)
    BY PoolsAssumption
  <2>2. CASE v = w
    BY <1>5, <2>1, <2>2 DEF PoolInv
  <2>3. CASE v # w
    BY <1>5, <2>3 DEF PoolInv
  <2> QED
    BY <2>2, <2>3
<1>8. \A k \in 1 .. Len(pushed) + 1 : k \in 1 .. Len(pushed) \/ k = Len(pushed) + 1
  BY <1>4
<1>9. \A k \in 1 .. Len(pushed') : \E t \in 1 .. g_task_id : pushed'[k] = pushOf[t]
  <2>1. ASSUME NEW k \in 1 .. Len(pushed') PROVE \E t \in 1 .. g_task_id : pushed'[k] = pushOf[t]
    <3>1. k \in 1 .. Len(pushed) \/ k = Len(pushed) + 1
      BY <1>4, <1>8
    <3>2. CASE k \in 1 .. Len(pushed)
      BY <1>4, <3>2 DEF PoolInv
    <3>3. CASE k = Len(pushed) + 1
      BY <1>2, <1>3, <1>4, <3>3
    <3> QED
      BY <3>1, <3>2, <3>3
  <2> QED
    BY <2>1
<1>10. ASSUME NEW t \in 1 .. g_task_id
       PROVE  IsPosted(t)' <=> IsPosted(t) \/ t = u
  <2>1. IsPosted(t)' <=> \E k \in 1 .. Len(pushed) + 1 : pushed'[k] = pushOf[t]
    BY <1>1, <1>4 DEF IsPosted
  <2>2. \A k \in 1 .. Len(pushed) : k \in 1 .. Len(pushed) + 1
    BY <1>4
  <2>3. Len(pushed) + 1 \in 1 .. Len(pushed) + 1
    BY <1>4
  <2> QED
    BY <1>3, <1>4, <1>8, <2>1, <2>2, <2>3 DEF IsPosted
<1>11. ASSUME NEW v \in PushPool!Worker, NEW t \in 1 .. g_task_id
       PROVE  WithWorker(v, t)' <=> WithWorker(v, t) /\ ~(v = w /\ t = u)
  <2>1. t # NoTask
    BY PoolsAssumption
  <2>2. CASE v = w
    <3>1. WithWorker(v, t)' <=> \E a \in 1 .. Len(pushTodo[v]) : pushTodo[v][a] = t
      BY <1>1, <1>5, <2>1, <2>2 DEF WithWorker
    <3>2. \A a \in 1 .. Len(pushTodo[v]) : pushTodo[v][a] # u
      BY <1>u, <2>2 DEF PoolInv
    <3> QED
      BY <1>u, <2>2, <3>1, <3>2 DEF WithWorker
  <2>3. CASE v # w
    BY <1>1, <1>5, <2>3 DEF WithWorker
  <2> QED
    BY <2>2, <2>3
<1>12. WithWorker(w, u)
  BY <1>u DEF WithWorker
<1>13. u % NumPush = w
  BY <1>2, <1>12 DEF PoolInv
<1>14. \A v \in PushPool!Worker, t \in 1 .. g_task_id :
           WithWorker(v, t)' <=> t % NumPush = v /\ ~IsPosted(t)'
  BY <1>10, <1>11, <1>13 DEF PoolInv
<1> QED
  BY <1>1, <1>6, <1>7, <1>9, <1>14 DEF PoolInv

LEMMA PoolAdds ==
    ASSUME RobotInv, MailInv, ReceivedOnce, PushInv, PoolInv, onReceiveMsg
    PROVE  PoolInv'
<1>1. CASE ~scene.config.push
  <2>1. UNCHANGED <<pushVars, pushed>>
    BY <1>1 DEF onReceiveMsg, ends
  <2> QED
    BY <2>1, PoolStays
<1>2. CASE scene.config.push
  <2>0. PICK u : u = g_task_id + 1
    OBVIOUS
  <2> DEFINE w == u % NumPush
             s == pushTodo[w]
  <2>1. /\ kPush \in owed /\ pushOf' = Append(pushOf, taken) /\ g_task_id' = u
        /\ pushTodo' = [pushTodo EXCEPT ![[t \in Nat |-> t][u] % NumPush] = Append(@, u)]
        /\ UNCHANGED <<pushRunning, pushed>>
    BY <1>2, <2>0 DEF onReceiveMsg, Channel!Call, PushPool!Add, PushPool!WorkerOf, ends
  <2>2. /\ pushOf \in Seq(Nat \ {0}) /\ g_task_id = Len(pushOf) /\ g_task_id \in Nat
        /\ \A t \in 1 .. Len(pushOf) : pushOf[t] # taken
    BY <2>1, PushesDiffer
  <2>3. PoolTypes /\ u \in Nat /\ w \in PushPool!Worker
    BY <2>0, <2>2, PushWorker DEF PoolInv
  <2>4. taken \in Nat \ {0}
    BY <2>1 DEF PushInv, MailInv
  <2>5. /\ \A t \in 1 .. g_task_id : pushOf'[t] = pushOf[t]
        /\ pushOf'[u] = taken
    BY <2>0, <2>1, <2>2, <2>4
  <2>6. s \in Seq(Nat)
    BY <2>3 DEF PoolTypes
  <2>7. pushTodo' = [pushTodo EXCEPT ![w] = Append(s, u)]
    BY <2>1, <2>3
  <2>8. /\ pushTodo'[w] = Append(s, u)
        /\ \A v \in PushPool!Worker : v # w => pushTodo'[v] = pushTodo[v]
    BY <2>3, <2>7 DEF PoolTypes
  <2>9. PoolTypes'
    BY <2>1, <2>3, <2>6, <2>7 DEF PoolTypes
  <2>10. /\ Len(s) \in Nat /\ Len(pushTodo'[w]) = Len(s) + 1
         /\ \A a \in 1 .. Len(s) : pushTodo'[w][a] = s[a]
         /\ pushTodo'[w][Len(s) + 1] = u
    BY <2>3, <2>6, <2>8
  <2>u. u = g_task_id + 1 /\ w = u % NumPush /\ s = pushTodo[w]
    BY <2>0
  <2> HIDE DEF w, s
  <2>11. /\ \A t \in 1 .. g_task_id : t \in 1 .. u /\ t # u
         /\ u \in 1 .. u
         /\ \A t \in 1 .. u : t \in 1 .. g_task_id \/ t = u
    BY <2>2, <2>u
  <2>12. u # NoTask
    BY <2>3, PoolsAssumption
  <2>13. \A v \in PushPool!Worker :
             /\ pushRunning[v] \in 1 .. g_task_id \cup {NoTask}
             /\ \A a \in 1 .. Len(pushTodo[v]) :
                    /\ pushTodo[v][a] \in 1 .. g_task_id
                    /\ pushTodo[v][a] # pushRunning[v]
                    /\ \A b \in 1 .. Len(pushTodo[v]) : pushTodo[v][a] = pushTodo[v][b] => a = b
    BY DEF PoolInv
  <2>14. \A a \in 1 .. Len(s) + 1 : a \in 1 .. Len(s) \/ a = Len(s) + 1
    BY <2>10
  <2>15. ASSUME NEW v \in PushPool!Worker
         PROVE  /\ pushRunning[v] \in 1 .. u \cup {NoTask}
                /\ \A a \in 1 .. Len(pushTodo'[v]) :
                       /\ pushTodo'[v][a] \in 1 .. u
                       /\ pushTodo'[v][a] # pushRunning[v]
                       /\ \A b \in 1 .. Len(pushTodo'[v]) :
                              pushTodo'[v][a] = pushTodo'[v][b] => a = b
    <3>1. pushRunning[v] \in 1 .. u \cup {NoTask} /\ pushRunning[v] # u
      BY <2>11, <2>12, <2>13
    <3>2. CASE v = w
      <4>1. ASSUME NEW a \in 1 .. Len(s) + 1
            PROVE  pushTodo'[w][a] \in 1 .. u /\ pushTodo'[w][a] # pushRunning[w]
        <5>1. CASE a \in 1 .. Len(s)
          <6>1. s[a] \in 1 .. g_task_id /\ s[a] # pushRunning[w]
            BY <2>13, <2>u, <3>2, <5>1
          <6> QED
            BY <2>10, <2>11, <5>1, <6>1
        <5>2. CASE a = Len(s) + 1
          BY <2>10, <2>11, <3>1, <3>2, <5>2
        <5> QED
          BY <2>14, <5>1, <5>2
      <4>2. ASSUME NEW a \in 1 .. Len(s) + 1, NEW b \in 1 .. Len(s) + 1,
                   pushTodo'[w][a] = pushTodo'[w][b]
            PROVE  a = b
        <5>1. \A c \in 1 .. Len(s) : s[c] # u
          BY <2>11, <2>13, <2>u, <3>2
        <5>2. CASE a \in 1 .. Len(s) /\ b \in 1 .. Len(s)
          BY <2>10, <2>13, <2>u, <3>2, <4>2, <5>2
        <5> QED
          BY <2>10, <2>14, <4>2, <5>1, <5>2
      <4> QED
        BY <2>10, <3>1, <3>2, <4>1, <4>2
    <3>3. CASE v # w
      BY <2>8, <2>11, <2>13, <3>1, <3>3
    <3> QED
      BY <3>2, <3>3
  <2>16. \A k \in 1 .. Len(pushed) : \E t \in 1 .. g_task_id : pushed[k] = pushOf[t]
    BY DEF PoolInv
  <2>17. \A k \in 1 .. Len(pushed) : \E t \in 1 .. u : pushed[k] = pushOf'[t]
    BY <2>5, <2>11, <2>16
  <2>18. /\ \A t \in 1 .. g_task_id : IsPosted(t)' <=> IsPosted(t)
         /\ ~IsPosted(u)'
    <3>1. \A k \in 1 .. Len(pushed) : pushed[k] # taken
      BY <2>2, <2>16
    <3> QED
      BY <2>1, <2>5, <3>1 DEF IsPosted
  <2>19. ASSUME NEW v \in PushPool!Worker, NEW t \in 1 .. u
         PROVE  WithWorker(v, t)' <=> WithWorker(v, t) \/ (v = w /\ t = u)
    <3>1. CASE v = w
      <4>1. WithWorker(v, t)' <=>
                pushRunning[w] = t \/ \E a \in 1 .. Len(s) + 1 : pushTodo'[w][a] = t
        BY <2>1, <2>10, <3>1 DEF WithWorker
      <4>2. WithWorker(v, t) <=> pushRunning[w] = t \/ \E a \in 1 .. Len(s) : s[a] = t
        BY <2>u, <3>1 DEF WithWorker
      <4>3. Len(s) + 1 \in 1 .. Len(s) + 1 /\ \A a \in 1 .. Len(s) : a \in 1 .. Len(s) + 1
        BY <2>10
      <4> QED
        BY <2>10, <2>14, <3>1, <4>1, <4>2, <4>3
    <3>2. CASE v # w
      BY <2>1, <2>8, <3>2 DEF WithWorker
    <3> QED
      BY <3>1, <3>2
  <2>20. \A v \in PushPool!Worker : ~WithWorker(v, u)
    BY <2>11, <2>12, <2>13 DEF WithWorker
  <2>21. \A v \in PushPool!Worker, t \in 1 .. g_task_id :
             WithWorker(v, t) <=> t % NumPush = v /\ ~IsPosted(t)
    BY DEF PoolInv
  <2>22. \A v \in PushPool!Worker, t \in 1 .. u :
             WithWorker(v, t)' <=> t % NumPush = v /\ ~IsPosted(t)'
    BY <2>11, <2>18, <2>19, <2>20, <2>21, <2>u
  <2>23. g_task_id' = u /\ UNCHANGED <<pushRunning, pushed>>
    BY <2>1
  <2> QED
    BY <2>9, <2>15, <2>17, <2>22, <2>23 DEF PoolInv
<1> QED
  BY <1>1, <1>2

LEMMA PushInit == RobotInit => PushInv /\ PoolInv
<1> SUFFICES ASSUME RobotInit PROVE PushInv /\ PoolInv
  OBVIOUS
<1>1. /\ window = FALSE /\ handled = <<>> /\ taken = 0 /\ pending = <<>> /\ owed = {}
      /\ pushOf = <<>> /\ pushed = <<>> /\ g_task_id = 0
      /\ pushTodo = [w \in PushPool!Worker |-> <<>>]
      /\ pushRunning = [w \in PushPool!Worker |-> NoTask]
  BY DEF RobotInit, Channel!Init, PushPool!Init
<1>2. PushDone = <<>> /\ <<>> \o <<>> = <<>>
  BY <1>1, ConcatEmptySeq, EmptySeq DEF PushDone
<1>3. PushInv
  BY <1>1, <1>2 DEF PushInv
<1>4. PoolTypes
  BY <1>1, EmptySeq DEF PoolTypes
<1>5. \A w \in PushPool!Worker : pushRunning[w] = NoTask /\ Len(pushTodo[w]) = 0
  BY <1>1
<1>6. 1 .. g_task_id = {} /\ Len(pushed) = 0
  BY <1>1
<1> QED
  BY <1>3, <1>4, <1>5, <1>6 DEF PoolInv

LEMMA PoolStep ==
    ASSUME RobotInv, MailInv, ReceivedOnce, PushInv, PoolInv, [RobotNext]_allVars
    PROVE  PoolInv'
<1>1. ASSUME UNCHANGED <<g_task_id, pushTodo, pushRunning, pushEnded, pushOf, pushed>>
      PROVE  PoolInv'
  BY <1>1, PoolStays DEF pushVars
<1>2. ASSUME NEW m \in scene.incoming, SendWxMessage(m) PROVE PoolInv'
  BY <1>1, <1>2 DEF SendWxMessage, pushVars, ends
<1>3. ASSUME NEW i \in pictures, FnSaveImagesCore(i) PROVE PoolInv'
  BY <1>1, <1>3 DEF FnSaveImagesCore, pushVars, ends
<1>4. CASE TakeMessage
  BY <1>1, <1>4 DEF TakeMessage, pushVars, ends
<1>5. CASE EndRound
  BY <1>1, <1>5 DEF EndRound, pushVars, ends
<1>6. CASE HandleChatMsg
  BY <1>1, <1>6 DEF HandleChatMsg, Quiet, pushVars
<1>7. ASSUME NEW h \in {kHelper, kPush}, RegisterHandler(h) PROVE PoolInv'
  BY <1>1, <1>7 DEF RegisterHandler, pushVars, ends
<1>8. CASE OpenMain
  BY <1>1, <1>8 DEF OpenMain, pushVars, ends
<1>9. CASE UNCHANGED robotVars
  BY <1>1, <1>9 DEF robotVars
<1>10. CASE ConfigureTraffic
  BY <1>9, <1>10 DEF ConfigureTraffic
<1>11. ASSUME NEW w \in AskPool!Worker, Execute(w) \/ SendAnswer(w) PROVE PoolInv'
  BY <1>1, <1>11 DEF Execute, SendAnswer, pushVars, ends
<1>12. ASSUME NEW w \in PushPool!Worker, onExecutePushTask(w) \/ Posted(w) PROVE PoolInv'
  BY <1>12, PoolBegins, PoolPosts
<1>13. CASE onReceiveMsg
  BY <1>13, PoolAdds
<1> QED
  BY <1>2, <1>3, <1>4, <1>5, <1>6, <1>7, <1>8, <1>9, <1>10, <1>11, <1>12, <1>13
     DEF RobotNext, allVars

LEMMA TaskInOnePlace ==
    ASSUME MailInv, ReceivedOnce, PushInv, PoolInv, NEW t \in DOMAIN pushOf
    PROVE  Cardinality(
               {w \in PushPool!Worker : pushRunning[w] = t \/ InPlace(pushTodo[w], t)}
               \cup {p \in {NumPush} : InPlace(pushed, pushOf[t])}) = 1
<1>1. t \in 1 .. g_task_id /\ t \in Nat
  BY PushesDiffer
<1>2. PoolTypes
  BY DEF PoolInv
<1>3. \A w \in PushPool!Worker :
          pushRunning[w] = t \/ InPlace(pushTodo[w], t) <=> WithWorker(w, t)
  <2>1. \A w \in PushPool!Worker : DOMAIN pushTodo[w] = 1 .. Len(pushTodo[w])
    BY <1>2 DEF PoolTypes
  <2> QED
    BY <2>1 DEF InPlace, WithWorker
<1>4. InPlace(pushed, pushOf[t]) <=> IsPosted(t)
  <2>1. DOMAIN pushed = 1 .. Len(pushed)
    BY <1>2 DEF PoolTypes
  <2> QED
    BY <2>1 DEF InPlace, IsPosted
<1>5. \A w \in PushPool!Worker : WithWorker(w, t) <=> t % NumPush = w /\ ~IsPosted(t)
  BY <1>1 DEF PoolInv
<1>6. t % NumPush \in PushPool!Worker
  BY <1>1, PushWorker
<1> DEFINE place == IF IsPosted(t) THEN NumPush ELSE t % NumPush
           W == {w \in PushPool!Worker : pushRunning[w] = t \/ InPlace(pushTodo[w], t)}
           P == {p \in {NumPush} : InPlace(pushed, pushOf[t])}
<1>7. W \cup P = {place}
  <2>1. CASE IsPosted(t)
    <3>1. W = {} /\ P = {NumPush}
      BY <1>3, <1>4, <1>5, <2>1
    <3> QED
      BY <2>1, <3>1
  <2>2. CASE ~IsPosted(t)
    <3>1. W = {t % NumPush} /\ P = {}
      BY <1>3, <1>4, <1>5, <1>6, <2>2
    <3> QED
      BY <2>2, <3>1
  <2> QED
    BY <2>1, <2>2
<1>8. Cardinality({place}) = 1
  BY FS_Singleton
<1> QED
  BY <1>7, <1>8

LEMMA OnceFollows ==
    ASSUME RobotInv, MailInv, ReceivedOnce, PushInv, PoolInv
    PROVE  EveryMessageOnce
<1>1. DOMAIN Received = 1 .. Len(Received) /\ DOMAIN box = 1 .. Len(box)
  BY ReceivedType DEF RobotInv
<1>2. {Received[j] : j \in DOMAIN Received} =
          {i \in DOMAIN box : LetThrough(box[i])} \ (pictures \cup lost)
  BY <1>1 DEF ReceivedOnce, InReceived, Mails
<1>3. ASSUME scene.config.push, NEW j \in DOMAIN handled
      PROVE  Cardinality({t \in DOMAIN pushOf : pushOf[t] = handled[j]}) = 1
  <2>1. j \in 1 .. Len(handled) /\ Len(handled) \in Nat
    BY DEF MailInv
  <2>2. j \in DOMAIN pushOf /\ pushOf[j] = handled[j]
    <3>1. pushOf \in Seq(Nat \ {0}) /\ Len(handled) <= Len(pushOf) /\ pushOf[j] = handled[j]
      BY <1>3, <2>1, PushesDiffer
    <3> QED
      BY <2>1, <3>1
  <2>3. \A t, u \in DOMAIN pushOf : pushOf[t] = pushOf[u] => t = u
    <3>1. pushOf \in Seq(Nat \ {0})
          /\ \A t, u \in 1 .. Len(pushOf) : pushOf[t] = pushOf[u] => t = u
      BY PushesDiffer
    <3> QED
      BY <3>1
  <2>4. {t \in DOMAIN pushOf : pushOf[t] = handled[j]} = {j}
    BY <2>2, <2>3
  <2>5. Cardinality({j}) = 1
    BY FS_Singleton
  <2> QED
    BY <2>4, <2>5
<1>4. /\ \A j, k \in DOMAIN Received : Received[j] = Received[k] => j = k
      /\ \A j, k \in DOMAIN Received :
             j < k /\ ~Waits(box[Received[j]]) /\ ~Waits(box[Received[k]])
                 => Received[j] < Received[k]
  BY <1>1 DEF ReceivedOnce
<1>5. \A t \in DOMAIN pushOf : Cardinality(
           {w \in PushPool!Worker : pushRunning[w] = t \/ InPlace(pushTodo[w], t)}
           \cup {p \in {NumPush} : InPlace(pushed, pushOf[t])}) = 1
  BY TaskInOnePlace
<1> QED
  BY <1>2, <1>3, <1>4, <1>5 DEF EveryMessageOnce

\* From the hook to the handlers no message is doubled and none is missing but
\* for those that found no window or no picture, and from there to the server it
\* is pushed to each has one task in one place, whatever the hook, the UI
\* thread, the consumer and the workers do in whatever order.
THEOREM MessagesOnce == RobotSpec => []EveryMessageOnce
<1> DEFINE AllInv == MailInv /\ ReceivedOnce /\ PushInv /\ PoolInv
<1>1. RobotInit => AllInv
  BY MailInit, PushInit
<1>2. RobotInv /\ AllInv /\ [RobotNext]_allVars => AllInv'
  BY MailStep, PushStep, PoolStep
<1>3. RobotInv /\ AllInv => EveryMessageOnce
  BY OnceFollows
<1> HIDE DEF AllInv
<1> QED
  BY <1>1, <1>2, <1>3, RobotInvInductive, PTL DEF RobotSpec, allVars
-----------------------------------------------------------------------------
(* Answers in order. *)

Answer == [of : Nat, to : {m.chat : m \in Box}]
WasHandled(i) == \E a \in 1 .. Len(handled) : handled[a] = i

\* The questions granted are messages whose turn with MsgHelper's handler is over,
\* each another one.
GrantedInv ==
    /\ granted \in Seq(Nat \ {0})
    /\ \A p \in 1 .. Len(granted) :
           /\ granted[p] \in Mails
           /\ WasHandled(granted[p]) \/ (granted[p] = taken /\ kHelper \notin owed)
    /\ \A p, q \in 1 .. Len(granted) : granted[p] = granted[q] => p = q

IsGranted(i) == \E p \in 1 .. Len(granted) : granted[p] = i
IsAnswered(i) == \E b \in 1 .. Len(answered) : answered[b].of = i
IsRunning(w, i) == askRunning[w] # NoTask /\ askRunning[w].of = i
IsQueued(w, i) == \E x \in 1 .. Len(askTodo[w]) : askTodo[w][x].of = i

\* A task is for a question granted, and with the worker of the one who asked.
Belongs(w, t) ==
    /\ IsGranted(t.of)
    /\ t.key = Key(t.of)
    /\ Hash[t.key] % 2 = w

AskTypes ==
    /\ askTodo \in [AskPool!Worker -> Seq(AskTask)]
    /\ askRunning \in [AskPool!Worker -> AskTask \cup {NoTask}]
    /\ answered \in Seq(Answer)
BelongInv ==
    /\ \A w \in AskPool!Worker :
           /\ askRunning[w] # NoTask => Belongs(w, askRunning[w])
           /\ \A x \in 1 .. Len(askTodo[w]) : Belongs(w, askTodo[w][x])
    /\ \A b \in 1 .. Len(answered) : answered[b].of # 0 => IsGranted(answered[b].of)

\* A question is in one place ...
ApartInv ==
    /\ \A w \in AskPool!Worker :
           /\ \A x, y \in 1 .. Len(askTodo[w]) : askTodo[w][x].of = askTodo[w][y].of => x = y
           /\ \A x \in 1 .. Len(askTodo[w]) :
                  ~IsRunning(w, askTodo[w][x].of) /\ ~IsAnswered(askTodo[w][x].of)
           /\ askRunning[w] # NoTask => ~IsAnswered(askRunning[w].of)
    /\ \A a, b \in 1 .. Len(answered) :
           answered[a].of # 0 /\ answered[a].of = answered[b].of => a = b
\* ... and in no fewer.
StillThere(i) == IsAnswered(i) \/ \E w \in AskPool!Worker : IsRunning(w, i) \/ IsQueued(w, i)
ThereInv == \A p \in 1 .. Len(granted) : StillThere(granted[p])

\* What a person asked before is ahead: answered, running, or before it in the list.
Ahead(p, q) == p < q /\ Key(granted[p]) = Key(granted[q])
Before(w, x, i) ==
    \/ IsAnswered(i)
    \/ IsRunning(w, i)
    \/ \E y \in 1 .. x - 1 : askTodo[w][y].of = i
OrderInv ==
    \A p, q \in 1 .. Len(granted) : Ahead(p, q) =>
        /\ \A w \in AskPool!Worker :
               /\ \A x \in 1 .. Len(askTodo[w]) :
                      askTodo[w][x].of = granted[q] => Before(w, x, granted[p])
               /\ IsRunning(w, granted[q]) => IsAnswered(granted[p])
        /\ \A b \in 1 .. Len(answered) : answered[b].of = granted[q] =>
               \E a \in 1 .. b - 1 : answered[a].of = granted[p]
AskInv == AskTypes /\ BelongInv /\ ApartInv /\ ThereInv /\ OrderInv

LEMMA AskStays ==
    ASSUME GrantedInv, AskInv, BoxGrows,
           UNCHANGED <<granted, askTodo, askRunning, answered>>
    PROVE  AskInv'
<1>1. \A i : /\ IsGranted(i)' <=> IsGranted(i)
             /\ IsAnswered(i)' <=> IsAnswered(i)
             /\ \A w : /\ IsRunning(w, i)' <=> IsRunning(w, i)
                       /\ IsQueued(w, i)' <=> IsQueued(w, i)
  BY DEF IsGranted, IsAnswered, IsRunning, IsQueued
<1>2. \A i : IsGranted(i) => Key(i)' = Key(i)
  BY DEF IsGranted, GrantedInv, BoxGrows, Key
<1>3. \A w, t : Belongs(w, t) => Belongs(w, t)'
  BY <1>1, <1>2 DEF Belongs
<1>4. BelongInv'
  BY <1>1, <1>3 DEF AskInv, BelongInv
<1>5. ApartInv'
  BY <1>1 DEF AskInv, ApartInv
<1>6. ThereInv'
  BY <1>1 DEF AskInv, ThereInv, StillThere
<1>7. \A p, q \in 1 .. Len(granted) : Ahead(p, q)' => Ahead(p, q)
  <2>1. \A p \in 1 .. Len(granted) : Key(granted[p])' = Key(granted[p])
    BY DEF GrantedInv, BoxGrows, Key
  <2> QED
    BY <2>1 DEF Ahead
<1>8. \A w, x, i : Before(w, x, i)' <=> Before(w, x, i)
  BY <1>1 DEF Before
<1>9. OrderInv'
  <2> SUFFICES ASSUME NEW p \in 1 .. Len(granted), NEW q \in 1 .. Len(granted), Ahead(p, q)'
               PROVE  /\ \A w \in AskPool!Worker :
                             /\ \A x \in 1 .. Len(askTodo[w]) :
                                    askTodo[w][x].of = granted[q] => Before(w, x, granted[p])'
                             /\ IsRunning(w, granted[q])' => IsAnswered(granted[p])'
                      /\ \A b \in 1 .. Len(answered) : answered[b].of = granted[q] =>
                             \E a \in 1 .. b - 1 : answered[a].of = granted[p]
    BY DEF OrderInv
  <2>1. Ahead(p, q)
    BY <1>7
  <2>2. granted' = granted
    OBVIOUS
  <2> QED
    BY <1>1, <1>8, <2>1, <2>2 DEF AskInv, OrderInv
<1> QED
  BY <1>4, <1>5, <1>6, <1>9 DEF AskInv, AskTypes

LEMMA OrderFollows == GrantedInv /\ AskInv => AnswersInOrder
<1> SUFFICES ASSUME GrantedInv, AskInv, NEW b \in DOMAIN answered, answered[b].of # 0
             PROVE  /\ \A a \in DOMAIN answered : answered[a].of = answered[b].of => a = b
                    /\ \E q \in DOMAIN granted :
                           /\ granted[q] = answered[b].of
                           /\ \A p \in 1 .. q - 1 :
                                  Asker(box[granted[p]]) = Asker(box[granted[q]]) =>
                                      \E a \in 1 .. b - 1 : answered[a].of = granted[p]
  BY DEF AnswersInOrder
<1>1. /\ DOMAIN answered = 1 .. Len(answered) /\ DOMAIN granted = 1 .. Len(granted)
      /\ Len(granted) \in Nat /\ granted \in Seq(Nat \ {0})
  BY DEF AskInv, AskTypes, GrantedInv
<1>2. PICK q \in 1 .. Len(granted) : granted[q] = answered[b].of
  BY <1>1 DEF AskInv, BelongInv, IsGranted
<1>3. ASSUME NEW p \in 1 .. q - 1, Asker(box[granted[p]]) = Asker(box[granted[q]])
      PROVE  \E a \in 1 .. b - 1 : answered[a].of = granted[p]
  <2>1. p \in 1 .. Len(granted) /\ p < q
    BY <1>1
  <2>2. Ahead(p, q)
    BY <1>3, <2>1 DEF Ahead, Key
  <2> QED
    BY <1>1, <1>2, <2>1, <2>2 DEF AskInv, OrderInv
<1>4. \A a \in 1 .. Len(answered) : answered[a].of = answered[b].of => a = b
  BY <1>1 DEF AskInv, ApartInv
<1> QED
  BY <1>1, <1>2, <1>3, <1>4

\* Every place of a list but the first is a place of its tail.
LEMMA TailPlaces ==
    ASSUME NEW S, NEW s \in Seq(S), s # <<>>
    PROVE  /\ Len(s) \in Nat /\ Len(s) > 0 /\ Len(Tail(s)) = Len(s) - 1
           /\ \A x \in 1 .. Len(Tail(s)) :
                  x + 1 \in 1 .. Len(s) /\ Tail(s)[x] = s[x + 1] /\ x + 1 # 1
           /\ 1 \in 1 .. Len(s)
           /\ \A x \in 1 .. Len(s) :
                  x = 1 \/ (x - 1 \in 1 .. Len(Tail(s)) /\ Tail(s)[x - 1] = s[x])
<1>1. /\ Len(s) \in Nat /\ Len(s) > 0 /\ Len(Tail(s)) = Len(s) - 1
      /\ \A x \in 1 .. Len(Tail(s)) : Tail(s)[x] = s[x + 1]
  OBVIOUS
<1>2. \A x \in 1 .. Len(Tail(s)) :
          x + 1 \in 1 .. Len(s) /\ Tail(s)[x] = s[x + 1] /\ x + 1 # 1
  BY <1>1
<1>3. ASSUME NEW x \in 1 .. Len(s), x # 1
      PROVE  x - 1 \in 1 .. Len(Tail(s)) /\ Tail(s)[x - 1] = s[x]
  <2>1. x - 1 \in 1 .. Len(Tail(s)) /\ (x - 1) + 1 = x
    BY <1>1, <1>3
  <2>2. Tail(s)[x - 1] = s[(x - 1) + 1]
    BY <1>1, <2>1
  <2> QED
    BY <2>1, <2>2
<1> QED
  BY <1>1, <1>2, <1>3

LEMMA AskBegins ==
    ASSUME GrantedInv, AskInv, NEW w \in AskPool!Worker, Execute(w)
    PROVE  AskInv'
<1> DEFINE s == askTodo[w]
<1>1. /\ askRunning[w] = NoTask /\ s # <<>>
      /\ askRunning' = [askRunning EXCEPT ![w] = Head(s)]
      /\ askTodo' = [askTodo EXCEPT ![w] = Tail(s)]
      /\ UNCHANGED <<granted, answered, box>>
  BY DEF Execute, AskPool!Begin, ends, weChatSide
<1>2. AskTypes /\ s \in Seq(AskTask)
  BY DEF AskInv, AskTypes
<1>3. /\ Head(s) = s[1] /\ s[1] \in AskTask /\ Tail(s) \in Seq(AskTask)
      /\ Len(s) \in Nat /\ Len(s) > 0 /\ Len(Tail(s)) = Len(s) - 1
      /\ \A x \in 1 .. Len(Tail(s)) : Tail(s)[x] = s[x + 1]
  BY <1>1, <1>2
<1>4. AskTypes'
  BY <1>1, <1>2, <1>3 DEF AskTypes
<1>5. /\ askRunning'[w] = s[1] /\ askTodo'[w] = Tail(s) /\ s[1] # NoTask
      /\ \A v \in AskPool!Worker : v # w =>
             askRunning'[v] = askRunning[v] /\ askTodo'[v] = askTodo[v]
  BY <1>1, <1>2, <1>3, HashAssumption DEF AskTypes
\* A list from the second place on.
<1> DEFINE r == Tail(s)
           n == Len(s)
<1>6. /\ n \in Nat /\ n > 0 /\ Len(r) = n - 1 /\ askTodo'[w] = r
      /\ \A x \in 1 .. Len(r) : x + 1 \in 1 .. n /\ r[x] = s[x + 1] /\ x + 1 # 1
      /\ 1 \in 1 .. n
      /\ \A x \in 1 .. n : x = 1 \/ (x - 1 \in 1 .. Len(r) /\ r[x - 1] = s[x])
  BY <1>1, <1>2, <1>5, TailPlaces
<1>7. askTodo[w] = s /\ Len(askTodo[w]) = n
  OBVIOUS
<1> HIDE DEF r, n, s
<1>8. \A i : /\ IsGranted(i)' <=> IsGranted(i)
             /\ IsAnswered(i)' <=> IsAnswered(i)
             /\ IsRunning(w, i)' <=> s[1].of = i
             /\ ~IsRunning(w, i)
             /\ IsQueued(w, i) => s[1].of = i \/ IsQueued(w, i)'
  <2>1. ASSUME NEW i, IsQueued(w, i), s[1].of # i PROVE IsQueued(w, i)'
    <3>1. PICK x \in 1 .. n : s[x].of = i
      BY <1>7, <2>1 DEF IsQueued
    <3>2. x - 1 \in 1 .. Len(r) /\ r[x - 1].of = i
      BY <1>6, <2>1, <3>1
    <3> QED
      BY <1>6, <3>2 DEF IsQueued
  <2>2. \A i : (IsGranted(i)' <=> IsGranted(i)) /\ (IsAnswered(i)' <=> IsAnswered(i))
    BY <1>1 DEF IsGranted, IsAnswered
  <2>3. \A i : (IsRunning(w, i)' <=> s[1].of = i) /\ ~IsRunning(w, i)
    BY <1>1, <1>5 DEF IsRunning
  <2> QED
    BY <2>1, <2>2, <2>3
<1>9. \A v \in AskPool!Worker : v # w =>
          \A i : (IsRunning(v, i)' <=> IsRunning(v, i)) /\ (IsQueued(v, i)' <=> IsQueued(v, i))
  BY <1>5 DEF IsRunning, IsQueued
<1>10. \A v, t : Belongs(v, t)' <=> Belongs(v, t)
  BY <1>1, <1>8 DEF Belongs, Key
<1>11. BelongInv'
  <2>1. ASSUME NEW v \in AskPool!Worker
        PROVE  /\ askRunning'[v] # NoTask => Belongs(v, askRunning'[v])
               /\ \A x \in 1 .. Len(askTodo'[v]) : Belongs(v, askTodo'[v][x])
    <3>1. \A x \in 1 .. n : Belongs(w, s[x])
      BY <1>7 DEF AskInv, BelongInv
    <3>2. CASE v = w
      <4>1. \A x \in 1 .. Len(r) : Belongs(w, r[x])
        BY <1>6, <3>1
      <4> QED
        BY <1>5, <1>6, <3>1, <3>2, <4>1
    <3>3. CASE v # w
      BY <1>5, <3>3 DEF AskInv, BelongInv
    <3> QED
      BY <3>2, <3>3
  <2>2. \A v \in AskPool!Worker :
            /\ askRunning'[v] # NoTask => Belongs(v, askRunning[v])'
            /\ \A x \in 1 .. Len(askTodo'[v]) : Belongs(v, askTodo[v][x])'
    BY <1>10, <2>1
  <2>3. \A b \in 1 .. Len(answered') : answered'[b].of # 0 => IsGranted(answered[b].of)'
    BY <1>1, <1>8 DEF AskInv, BelongInv
  <2> QED
    BY <2>2, <2>3 DEF BelongInv
<1>12. ApartInv'
  <2>1. ASSUME NEW v \in AskPool!Worker
        PROVE  /\ \A x, y \in 1 .. Len(askTodo'[v]) :
                      askTodo'[v][x].of = askTodo'[v][y].of => x = y
               /\ \A x \in 1 .. Len(askTodo'[v]) :
                      ~IsRunning(v, askTodo[v][x].of)' /\ ~IsAnswered(askTodo[v][x].of)'
               /\ askRunning'[v] # NoTask => ~IsAnswered(askRunning[v].of)'
    <3>1. CASE v = w
      <4>1. /\ \A x, y \in 1 .. n : s[x].of = s[y].of => x = y
            /\ \A x \in 1 .. n : ~IsAnswered(s[x].of)
        BY <1>7 DEF AskInv, ApartInv
      <4>2. ASSUME NEW x \in 1 .. Len(r), NEW y \in 1 .. Len(r), r[x].of = r[y].of PROVE x = y
        <5>1. s[x + 1].of = s[y + 1].of /\ x + 1 \in 1 .. n /\ y + 1 \in 1 .. n
          BY <1>6, <4>2
        <5>2. x + 1 = y + 1
          BY <4>1, <5>1
        <5> QED
          BY <1>6, <5>2
      <4>3. ASSUME NEW x \in 1 .. Len(r) PROVE s[1].of # r[x].of /\ ~IsAnswered(r[x].of)
        <5>1. x + 1 \in 1 .. n /\ x + 1 # 1 /\ r[x] = s[x + 1]
          BY <1>6
        <5> QED
          BY <1>6, <4>1, <5>1
      <4>4. ASSUME NEW x \in 1 .. Len(askTodo'[w])
            PROVE  ~IsRunning(w, askTodo[w][x].of)' /\ ~IsAnswered(askTodo[w][x].of)'
        <5>1. x \in 1 .. Len(r) /\ askTodo'[w][x] = r[x]
          BY <1>6
        <5>2. s[1].of # r[x].of /\ ~IsAnswered(r[x].of)
          BY <4>3, <5>1
        <5>3. ~(askRunning'[w] # NoTask /\ askRunning'[w].of = askTodo'[w][x].of)
          BY <1>5, <5>1, <5>2
        <5>4. ~ \E b \in 1 .. Len(answered') : answered'[b].of = askTodo'[w][x].of
          BY <1>1, <5>1, <5>2 DEF IsAnswered
        <5> QED
          BY <5>3, <5>4 DEF IsRunning, IsAnswered
      <4>5. ~IsAnswered(askRunning[w].of)'
        BY <1>1, <1>5, <1>6, <4>1 DEF IsAnswered
      <4> QED
        BY <1>6, <3>1, <4>2, <4>4, <4>5
    <3>2. CASE v # w
      BY <1>5, <1>8, <1>9, <3>2 DEF AskInv, ApartInv
    <3> QED
      BY <3>1, <3>2
  <2>2. \A a, b \in 1 .. Len(answered') :
            answered'[a].of # 0 /\ answered'[a].of = answered'[b].of => a = b
    BY <1>1 DEF AskInv, ApartInv
  <2> QED
    BY <2>1, <2>2 DEF ApartInv
<1>13. ThereInv'
  <2>1. \A i : StillThere(i) => StillThere(i)'
    BY <1>8, <1>9 DEF StillThere
  <2> QED
    BY <1>1, <2>1 DEF AskInv, ThereInv
<1>14. OrderInv'
  <2> SUFFICES ASSUME NEW p \in 1 .. Len(granted), NEW q \in 1 .. Len(granted), Ahead(p, q)'
               PROVE  /\ \A v \in AskPool!Worker :
                             /\ \A x \in 1 .. Len(askTodo'[v]) :
                                    askTodo'[v][x].of = granted[q] => Before(v, x, granted[p])'
                             /\ IsRunning(v, granted[q])' => IsAnswered(granted[p])'
                      /\ \A b \in 1 .. Len(answered') : answered'[b].of = granted[q] =>
                             \E a \in 1 .. b - 1 : answered'[a].of = granted[p]
    BY <1>1 DEF OrderInv
  <2>1. Ahead(p, q)
    BY <1>1 DEF Ahead, Key
  <2>2. PICK i, j : i = granted[p] /\ j = granted[q]
    OBVIOUS
  <2>3. granted'[p] = i /\ granted'[q] = j
    BY <1>1, <2>2
  <2>4. /\ \A v \in AskPool!Worker :
               /\ \A x \in 1 .. Len(askTodo[v]) : askTodo[v][x].of = j => Before(v, x, i)
               /\ IsRunning(v, j) => IsAnswered(i)
        /\ \A b \in 1 .. Len(answered) : answered[b].of = j =>
               \E a \in 1 .. b - 1 : answered[a].of = i
    BY <2>1, <2>2 DEF AskInv, OrderInv
  <2>5. ASSUME NEW v \in AskPool!Worker, NEW x \in 1 .. Len(askTodo'[v]), askTodo'[v][x].of = j
        PROVE  Before(v, x, i)'
    <3>1. CASE v = w
      <4>1. x \in 1 .. Len(r) /\ r[x].of = j
        BY <1>6, <2>5, <3>1
      <4>2. x + 1 \in 1 .. n /\ s[x + 1].of = j
        BY <1>6, <4>1
      <4>3. IsAnswered(i) \/ \E y \in 1 .. (x + 1) - 1 : s[y].of = i
        BY <1>7, <1>8, <2>4, <4>2 DEF Before
      <4>4. CASE \E y \in 1 .. (x + 1) - 1 : s[y].of = i
        <5>1. PICK y \in 1 .. x : s[y].of = i
          BY <1>6, <4>1, <4>4
        <5>2. CASE y = 1
          BY <1>8, <3>1, <5>1, <5>2 DEF Before
        <5>3. CASE y # 1
          <6>1. y \in 1 .. n
            BY <1>6, <4>1
          <6>2. y - 1 \in 1 .. Len(r) /\ r[y - 1] = s[y]
            BY <1>6, <5>3, <6>1
          <6>3. y - 1 \in 1 .. x - 1
            BY <5>3
          <6> QED
            BY <1>6, <3>1, <5>1, <6>2, <6>3 DEF Before
        <5> QED
          BY <5>2, <5>3
      <4> QED
        BY <1>8, <4>3, <4>4 DEF Before
    <3>2. CASE v # w
      <4>1. Before(v, x, i)
        BY <1>5, <2>4, <2>5, <3>2
      <4> QED
        BY <1>5, <1>8, <1>9, <3>2, <4>1 DEF Before
    <3> QED
      BY <3>1, <3>2
  <2>6. ASSUME NEW v \in AskPool!Worker, IsRunning(v, j)' PROVE IsAnswered(i)'
    <3>1. CASE v = w
      <4>1. s[1].of = j
        BY <1>8, <2>6, <3>1
      <4>2. Before(w, 1, i)
        BY <1>6, <1>7, <2>4, <4>1
      <4>3. ~ \E y \in 1 .. 1 - 1 : askTodo[w][y].of = i
        OBVIOUS
      <4> QED
        BY <1>8, <4>2, <4>3 DEF Before
    <3>2. CASE v # w
      BY <1>8, <1>9, <2>4, <2>6, <3>2
    <3> QED
      BY <3>1, <3>2
  <2>7. \A b \in 1 .. Len(answered') : answered'[b].of = j =>
            \E a \in 1 .. b - 1 : answered'[a].of = i
    BY <1>1, <2>4
  <2> QED
    BY <2>2, <2>3, <2>5, <2>6, <2>7
<1> QED
  BY <1>4, <1>11, <1>12, <1>13, <1>14 DEF AskInv

\* One more answer, or a tip (0), at the end of all answers.
LEMMA AnswerMore ==
    ASSUME AskTypes, NEW a \in Answer, answered' = Append(answered, a)
    PROVE  /\ answered' \in Seq(Answer) /\ Len(answered) \in Nat
           /\ Len(answered') = Len(answered) + 1
           /\ answered'[Len(answered) + 1] = a
           /\ \A b \in 1 .. Len(answered) : answered'[b] = answered[b]
           /\ \A b \in 1 .. Len(answered') : b \in 1 .. Len(answered) \/ b = Len(answered) + 1
           /\ \A i : IsAnswered(i)' <=> IsAnswered(i) \/ i = a.of
<1>1. /\ answered' \in Seq(Answer) /\ Len(answered) \in Nat
      /\ Len(answered') = Len(answered) + 1
      /\ answered'[Len(answered) + 1] = a
      /\ \A b \in 1 .. Len(answered) : answered'[b] = answered[b]
  BY DEF AskTypes
<1>2. \A b \in 1 .. Len(answered') : b \in 1 .. Len(answered) \/ b = Len(answered) + 1
  BY <1>1
<1>3. /\ \A b \in 1 .. Len(answered) : b \in 1 .. Len(answered')
      /\ Len(answered) + 1 \in 1 .. Len(answered')
  BY <1>1
<1>4. ASSUME NEW i PROVE IsAnswered(i)' <=> IsAnswered(i) \/ i = a.of
  BY <1>1, <1>2, <1>3 DEF IsAnswered
<1> QED
  BY <1>1, <1>2, <1>4

\* The tasks for one question would be with one worker.
LEMMA OneWorker ==
    ASSUME AskInv, NEW v \in AskPool!Worker, NEW w \in AskPool!Worker, NEW i,
           IsRunning(v, i) \/ IsQueued(v, i), IsRunning(w, i) \/ IsQueued(w, i)
    PROVE  v = w
<1>1. \A u \in AskPool!Worker : IsRunning(u, i) \/ IsQueued(u, i) => Hash[Key(i)] % 2 = u
  BY SMTT(30) DEF AskInv, BelongInv, Belongs, IsRunning, IsQueued
<1> QED
  BY <1>1

LEMMA AskAnswers ==
    ASSUME RobotInv, GrantedInv, AskInv, NEW w \in AskPool!Worker, SendAnswer(w)
    PROVE  AskInv'
<1> DEFINE i == askRunning[w].of
           a == [of |-> i, to |-> box[i].chat]
           m == Len(answered)
<1>1. /\ askRunning[w] # NoTask /\ askRunning' = [askRunning EXCEPT ![w] = NoTask]
      /\ answered' = Append(answered, a)
      /\ UNCHANGED <<granted, askTodo, box>>
  BY DEF SendAnswer, AskPool!Finish, weChatSide
<1>2. AskTypes
  BY DEF AskInv
<1>3. IsGranted(i) /\ IsRunning(w, i)
  BY <1>1 DEF AskInv, BelongInv, Belongs, IsRunning
<1>4. i \in Nat \ {0} /\ a \in Answer /\ a.of = i
  <2>1. i \in Mails /\ i \in Nat \ {0}
    BY <1>3 DEF IsGranted, GrantedInv
  <2>2. box[i] \in Box
    BY <2>1 DEF RobotInv, Mails
  <2> QED
    BY <2>1, <2>2 DEF Answer
<1>5. PICK k : k = i
  OBVIOUS
<1>6. /\ answered' \in Seq(Answer) /\ m \in Nat /\ Len(answered') = m + 1
      /\ answered'[m + 1].of = k
      /\ \A b \in 1 .. m : answered'[b] = answered[b]
      /\ \A b \in 1 .. m + 1 : b \in 1 .. m \/ b = m + 1
      /\ \A j : IsAnswered(j)' <=> IsAnswered(j) \/ j = k
  <2> HIDE DEF a
  <2> QED
    BY <1>1, <1>2, <1>4, <1>5, AnswerMore
<1>7. k # 0 /\ IsRunning(w, k) /\ IsGranted(k)
  BY <1>3, <1>4, <1>5
<1> HIDE DEF a, i
<1> HIDE DEF m
<1>8. /\ askRunning'[w] = NoTask
      /\ \A v \in AskPool!Worker : v # w => askRunning'[v] = askRunning[v]
  BY <1>1, <1>2 DEF AskTypes
<1>9. AskTypes'
  BY <1>1, <1>2, <1>6 DEF AskTypes
<1>10. /\ \A j : IsGranted(j)' <=> IsGranted(j)
       /\ \A v, t : Belongs(v, t)' <=> Belongs(v, t)
       /\ \A v, j : IsQueued(v, j)' <=> IsQueued(v, j)
       /\ \A v \in AskPool!Worker : \A j : IsRunning(v, j)' <=> IsRunning(v, j) /\ v # w
       /\ \A j : IsRunning(w, j) => j = k
  <2>1. \A j : IsGranted(j)' <=> IsGranted(j)
    BY <1>1 DEF IsGranted
  <2>2. \A v, t : Belongs(v, t)' <=> Belongs(v, t)
    BY <1>1, <2>1 DEF Belongs, Key
  <2>3. \A v, j : IsQueued(v, j)' <=> IsQueued(v, j)
    BY <1>1 DEF IsQueued
  <2>4. \A v \in AskPool!Worker : \A j : IsRunning(v, j)' <=> IsRunning(v, j) /\ v # w
    BY <1>8 DEF IsRunning
  <2>5. \A j : IsRunning(w, j) => j = k
    BY <1>5 DEF IsRunning, i
  <2> QED
    BY <2>1, <2>2, <2>3, <2>4, <2>5
<1>11. \A v \in AskPool!Worker : ~IsQueued(v, k) /\ ~IsRunning(v, k)'
  <2>1. \A v \in AskPool!Worker : IsQueued(v, k) \/ IsRunning(v, k) => v = w
    BY <1>7, OneWorker
  <2>2. ~IsQueued(w, k)
    BY <1>7 DEF IsQueued, AskInv, ApartInv
  <2> QED
    BY <1>10, <2>1, <2>2
<1>12. ~IsAnswered(k)
  BY <1>1, <1>5 DEF AskInv, ApartInv, i
<1>13. BelongInv'
  <2>1. \A v \in AskPool!Worker :
            /\ askRunning'[v] # NoTask => Belongs(v, askRunning'[v])
            /\ \A x \in 1 .. Len(askTodo'[v]) : Belongs(v, askTodo'[v][x])
    BY <1>1, <1>8 DEF AskInv, BelongInv
  <2>2. \A v \in AskPool!Worker :
            /\ askRunning'[v] # NoTask => Belongs(v, askRunning[v])'
            /\ \A x \in 1 .. Len(askTodo'[v]) : Belongs(v, askTodo[v][x])'
    BY <1>10, <2>1
  <2>3. \A b \in 1 .. Len(answered') : answered'[b].of # 0 => IsGranted(answered'[b].of)
    BY <1>6, <1>7 DEF AskInv, BelongInv, m
  <2>4. \A b \in 1 .. Len(answered') : answered'[b].of # 0 => IsGranted(answered[b].of)'
    BY <1>10, <2>3
  <2> QED
    BY <2>2, <2>4 DEF BelongInv
<1>14. ApartInv'
  <2>1. ASSUME NEW v \in AskPool!Worker
        PROVE  /\ \A x, y \in 1 .. Len(askTodo'[v]) :
                      askTodo'[v][x].of = askTodo'[v][y].of => x = y
               /\ \A x \in 1 .. Len(askTodo'[v]) :
                      ~IsRunning(v, askTodo[v][x].of)' /\ ~IsAnswered(askTodo[v][x].of)'
               /\ askRunning'[v] # NoTask => ~IsAnswered(askRunning[v].of)'
    <3>1. ASSUME NEW x \in 1 .. Len(askTodo'[v])
          PROVE  ~IsRunning(v, askTodo[v][x].of)' /\ ~IsAnswered(askTodo[v][x].of)'
      <4>1. PICK j : j = askTodo[v][x].of /\ x \in 1 .. Len(askTodo[v])
        BY <1>1
      <4>2. askTodo'[v][x].of = j
        BY <1>1, <4>1
      <4>3. ~IsRunning(v, j) /\ ~IsAnswered(j) /\ IsQueued(v, j)
        BY <4>1 DEF AskInv, ApartInv, IsQueued
      <4>4. ~IsRunning(v, j)' /\ ~IsAnswered(j)'
        BY <1>6, <1>10, <1>11, <4>3
      <4> QED
        BY <4>2, <4>4
    <3>2. ASSUME askRunning'[v] # NoTask PROVE ~IsAnswered(askRunning[v].of)'
      <4>1. v # w /\ askRunning'[v] = askRunning[v]
        BY <1>8, <3>2
      <4>2. PICK j : j = askRunning[v].of
        OBVIOUS
      <4>3. ~IsAnswered(j) /\ IsRunning(v, j)
        BY <3>2, <4>1, <4>2 DEF AskInv, ApartInv, IsRunning
      <4>4. j # k
        BY <1>10, <1>11, <4>1, <4>3
      <4> QED
        BY <1>6, <4>1, <4>2, <4>3, <4>4
    <3> QED
      BY <1>1, <3>1, <3>2 DEF AskInv, ApartInv
  <2>2. ASSUME NEW b \in 1 .. Len(answered'), NEW c \in 1 .. Len(answered'),
               answered'[b].of # 0, answered'[b].of = answered'[c].of
        PROVE  b = c
    <3>1. \A d \in 1 .. m : answered[d].of # k
      BY <1>12 DEF IsAnswered, m
    <3>2. \A d, e \in 1 .. m : answered[d].of # 0 /\ answered[d].of = answered[e].of => d = e
      BY DEF AskInv, ApartInv, m
    <3> QED
      BY <1>6, <2>2, <3>1, <3>2
  <2> QED
    BY <2>1, <2>2 DEF ApartInv
<1>15. ThereInv'
  <2>1. \A j : StillThere(j) => StillThere(j)'
    BY <1>6, <1>10 DEF StillThere
  <2> QED
    BY <1>1, <2>1 DEF AskInv, ThereInv
<1>16. OrderInv'
  <2> SUFFICES ASSUME NEW p \in 1 .. Len(granted), NEW q \in 1 .. Len(granted), Ahead(p, q)'
               PROVE  /\ \A v \in AskPool!Worker :
                             /\ \A x \in 1 .. Len(askTodo'[v]) :
                                    askTodo'[v][x].of = granted[q] => Before(v, x, granted[p])'
                             /\ IsRunning(v, granted[q])' => IsAnswered(granted[p])'
                      /\ \A b \in 1 .. Len(answered') : answered'[b].of = granted[q] =>
                             \E c \in 1 .. b - 1 : answered'[c].of = granted[p]
    BY <1>1, SMTT(30) DEF OrderInv
  <2>1. Ahead(p, q)
    BY <1>1 DEF Ahead, Key
  <2>2. PICK g, h : g = granted[p] /\ h = granted[q]
    OBVIOUS
  <2>3. granted'[p] = g /\ granted'[q] = h
    BY <1>1, <2>2
  <2>4. /\ \A v \in AskPool!Worker :
               /\ \A x \in 1 .. Len(askTodo[v]) : askTodo[v][x].of = h => Before(v, x, g)
               /\ IsRunning(v, h) => IsAnswered(g)
        /\ \A b \in 1 .. m : answered[b].of = h =>
               \E c \in 1 .. b - 1 : answered[c].of = g
    BY <2>1, <2>2 DEF AskInv, OrderInv, m
  <2>5. \A v \in AskPool!Worker : \A x : Before(v, x, g) => Before(v, x, g)'
    <3>1. ASSUME NEW v \in AskPool!Worker, NEW x, Before(v, x, g) PROVE Before(v, x, g)'
      <4>1. CASE IsRunning(v, g)
        BY <1>6, <1>10, <4>1 DEF Before
      <4>2. CASE ~IsRunning(v, g)
        BY <1>1, <1>6, <3>1, <4>2 DEF Before
      <4> QED
        BY <4>1, <4>2
    <3> QED
      BY <3>1
  <2>6. ASSUME NEW b \in 1 .. m + 1, answered'[b].of = h
        PROVE  \E c \in 1 .. b - 1 : answered'[c].of = g
    <3>1. CASE b \in 1 .. m
      <4>1. PICK c \in 1 .. b - 1 : answered[c].of = g
        BY <1>6, <2>4, <2>6, <3>1
      <4>2. c \in 1 .. m
        BY <1>6, <3>1
      <4> QED
        BY <1>6, <4>1, <4>2
    <3>2. CASE b = m + 1
      <4>1. IsAnswered(g)
        BY <1>6, <1>7, <2>4, <2>6, <3>2
      <4>2. PICK c \in 1 .. m : answered[c].of = g
        BY <4>1 DEF IsAnswered, m
      <4>3. c \in 1 .. b - 1
        BY <1>6, <3>2
      <4> QED
        BY <1>6, <4>2, <4>3
    <3> QED
      BY <1>6, <3>1, <3>2
  <2>7. ASSUME NEW v \in AskPool!Worker
        PROVE  /\ \A x \in 1 .. Len(askTodo'[v]) : askTodo'[v][x].of = h => Before(v, x, g)'
               /\ IsRunning(v, h)' => IsAnswered(g)'
    BY <1>1, <1>6, <1>10, <2>4, <2>5
  <2> QED
    BY <1>6, <2>2, <2>3, <2>6, <2>7
<1> QED
  BY <1>9, <1>13, <1>14, <1>15, <1>16 DEF AskInv

\* A tip is nobody's answer.
LEMMA AskTips ==
    ASSUME GrantedInv, AskInv, NEW a \in Answer, a.of = 0, answered' = Append(answered, a),
           UNCHANGED <<granted, askTodo, askRunning, box>>
    PROVE  AskInv'
<1> DEFINE m == Len(answered)
<1>1. /\ answered' \in Seq(Answer) /\ m \in Nat /\ Len(answered') = m + 1
      /\ answered'[m + 1].of = 0
      /\ \A b \in 1 .. m : answered'[b] = answered[b]
      /\ \A b \in 1 .. m + 1 : b \in 1 .. m \/ b = m + 1
      /\ \A i : IsAnswered(i)' <=> IsAnswered(i) \/ i = 0
  BY AnswerMore DEF AskInv
<1> HIDE DEF m
<1>2. AskTypes'
  BY <1>1 DEF AskInv, AskTypes
<1>3. /\ \A i : IsGranted(i)' <=> IsGranted(i)
      /\ \A w, t : Belongs(w, t)' <=> Belongs(w, t)
      /\ \A w, i : /\ IsQueued(w, i)' <=> IsQueued(w, i)
                   /\ IsRunning(w, i)' <=> IsRunning(w, i)
      /\ \A i : IsGranted(i) => i # 0
  <2>1. \A i : (IsGranted(i)' <=> IsGranted(i)) /\ (IsGranted(i) => i # 0)
    BY DEF IsGranted, GrantedInv
  <2>2. \A w, t : Belongs(w, t)' <=> Belongs(w, t)
    BY <2>1 DEF Belongs, Key
  <2> QED
    BY <2>1, <2>2 DEF IsQueued, IsRunning
<1>4. BelongInv'
  <2>1. \A b \in 1 .. Len(answered') : answered'[b].of # 0 => IsGranted(answered[b].of)'
    <3>1. \A b \in 1 .. m : answered[b].of # 0 => IsGranted(answered[b].of)
      BY DEF AskInv, BelongInv, m
    <3>2. \A b \in 1 .. m + 1 : answered'[b].of # 0 => IsGranted(answered'[b].of)
      BY <1>1, <3>1
    <3> QED
      BY <1>1, <1>3, <3>2
  <2> QED
    BY <1>3, <2>1 DEF AskInv, BelongInv
<1>5. \A w \in AskPool!Worker :
          /\ askRunning[w] # NoTask => askRunning[w].of # 0
          /\ \A x \in 1 .. Len(askTodo[w]) : askTodo[w][x].of # 0
  BY <1>3 DEF AskInv, BelongInv, Belongs
<1>6. ApartInv'
  <2>1. \A w \in AskPool!Worker :
            /\ \A x \in 1 .. Len(askTodo[w]) :
                   ~IsRunning(w, askTodo[w][x].of)' /\ ~IsAnswered(askTodo[w][x].of)'
            /\ askRunning[w] # NoTask => ~IsAnswered(askRunning[w].of)'
    BY <1>1, <1>3, <1>5 DEF AskInv, ApartInv
  <2>2. ASSUME NEW b \in 1 .. m + 1, NEW c \in 1 .. m + 1,
               answered'[b].of # 0, answered'[b].of = answered'[c].of
        PROVE  b = c
    BY <1>1, <2>2 DEF AskInv, ApartInv, m
  <2> QED
    BY <1>1, <2>1, <2>2 DEF AskInv, ApartInv
<1>7. ThereInv'
  BY <1>1, <1>3 DEF AskInv, ThereInv, StillThere
<1>8. OrderInv'
  <2> SUFFICES ASSUME NEW p \in 1 .. Len(granted'), NEW q \in 1 .. Len(granted'), Ahead(p, q)'
               PROVE  /\ \A w \in AskPool!Worker :
                             /\ \A x \in 1 .. Len(askTodo'[w]) :
                                    askTodo'[w][x].of = granted'[q] => Before(w, x, granted[p])'
                             /\ IsRunning(w, granted[q])' => IsAnswered(granted[p])'
                      /\ \A b \in 1 .. Len(answered') : answered'[b].of = granted'[q] =>
                             \E c \in 1 .. b - 1 : answered'[c].of = granted'[p]
    BY DEF OrderInv
  <2>1. Ahead(p, q)
    BY DEF Ahead, Key
  <2>2. PICK g, h : g = granted[p] /\ h = granted[q]
    OBVIOUS
  <2>3. granted'[p] = g /\ granted'[q] = h /\ h # 0
    BY <2>2 DEF GrantedInv
  <2>4. /\ \A w \in AskPool!Worker :
               /\ \A x \in 1 .. Len(askTodo[w]) : askTodo[w][x].of = h => Before(w, x, g)
               /\ IsRunning(w, h) => IsAnswered(g)
        /\ \A b \in 1 .. m : answered[b].of = h =>
               \E c \in 1 .. b - 1 : answered[c].of = g
    BY <2>1, <2>2 DEF AskInv, OrderInv, m
  <2>5. \A w, x : Before(w, x, g) => Before(w, x, g)'
    BY <1>1, <1>3 DEF Before
  <2>6. ASSUME NEW b \in 1 .. m + 1, answered'[b].of = h
        PROVE  \E c \in 1 .. b - 1 : answered'[c].of = g
    <3>1. b \in 1 .. m
      BY <1>1, <2>3, <2>6
    <3>2. PICK c \in 1 .. b - 1 : answered[c].of = g
      BY <1>1, <2>4, <2>6, <3>1
    <3>3. c \in 1 .. m
      BY <1>1, <3>1
    <3> QED
      BY <1>1, <3>2, <3>3
  <2> QED
    BY <1>1, <1>3, <2>2, <2>3, <2>4, <2>5, <2>6
<1> QED
  BY <1>2, <1>4, <1>6, <1>7, <1>8 DEF AskInv

\* A question goes to the end of its asker's worker's list, behind all that was
\* granted before.
LEMMA AskGrants ==
    ASSUME GrantedInv, AskInv, NEW i \in Nat \ {0}, ~IsGranted(i), Key(i) \in DOMAIN Hash,
           AskPool!Add([of |-> i, key |-> Key(i)]), granted' = Append(granted, i),
           UNCHANGED <<answered, box>>
    PROVE  AskInv'
<1>0. PICK t, w : t = [of |-> i, key |-> Key(i)] /\ w = Hash[Key(i)] % 2
  OBVIOUS
<1> DEFINE s == askTodo[w]
           n == Len(s)
           m == Len(granted)
<1>1. t \in AskTask /\ w \in AskPool!Worker /\ t.of = i /\ t.key = Key(i)
  <2>1. Hash[Key(i)] \in Nat
    BY HashAssumption
  <2>2. w \in AskPool!Worker
    BY <1>0, <2>1 DEF AskPool!Worker
  <2> QED
    BY <1>0, <2>2 DEF AskTask
<1>2. AskTypes /\ s \in Seq(AskTask) /\ n \in Nat
  <2>1. AskTypes
    BY DEF AskInv
  <2>2. s \in Seq(AskTask)
    BY <1>1, <2>1 DEF AskTypes
  <2> QED
    BY <2>1, <2>2, LenProperties
<1>3. askTodo' = [askTodo EXCEPT ![w] = Append(s, t)] /\ askRunning' = askRunning
  <2>1. AskPool!WorkerOf(t) = w
    BY <1>0, <1>1 DEF AskPool!WorkerOf
  <2> QED
    BY <1>0, <2>1 DEF AskPool!Add
<1>4. /\ Append(s, t) \in Seq(AskTask) /\ Len(Append(s, t)) = n + 1
      /\ Append(s, t)[n + 1] = t
      /\ \A x \in 1 .. n : Append(s, t)[x] = s[x]
  <2> HIDE DEF s
  <2> QED
    BY <1>1, <1>2, AppendProperties DEF n
<1>5. AskTypes'
  BY <1>1, <1>2, <1>3, <1>4 DEF AskTypes
<1>6. /\ askTodo'[w] = Append(s, t)
      /\ \A v \in AskPool!Worker : v # w => askTodo'[v] = askTodo[v]
  BY <1>1, <1>2, <1>3 DEF AskTypes
<1>7. /\ Len(askTodo'[w]) = n + 1 /\ askTodo'[w][n + 1].of = i
      /\ askTodo'[w][n + 1] = t
      /\ \A x \in 1 .. n : askTodo'[w][x] = askTodo[w][x]
      /\ \A x \in 1 .. n + 1 : x \in 1 .. n \/ x = n + 1
      /\ n = Len(askTodo[w]) /\ n \in Nat
      /\ \A x \in 1 .. n : x \in 1 .. n + 1
      /\ n + 1 \in 1 .. n + 1
  BY <1>1, <1>2, <1>4, <1>6
<1>8. /\ granted' \in Seq(Nat \ {0}) /\ m \in Nat /\ Len(granted') = m + 1
      /\ granted'[m + 1] = i
      /\ \A p \in 1 .. m : granted'[p] = granted[p] /\ p \in 1 .. m + 1
      /\ \A p \in 1 .. m + 1 : p \in 1 .. m \/ p = m + 1
      /\ m + 1 \in 1 .. m + 1
  <2>1. granted \in Seq(Nat \ {0})
    BY DEF GrantedInv
  <2>2. /\ granted' \in Seq(Nat \ {0}) /\ m \in Nat /\ Len(granted') = m + 1
        /\ granted'[m + 1] = i
        /\ \A p \in 1 .. m : granted'[p] = granted[p]
    BY <2>1, AppendProperties, LenProperties
  <2> QED
    BY <2>2
<1> HIDE DEF n, m, s
<1>9. /\ \A j : IsGranted(j)' <=> IsGranted(j) \/ j = i
      /\ \A j : IsAnswered(j)' <=> IsAnswered(j)
      /\ \A v, j : IsRunning(v, j)' <=> IsRunning(v, j)
      /\ \A v \in AskPool!Worker : \A j : IsQueued(v, j) => IsQueued(v, j)'
      /\ IsQueued(w, i)'
  <2>1. \A j : IsGranted(j)' <=> IsGranted(j) \/ j = i
    BY <1>8 DEF IsGranted, m
  <2>2. \A v, j : IsRunning(v, j)' <=> IsRunning(v, j)
    BY <1>3 DEF IsRunning
  <2>3. ASSUME NEW v \in AskPool!Worker, NEW j, IsQueued(v, j) PROVE IsQueued(v, j)'
    <3>1. CASE v = w
      BY <1>7, <2>3, <3>1 DEF IsQueued
    <3>2. CASE v # w
      BY <1>6, <2>3, <3>2 DEF IsQueued
    <3> QED
      BY <3>1, <3>2
  <2>4. IsQueued(w, i)'
    BY <1>7 DEF IsQueued
  <2>5. \A j : IsAnswered(j)' <=> IsAnswered(j)
    BY DEF IsAnswered
  <2> QED
    BY <2>1, <2>2, <2>3, <2>4, <2>5
<1>10. \A v, u : Belongs(v, u) => Belongs(v, u)'
  BY <1>9 DEF Belongs, Key
<1>11. Belongs(w, t)'
  <2>1. IsGranted(t.of)' /\ t.key = Key(t.of) /\ Hash[t.key] % 2 = w /\ Key(t.of)' = Key(t.of)
    BY <1>0, <1>1, <1>9 DEF Key
  <2> QED
    BY <2>1 DEF Belongs
<1>12. BelongInv'
  <2>1. ASSUME NEW v \in AskPool!Worker
        PROVE  /\ askRunning'[v] # NoTask => Belongs(v, askRunning[v])'
               /\ \A x \in 1 .. Len(askTodo'[v]) : Belongs(v, askTodo[v][x])'
    <3>1. askRunning'[v] # NoTask => Belongs(v, askRunning[v])'
      BY <1>3, <1>10 DEF AskInv, BelongInv
    <3>2. ASSUME NEW x \in 1 .. Len(askTodo'[v]) PROVE Belongs(v, askTodo[v][x])'
      <4>1. CASE v = w /\ x = n + 1
        BY <1>7, <1>11, <4>1
      <4>2. CASE ~(v = w /\ x = n + 1)
        <5>1. x \in 1 .. Len(askTodo[v]) /\ askTodo'[v][x] = askTodo[v][x]
          BY <1>6, <1>7, <4>2
        <5>2. PICK u : u = askTodo[v][x]
          OBVIOUS
        <5>3. Belongs(v, u)'
          BY <1>10, <5>1, <5>2 DEF AskInv, BelongInv
        <5>4. askTodo'[v][x] = u
          BY <5>1, <5>2
        <5> QED
          BY <5>3, <5>4
      <4> QED
        BY <4>1, <4>2
    <3> QED
      BY <3>1, <3>2
  <2>2. \A b \in 1 .. Len(answered') : answered'[b].of # 0 => IsGranted(answered[b].of)'
    BY <1>9 DEF AskInv, BelongInv
  <2> QED
    BY <2>1, <2>2 DEF BelongInv
\* The question was nowhere before.
<1>13. /\ ~IsAnswered(i)
       /\ \A v \in AskPool!Worker : ~IsRunning(v, i) /\ ~IsQueued(v, i)
  <2>1. ~IsAnswered(i)
    BY DEF AskInv, BelongInv, IsAnswered
  <2>2. \A v \in AskPool!Worker : ~IsRunning(v, i)
    BY DEF AskInv, BelongInv, Belongs, IsRunning
  <2>3. \A v \in AskPool!Worker : ~IsQueued(v, i)
    BY DEF AskInv, BelongInv, Belongs, IsQueued
  <2> QED
    BY <2>1, <2>2, <2>3
<1>14. ApartInv'
  <2>1. ASSUME NEW v \in AskPool!Worker
        PROVE  /\ \A x, y \in 1 .. Len(askTodo'[v]) :
                      askTodo'[v][x].of = askTodo'[v][y].of => x = y
               /\ \A x \in 1 .. Len(askTodo'[v]) :
                      ~IsRunning(v, askTodo[v][x].of)' /\ ~IsAnswered(askTodo[v][x].of)'
               /\ askRunning'[v] # NoTask => ~IsAnswered(askRunning[v].of)'
    <3>1. CASE v = w
      <4>1. \A x \in 1 .. n : askTodo[w][x].of # i
        BY <1>1, <1>7, <1>13 DEF IsQueued
      <4>2. \A x, y \in 1 .. n : askTodo[w][x].of = askTodo[w][y].of => x = y
        BY <1>1, <1>7 DEF AskInv, ApartInv
      <4>3. \A x, y \in 1 .. n + 1 : askTodo'[w][x].of = askTodo'[w][y].of => x = y
        BY <1>7, <4>1, <4>2, ZenonT(40)
      <4>4. ASSUME NEW x \in 1 .. n + 1
            PROVE  ~IsRunning(v, askTodo[v][x].of)' /\ ~IsAnswered(askTodo[v][x].of)'
        <5>1. PICK j : j = askTodo'[w][x].of
          OBVIOUS
        <5>2. ~IsRunning(w, j) /\ ~IsAnswered(j)
          <6>1. CASE x = n + 1
            BY <1>1, <1>7, <1>13, <5>1, <6>1
          <6>2. CASE x \in 1 .. n
            BY <1>1, <1>7, <5>1, <6>2 DEF AskInv, ApartInv
          <6> QED
            BY <1>7, <6>1, <6>2
        <5>3. ~IsRunning(w, j)' /\ ~IsAnswered(j)'
          BY <1>9, <5>2
        <5> QED
          BY <3>1, <5>1, <5>3
      <4> QED
        <5>1. askRunning' = askRunning
          BY <1>3
        <5>2. askRunning[v] # NoTask => ~IsAnswered(askRunning[v].of)
          BY DEF AskInv, ApartInv
        <5>3. askRunning'[v] # NoTask => ~IsAnswered(askRunning[v].of)'
          BY <1>9, <5>1, <5>2
        <5> QED
          BY <1>7, <3>1, <4>3, <4>4, <5>3
    <3>2. CASE v # w
      BY <1>3, <1>6, <1>9, <3>2 DEF AskInv, ApartInv
    <3> QED
      BY <3>1, <3>2
  <2> QED
    BY <2>1 DEF AskInv, ApartInv
<1>15. ThereInv'
  <2>1. \A j : StillThere(j) => StillThere(j)'
    BY <1>9 DEF StillThere
  <2>2. StillThere(i)'
    BY <1>1, <1>9 DEF StillThere
  <2>3. \A p \in 1 .. m : StillThere(granted[p])
    BY DEF AskInv, ThereInv, m
  <2>4. ASSUME NEW p \in 1 .. m + 1 PROVE StillThere(granted[p])'
    <3>1. PICK j : j = granted'[p]
      OBVIOUS
    <3>2. StillThere(j)'
      BY <1>8, <2>1, <2>2, <2>3, <3>1
    <3> QED
      BY <3>1, <3>2
  <2> QED
    BY <1>8, <2>4 DEF ThereInv
<1>16. OrderInv'
  <2> SUFFICES ASSUME NEW p \in 1 .. Len(granted'), NEW q \in 1 .. Len(granted'), Ahead(p, q)'
               PROVE  /\ \A v \in AskPool!Worker :
                             /\ \A x \in 1 .. Len(askTodo'[v]) :
                                    askTodo'[v][x].of = granted'[q] => Before(v, x, granted[p])'
                             /\ IsRunning(v, granted[q])' => IsAnswered(granted[p])'
                      /\ \A b \in 1 .. Len(answered') : answered'[b].of = granted'[q] =>
                             \E c \in 1 .. b - 1 : answered'[c].of = granted'[p]
    BY DEF OrderInv
  <2>1. p < q /\ Key(granted'[p]) = Key(granted'[q])
    BY DEF Ahead, Key
  <2>2. p \in 1 .. m /\ granted'[p] = granted[p]
    BY <1>8, <2>1
  <2>3. PICK g, h : g = granted'[p] /\ h = granted'[q]
    OBVIOUS
  <2>5. ASSUME NEW v \in AskPool!Worker, NEW x \in 1 .. Len(askTodo[v]), Before(v, x, g)
        PROVE  Before(v, x, g)'
    <3>1. \A y \in 1 .. x - 1 : askTodo'[v][y] = askTodo[v][y]
      <4>1. Len(askTodo[v]) \in Nat
        BY <1>2, LenProperties DEF AskTypes
      <4>2. \A y \in 1 .. x - 1 : y \in 1 .. Len(askTodo[v])
        BY <4>1
      <4> QED
        BY <1>6, <1>7, <4>2
    <3> QED
      BY <1>9, <2>5, <3>1 DEF Before
  <2>6. CASE q \in 1 .. m
    <3>1. h = granted[q] /\ Ahead(p, q) /\ g = granted[p] /\ IsGranted(h) /\ h # i
      <4>1. h = granted[q] /\ g = granted[p]
        BY <1>8, <2>2, <2>3, <2>6
      <4>2. IsGranted(h)
        BY <2>6, <4>1 DEF IsGranted, m
      <4>3. Ahead(p, q)
        BY <2>1, <2>3, <4>1 DEF Ahead
      <4> QED
        BY <4>1, <4>2, <4>3
    <3>2. /\ \A v \in AskPool!Worker :
                 /\ \A x \in 1 .. Len(askTodo[v]) : askTodo[v][x].of = h => Before(v, x, g)
                 /\ IsRunning(v, h) => IsAnswered(g)
          /\ \A b \in 1 .. Len(answered) : answered[b].of = h =>
                 \E c \in 1 .. b - 1 : answered[c].of = g
      BY <2>2, <2>6, <3>1 DEF AskInv, OrderInv, m
    <3>3. ASSUME NEW v \in AskPool!Worker, NEW x \in 1 .. Len(askTodo'[v]),
                 askTodo'[v][x].of = h
          PROVE  Before(v, x, g)'
      <4>1. x \in 1 .. Len(askTodo[v]) /\ askTodo[v][x].of = h
        BY <1>6, <1>7, <3>1, <3>3
      <4> QED
        BY <2>5, <3>2, <4>1
    <3> QED
      BY <1>9, <2>3, <3>2, <3>3
  <2>7. CASE q = m + 1
    <3>1. h = i /\ Key(g) = Key(i) /\ g = granted[p]
      BY <1>8, <2>1, <2>2, <2>3, <2>7
    <3>2. StillThere(g)
      BY <2>2, <3>1 DEF AskInv, ThereInv, m
    <3>3. \A v \in AskPool!Worker : IsRunning(v, g) \/ IsQueued(v, g) => v = w
      BY <1>0, <3>1, SMTT(30) DEF AskInv, BelongInv, Belongs, IsRunning, IsQueued
    <3>4. ASSUME NEW x, x = n + 1 PROVE Before(w, x, g)'
      <4>1. CASE IsAnswered(g)
        BY <1>9, <4>1 DEF Before
      <4>2. CASE IsRunning(w, g)
        BY <1>9, <4>2 DEF Before
      <4>3. CASE IsQueued(w, g)
        <5>1. PICK y \in 1 .. n : askTodo[w][y].of = g
          BY <1>7, <4>3 DEF IsQueued
        <5>2. askTodo'[w][y].of = g /\ y \in 1 .. x - 1
          BY <1>7, <3>4, <5>1, SMTT(30)
        <5> QED
          BY <5>2 DEF Before
      <4> QED
        BY <3>2, <3>3, <4>1, <4>2, <4>3 DEF StillThere
    <3>5. ASSUME NEW v \in AskPool!Worker, NEW x \in 1 .. Len(askTodo'[v]),
                 askTodo'[v][x].of = i
          PROVE  v = w /\ x = n + 1
      <4>1. ~(x \in 1 .. Len(askTodo[v]) /\ askTodo[v][x].of = i)
        BY <1>13 DEF IsQueued
      <4>2. v = w
        BY <1>6, <3>5, <4>1
      <4> QED
        BY <1>7, <3>5, <4>1, <4>2
    <3>6. \A v \in AskPool!Worker : ~IsRunning(v, i)'
      BY <1>9, <1>13
    <3>7. \A b \in 1 .. Len(answered') : answered'[b].of # i
      BY <1>13 DEF IsAnswered
    <3>8. \A v \in AskPool!Worker : \A x \in 1 .. Len(askTodo'[v]) :
              askTodo'[v][x].of = i => Before(v, x, g)'
      <4> SUFFICES ASSUME NEW v \in AskPool!Worker, NEW x \in 1 .. Len(askTodo'[v]),
                          askTodo'[v][x].of = i
                   PROVE  Before(v, x, g)'
        OBVIOUS
      <4>1. v = w /\ x = n + 1
        BY <3>5
      <4> QED
        BY <3>4, <4>1
    <3> QED
      BY <2>3, <3>1, <3>6, <3>7, <3>8
  <2> QED
    BY <1>8, <2>6, <2>7
<1> QED
  BY <1>5, <1>12, <1>14, <1>15, <1>16 DEF AskInv

\* The message being handled has come, and has not been handled before.
LEMMA CurrentFresh ==
    ASSUME MailInv, ReceivedOnce, taken # 0
    PROVE  taken \in Nat \ {0} /\ taken \in Mails /\ ~WasHandled(taken)
<1> DEFINE C == handled \o Current
           h == Len(handled)
<1>1. taken \in Nat \ {0} /\ handled \in Seq(Nat \ {0}) /\ h \in Nat /\ pending \in Seq(Nat \ {0})
  BY LenProperties DEF MailInv
<1>2. Current = <<taken>> /\ <<taken>> \in Seq(Nat \ {0}) /\ Len(<<taken>>) = 1
      /\ <<taken>>[1] = taken
  BY <1>1 DEF Current
<1>3. C \in Seq(Nat \ {0}) /\ Received = C \o pending
  BY ReceivedType
<1>4. Len(C) = h + 1 /\ C[h + 1] = taken /\ \A a \in 1 .. h : C[a] = handled[a]
  BY <1>1, <1>2, ConcatProperties
<1> HIDE DEF C
<1>5. /\ Len(Received) = Len(C) + Len(pending)
      /\ \A a \in 1 .. Len(C) : Received[a] = C[a] /\ a \in 1 .. Len(Received)
  BY <1>1, <1>3, ConcatProperties, LenProperties
<1>6. h + 1 \in 1 .. Len(C) /\ \A a \in 1 .. h : a \in 1 .. Len(C) /\ a # h + 1
  BY <1>1, <1>4
<1> HIDE DEF h
<1>7. Received[h + 1] = taken /\ h + 1 \in 1 .. Len(Received)
  BY <1>4, <1>5, <1>6
<1>8. taken \in Mails
  BY <1>7, ElementsDue
<1>9. \A a \in 1 .. h : Received[a] # taken
  BY <1>4, <1>5, <1>6, <1>7 DEF ReceivedOnce
<1>10. ~WasHandled(taken)
  BY <1>4, <1>5, <1>6, <1>9 DEF WasHandled, h
<1> QED
  BY <1>1, <1>8, <1>10

\* What comes of a question: nothing, a tip, or a task.
LEMMA LimitOutcome ==
    ASSUME NEW c, NEW i, NEW asks, Limit(c, i, asks)
    PROVE  \/ /\ answered' \in {answered, Append(answered, [of |-> 0, to |-> box[i].chat])}
              /\ UNCHANGED askVars
           \/ /\ AskPool!Add([of |-> i, key |-> Key(i)])
              /\ granted' = Append(granted, i) /\ answered' = answered
<1> DEFINE verdict == log'[Len(log')].verdict
<1>1. /\ answered' = IF verdict = "tipped"
                     THEN Append(answered, [of |-> 0, to |-> box[i].chat])
                     ELSE answered
      /\ IF asks /\ verdict \in {"opened", "granted"}
         THEN /\ AskPool!Add([of |-> i, key |-> Key(i)])
              /\ granted' = Append(granted, i)
         ELSE UNCHANGED askVars
  BY DEF Limit
<1> HIDE DEF verdict
<1> QED
  BY <1>1

LEMMA HandlerOutcome ==
    ASSUME HandleChatMsg
    PROVE  /\ kHelper \in owed /\ owed' = owed \ {kHelper}
           /\ UNCHANGED <<box, taken, handled>>
           /\ \/ /\ \/ answered' = answered
                    \/ answered' = Append(answered, [of |-> 0, to |-> box[taken].chat])
                 /\ UNCHANGED askVars
              \/ /\ AskPool!Add([of |-> taken, key |-> Key(taken)])
                 /\ granted' = Append(granted, taken) /\ answered' = answered
<1>1. /\ kHelper \in owed /\ owed' = owed \ {kHelper}
      /\ UNCHANGED <<box, taken, handled>>
  BY DEF HandleChatMsg, Channel!Call, Quiet, weChatSide
<1>2. NoAnswer \/ \E c, asks : Limit(c, taken, asks)
  BY DEF HandleChatMsg, HandleGroupChatMsg, HandlePrivateChatMsg
<1> QED
  BY <1>1, <1>2, LimitOutcome DEF NoAnswer

LEMMA GrantedStays ==
    ASSUME GrantedInv, UNCHANGED granted, BoxGrows,
           \A i : WasHandled(i) => WasHandled(i)',
           \A i \in Nat \ {0} :
               i = taken /\ kHelper \notin owed =>
                   WasHandled(i)' \/ (i = taken' /\ kHelper \notin owed')
    PROVE  GrantedInv'
<1>1. ASSUME NEW p \in 1 .. Len(granted)
      PROVE  /\ granted[p] \in Mails'
             /\ WasHandled(granted[p])' \/ (granted[p] = taken' /\ kHelper \notin owed')
  <2>1. PICK i : i = granted[p] /\ granted'[p] = i
    OBVIOUS
  <2>2. i \in Nat \ {0} /\ i \in Mails
    BY <2>1 DEF GrantedInv
  <2>3. WasHandled(i) \/ (i = taken /\ kHelper \notin owed)
    BY <2>1 DEF GrantedInv
  <2>4. WasHandled(i)' \/ (i = taken' /\ kHelper \notin owed')
    BY <2>2, <2>3
  <2> QED
    BY <2>1, <2>2, <2>4 DEF BoxGrows
<1> QED
  BY <1>1 DEF GrantedInv

\* What the questions are about only changes where it is said to.
LEMMA AskStep ==
    ASSUME RobotInv, MailInv, ReceivedOnce, PushInv, GrantedInv, AskInv, [RobotNext]_allVars
    PROVE  GrantedInv' /\ AskInv'
<1>1. ASSUME UNCHANGED <<box, taken, owed, handled, granted>> PROVE GrantedInv'
  BY <1>1 DEF GrantedInv, WasHandled, Mails
<1>2. ASSUME UNCHANGED <<box, granted, askTodo, askRunning, answered>> PROVE AskInv'
  BY <1>2, AskStays DEF BoxGrows, Mails
<1>3. ASSUME BoxGrows, UNCHANGED <<taken, owed, handled, askVars, answered>>
      PROVE  GrantedInv' /\ AskInv'
  BY <1>3, AskStays, GrantedStays DEF askVars, WasHandled
<1>4. ASSUME NEW m \in scene.incoming, SendWxMessage(m) PROVE GrantedInv' /\ AskInv'
  <2>1. box' = Append(box, m) /\ UNCHANGED <<handled, askVars, answered>>
    BY <1>4 DEF SendWxMessage, ends
  <2>2. BoxGrows
    <3>1. box \in Seq(Box) /\ m \in Box
      BY DEF RobotInv, Box
    <3> QED
      BY <2>1, <3>1 DEF BoxGrows, Mails
  <2>3. Len(box) + 1 \in Nat \ {0}
    BY BoxLength
  <2>4. UNCHANGED channelVars \/ OnCopyData(Len(box) + 1, m)
    BY <1>4 DEF SendWxMessage
  <2>5. UNCHANGED <<taken, owed>>
    BY <2>1, <2>3, <2>4, CopyPushes DEF channelVars
  <2> QED
    BY <1>3, <2>1, <2>2, <2>5
<1>5. ASSUME NEW i \in pictures, FnSaveImagesCore(i) PROVE GrantedInv' /\ AskInv'
  <2>1. UNCHANGED <<box, handled, askVars, answered>>
    BY <1>5 DEF FnSaveImagesCore, ends
  <2>2. i \in Nat \ {0}
    BY BoxLength DEF MailInv
  <2>3. UNCHANGED channelVars \/ OnCopyData(i, box[i])
    BY <1>5 DEF FnSaveImagesCore
  <2>4. UNCHANGED <<taken, owed>>
    BY <2>1, <2>2, <2>3, CopyPushes DEF channelVars
  <2> QED
    BY <1>3, <2>1, <2>4 DEF BoxGrows, Mails
<1>6. CASE TakeMessage
  <2>1. taken = 0 /\ UNCHANGED <<box, handled>>
    BY <1>6, TakeMoves
  <2>2. UNCHANGED <<askVars, answered>>
    BY <1>6 DEF TakeMessage, ends
  <2>3. GrantedInv'
    BY <2>1, <2>2, GrantedStays DEF BoxGrows, Mails, WasHandled, askVars
  <2> QED
    BY <1>2, <2>1, <2>2, <2>3 DEF askVars
<1>7. CASE EndRound
  <2>1. /\ taken # 0 /\ handled' = Append(handled, taken) /\ box' = box
        /\ UNCHANGED <<askVars, answered>>
    BY <1>7 DEF EndRound, Channel!Finish, weChatSide, ends
  <2>2. handled \in Seq(Nat \ {0}) /\ taken \in Nat \ {0}
    BY <2>1 DEF MailInv
  <2>3. /\ Len(handled') = Len(handled) + 1 /\ Len(handled) \in Nat
        /\ handled'[Len(handled) + 1] = taken
        /\ \A a \in 1 .. Len(handled) : handled'[a] = handled[a]
    BY <2>1, <2>2, AppendProperties, LenProperties
  <2>4. /\ \A a \in 1 .. Len(handled) : a \in 1 .. Len(handled')
        /\ Len(handled) + 1 \in 1 .. Len(handled')
    BY <2>3
  <2>5. \A i : WasHandled(i) \/ i = taken => WasHandled(i)'
    BY <2>3, <2>4 DEF WasHandled
  <2>6. GrantedInv'
    BY <2>1, <2>5, GrantedStays DEF BoxGrows, Mails, askVars
  <2> QED
    BY <1>2, <2>1, <2>6 DEF askVars
<1>8. CASE onReceiveMsg
  <2>1. /\ owed' = owed \ {kPush}
        /\ UNCHANGED <<box, taken, handled, askVars, answered>>
    BY <1>8 DEF onReceiveMsg, Channel!Call, weChatSide, ends
  <2>2. GrantedInv'
    BY <2>1, GrantedStays DEF BoxGrows, Mails, WasHandled, askVars
  <2> QED
    BY <1>2, <2>1, <2>2 DEF askVars
<1>9. CASE HandleChatMsg
  <2>1. /\ kHelper \in owed /\ owed' = owed \ {kHelper}
        /\ UNCHANGED <<box, taken, handled>>
    BY <1>9, HandlerOutcome
  <2>2. taken # 0
    BY <2>1 DEF PushInv
  <2>3. taken \in Nat \ {0} /\ taken \in Mails /\ ~WasHandled(taken)
    BY <2>2, CurrentFresh
  <2>4. box[taken] \in Box
    BY <2>3 DEF RobotInv, Mails
  <2>5. CASE UNCHANGED askVars
    <3>1. GrantedInv'
      BY <2>1, <2>5, GrantedStays DEF BoxGrows, Mails, WasHandled, askVars
    <3>2. CASE answered' = answered
      BY <1>2, <2>1, <2>5, <3>1, <3>2 DEF askVars
    <3>3. CASE answered' # answered
      <4> DEFINE a == [of |-> 0, to |-> box[taken].chat]
      <4>1. answered' = Append(answered, a)
        BY <1>9, <3>3, HandlerOutcome
      <4>2. a \in Answer /\ a.of = 0
        BY <2>4 DEF Answer
      <4> HIDE DEF a
      <4> QED
        BY <2>1, <2>5, <3>1, <4>1, <4>2, AskTips DEF askVars
    <3> QED
      BY <3>2, <3>3
  <2>6. CASE /\ AskPool!Add([of |-> taken, key |-> Key(taken)])
             /\ granted' = Append(granted, taken) /\ answered' = answered
    <3>1. ~IsGranted(taken)
      BY <2>1, <2>3 DEF GrantedInv, IsGranted
    <3>2. Key(taken) \in DOMAIN Hash
      BY <2>4, HashAssumption DEF Box, Key
    <3>3. PICK i : i = taken
      OBVIOUS
    <3>4. AskInv'
      BY <2>1, <2>3, <2>6, <3>1, <3>2, <3>3, AskGrants
    <3>5. /\ granted \in Seq(Nat \ {0}) /\ Len(granted) \in Nat
          /\ granted' \in Seq(Nat \ {0}) /\ Len(granted') = Len(granted) + 1
          /\ granted'[Len(granted) + 1] = i
          /\ \A p \in 1 .. Len(granted) : granted'[p] = granted[p]
      BY <2>3, <2>6, <3>3, AppendProperties, LenProperties DEF GrantedInv
    <3>6. \A p \in 1 .. Len(granted') : p \in 1 .. Len(granted) \/ p = Len(granted) + 1
      BY <3>5
    <3>7. \A j : WasHandled(j)' <=> WasHandled(j)
      BY <2>1 DEF WasHandled
    <3>8. ASSUME NEW p \in 1 .. Len(granted')
          PROVE  /\ granted'[p] \in Mails'
                 /\ WasHandled(granted[p])' \/ (granted'[p] = taken' /\ kHelper \notin owed')
      <4>1. CASE p = Len(granted) + 1
        BY <2>1, <2>3, <3>3, <3>5, <4>1 DEF Mails
      <4>2. CASE p \in 1 .. Len(granted)
        <5>1. PICK j : j = granted[p] /\ granted'[p] = j
          BY <3>5, <4>2
        <5>2. j \in Mails /\ WasHandled(j)
          BY <2>1, <4>2, <5>1 DEF GrantedInv
        <5> QED
          BY <2>1, <3>7, <5>1, <5>2 DEF Mails
      <4> QED
        BY <3>6, <4>1, <4>2
    <3>9. \A p \in 1 .. Len(granted) : granted[p] # i
      BY <3>1, <3>3 DEF IsGranted
    <3>10. \A p, q \in 1 .. Len(granted') : granted'[p] = granted'[q] => p = q
      <4>1. ASSUME NEW p \in 1 .. Len(granted'), NEW q \in 1 .. Len(granted'),
                   granted'[p] = granted'[q]
            PROVE  p = q
        <5>1. CASE p \in 1 .. Len(granted) /\ q \in 1 .. Len(granted)
          BY <3>5, <4>1, <5>1 DEF GrantedInv
        <5>2. CASE p = Len(granted) + 1 \/ q = Len(granted) + 1
          BY <3>5, <3>6, <3>9, <4>1, <5>2
        <5> QED
          BY <3>6, <5>1, <5>2
      <4> QED
        BY <4>1
    <3> QED
      BY <3>4, <3>5, <3>8, <3>10 DEF GrantedInv
  <2> QED
    BY <1>9, <2>5, <2>6, HandlerOutcome
<1>10. ASSUME NEW w \in AskPool!Worker, Execute(w) \/ SendAnswer(w)
       PROVE  GrantedInv' /\ AskInv'
  <2>1. UNCHANGED <<box, taken, owed, handled, granted>>
    BY <1>10 DEF Execute, SendAnswer, weChatSide, channelVars
  <2> QED
    BY <1>1, <1>10, <2>1, AskBegins, AskAnswers
<1>11. ASSUME NEW h \in {kHelper, kPush}, RegisterHandler(h) PROVE GrantedInv' /\ AskInv'
  BY <1>1, <1>2, <1>11 DEF RegisterHandler, Channel!Register, weChatSide, askVars, ends
<1>12. CASE OpenMain
  BY <1>1, <1>2, <1>12 DEF OpenMain, channelVars, askVars, ends
<1>13. CASE UNCHANGED robotVars
  BY <1>1, <1>2, <1>13 DEF robotVars
<1>14. CASE ConfigureTraffic
  BY <1>13, <1>14 DEF ConfigureTraffic
<1>15. ASSUME NEW w \in PushPool!Worker, onExecutePushTask(w) \/ Posted(w)
       PROVE  GrantedInv' /\ AskInv'
  BY <1>1, <1>2, <1>15 DEF onExecutePushTask, Posted, weChatSide, channelVars, askVars, ends
<1> QED
  BY <1>4, <1>5, <1>6, <1>7, <1>8, <1>9, <1>10, <1>11, <1>12, <1>13, <1>14, <1>15
     DEF RobotNext, allVars

LEMMA AskInit == RobotInit => GrantedInv /\ AskInv
<1> SUFFICES ASSUME RobotInit PROVE GrantedInv /\ AskInv
  OBVIOUS
<1>1. /\ granted = <<>> /\ answered = <<>>
      /\ askTodo = [w \in AskPool!Worker |-> <<>>]
      /\ askRunning = [w \in AskPool!Worker |-> NoTask]
  BY DEF RobotInit, AskPool!Init
<1>2. Len(granted) = 0 /\ Len(answered) = 0 /\ 1 .. 0 = {}
  BY <1>1
<1>3. \A w \in AskPool!Worker : askRunning[w] = NoTask /\ Len(askTodo[w]) = 0
  BY <1>1
<1>4. GrantedInv
  BY <1>1, <1>2, EmptySeq DEF GrantedInv
<1>5. AskTypes
  BY <1>1, EmptySeq DEF AskTypes
<1>6. BelongInv /\ ApartInv
  BY <1>2, <1>3 DEF BelongInv, ApartInv, IsRunning
<1>7. ThereInv /\ OrderInv
  BY <1>2 DEF ThereInv, OrderInv
<1> QED
  BY <1>4, <1>5, <1>6, <1>7 DEF AskInv

\* What one person asks is answered in the order in which it was asked, and once,
\* whoever else asks, whatever the limit refuses, and however the two workers of
\* CTaskMgr are scheduled.
THEOREM AnswersOfOnePerson == RobotSpec => []AnswersInOrder
<1> DEFINE AllInv == MailInv /\ ReceivedOnce /\ PushInv /\ GrantedInv /\ AskInv
<1>1. RobotInit => AllInv
  BY MailInit, PushInit, AskInit
<1>2. RobotInv /\ AllInv /\ [RobotNext]_allVars => AllInv'
  BY MailStep, PushStep, AskStep
<1>3. AllInv => AnswersInOrder
  BY OrderFollows
<1> HIDE DEF AllInv
<1> QED
  BY <1>1, <1>2, <1>3, RobotInvInductive, PTL DEF RobotSpec, allVars
-----------------------------------------------------------------------------
(* The pools. *)

LEMMA PoolsStep ==
    ASSUME RobotInv, MailInv, ReceivedOnce, PushInv, [RobotNext]_allVars
    PROVE  [AskPool!Next]_(AskPool!vars) /\ [PushPool!Next]_(PushPool!vars)
<1> DEFINE AskPart == [AskPool!Next]_(AskPool!vars)
           PushPart == [PushPool!Next]_(PushPool!vars)
<1>1. UNCHANGED askVars => AskPart
  BY DEF askVars, AskPool!vars
<1>2. UNCHANGED pushVars => PushPart
  BY DEF pushVars, PushPool!vars
<1>3. CASE HandleChatMsg
  <2>1. PushPart
    BY <1>2, <1>3 DEF HandleChatMsg, Quiet
  <2>2. CASE AskPool!Add([of |-> taken, key |-> Key(taken)])
    <3>1. kHelper \in owed
      BY <1>3, HandlerOutcome
    <3>2. taken \in Nat /\ taken \in Mails
      BY <3>1, CurrentFresh DEF PushInv
    <3>3. box[taken] \in Box
      BY <3>2 DEF RobotInv, Mails
    <3>4. [of |-> taken, key |-> Key(taken)] \in AskTask
      BY <3>2, <3>3, HashAssumption DEF Box, Key, AskTask
    <3> QED
      BY <2>1, <2>2, <3>4 DEF AskPool!Next
  <2> QED
    BY <1>1, <1>3, <2>1, <2>2, HandlerOutcome
<1>4. CASE onReceiveMsg
  <2>1. AskPart
    BY <1>1, <1>4 DEF onReceiveMsg
  <2>2. CASE UNCHANGED pushVars
    BY <1>2, <2>1, <2>2
  <2>3. CASE g_task_id' = g_task_id + 1 /\ PushPool!Add(g_task_id')
    <3>1. g_task_id' \in Nat
      BY <2>3, PushesDiffer
    <3> QED
      BY <2>1, <2>3, <3>1 DEF PushPool!Next
  <2> QED
    BY <1>4, <2>2, <2>3 DEF onReceiveMsg
<1>5. ASSUME NEW w \in AskPool!Worker, Execute(w) \/ SendAnswer(w)
      PROVE  AskPart /\ PushPart
  <2>1. AskPool!Begin(w) \/ AskPool!Finish(w)
    BY <1>5 DEF Execute, SendAnswer
  <2>2. PushPart
    BY <1>2, <1>5 DEF Execute, SendAnswer
  <2> QED
    BY <2>1, <2>2 DEF AskPool!Next
<1>6. ASSUME NEW w \in PushPool!Worker, onExecutePushTask(w) \/ Posted(w)
      PROVE  AskPart /\ PushPart
  <2>1. PushPool!Begin(w) \/ PushPool!Finish(w)
    BY <1>6 DEF onExecutePushTask, Posted
  <2>2. AskPart
    BY <1>1, <1>6 DEF onExecutePushTask, Posted
  <2> QED
    BY <2>1, <2>2 DEF PushPool!Next
<1>7. ASSUME NEW m \in scene.incoming, SendWxMessage(m) PROVE AskPart /\ PushPart
  BY <1>1, <1>2, <1>7 DEF SendWxMessage
<1>8. ASSUME NEW i \in pictures, FnSaveImagesCore(i) PROVE AskPart /\ PushPart
  BY <1>1, <1>2, <1>8 DEF FnSaveImagesCore
<1>9. ASSUME NEW h \in {kHelper, kPush}, RegisterHandler(h) PROVE AskPart /\ PushPart
  BY <1>1, <1>2, <1>9 DEF RegisterHandler
<1>10. CASE TakeMessage
  BY <1>1, <1>2, <1>10 DEF TakeMessage
<1>11. CASE EndRound
  BY <1>1, <1>2, <1>11 DEF EndRound
<1>12. CASE OpenMain
  BY <1>1, <1>2, <1>12 DEF OpenMain
<1>13. CASE UNCHANGED robotVars
  BY <1>1, <1>2, <1>13 DEF robotVars, askVars, pushVars
<1>14. CASE ConfigureTraffic
  BY <1>13, <1>14 DEF ConfigureTraffic
<1> QED
  BY <1>3, <1>4, <1>5, <1>6, <1>7, <1>8, <1>9, <1>10, <1>11, <1>12, <1>13, <1>14
     DEF RobotNext, allVars

\* Each of the two pools does in the robot what TaskPool says of a pool, with the
\* questions and the pushes as its tasks and no worker that ends; ThreadPool is
\* proved to implement that (CMsgHelper through CTaskMgr, task_mgr.cpp:27, and
\* MsgPush.cpp).
THEOREM PoolsOfRobot == RobotSpec => AskPool!Spec /\ PushPool!Spec
<1> DEFINE AllInv == MailInv /\ ReceivedOnce /\ PushInv
<1>1. RobotInit => AllInv /\ AskPool!Init /\ PushPool!Init
  BY MailInit, PushInit DEF RobotInit
<1>2. RobotInv /\ AllInv /\ [RobotNext]_allVars => AllInv'
  BY MailStep, PushStep
<1>3. RobotInv /\ AllInv /\ [RobotNext]_allVars =>
          [AskPool!Next]_(AskPool!vars) /\ [PushPool!Next]_(PushPool!vars)
  BY PoolsStep
<1> HIDE DEF AllInv
<1> QED
  BY <1>1, <1>2, <1>3, RobotInvInductive, PTL
     DEF RobotSpec, allVars, AskPool!Spec, PushPool!Spec
=============================================================================
