-------------------------- MODULE MsgReceive_proofs --------------------------
(***************************************************************************)
(* Proofs about MsgReceive, for any set of messages and handlers and any   *)
(* number of messages.  The invariant IInv is inductive: the three safety  *)
(* properties alone are not, since they need to know who holds the mutex   *)
(* at each program location, that rounds never overtakes the messages      *)
(* received, and that the reference was taken from a popped message.       *)
(***************************************************************************)
EXTENDS MsgReceive, SequenceTheorems, TLAPS

\* The holder of the mutex is the thread whose location says so.
LockDiscipline ==
    /\ mutex_ = "consumer" <=> conPc \in {"wait", "awake", "locked"}
    /\ mutex_ = "ui" <=> uiPc = "pushed"

\* A round is over when the consumer is elsewhere, and has popped something
\* while it runs.
RoundBounds ==
    /\ rounds <= Len(received)
    /\ conPc = "deliver" => rounds >= 1
    /\ conPc # "deliver" => left = {}

\* Handlers are registered before anything is received.
StartupFirst == uiPc = "startup" => received = <<>>

\* What the reference reads is the popped message or a later one.
ReferenceNotStale ==
    conPc = "deliver" =>
        \E j \in rounds .. Len(received) : msg = received[j]

IInv ==
    /\ TypeOK
    /\ LockDiscipline
    /\ RoundBounds
    /\ StartupFirst
    /\ QueueIsSuffix
    /\ EveryHandlerEveryRound
    /\ ReferenceNotStale
    /\ NoStaleMessage

-----------------------------------------------------------------------------
(* Appending to the history and to the queue keeps the one a suffix of the *)
(* other; so does popping the head.                                        *)

\* The suffix of s from position n + 1 grows with s.
LEMMA SuffixAppend ==
    ASSUME NEW S, NEW s \in Seq(S), NEW e \in S, NEW n \in 0 .. Len(s)
    PROVE  SubSeq(Append(s, e), n + 1, Len(Append(s, e)))
               = Append(SubSeq(s, n + 1, Len(s)), e)
<1> DEFINE L == SubSeq(Append(s, e), n + 1, Len(Append(s, e)))
           M == SubSeq(s, n + 1, Len(s))
           R == Append(M, e)
<1>1. /\ Append(s, e) \in Seq(S)
      /\ Len(Append(s, e)) = Len(s) + 1
      /\ \A i \in 1 .. Len(s) : Append(s, e)[i] = s[i]
      /\ Append(s, e)[Len(s) + 1] = e
  BY AppendProperties
<1>2. /\ \A i \in n + 1 .. Len(s) + 1 : Append(s, e)[i] \in S
      /\ \A i \in n + 1 .. Len(s) : s[i] \in S
  BY <1>1, ElementOfSeq
<1>3. /\ L \in Seq(S)
      /\ Len(L) = Len(s) + 1 - n
      /\ \A i \in 1 .. Len(s) + 1 - n : L[i] = Append(s, e)[n + i]
  BY <1>1, <1>2, SubSeqProperties
<1>4. /\ M \in Seq(S)
      /\ Len(M) = Len(s) - n
      /\ \A i \in 1 .. Len(s) - n : M[i] = s[n + i]
  BY <1>2, SubSeqProperties
<1>5. /\ R \in Seq(S)
      /\ Len(R) = Len(s) - n + 1
      /\ \A i \in 1 .. Len(s) - n : R[i] = M[i]
      /\ R[Len(s) - n + 1] = e
  BY <1>4, AppendProperties
<1>6. \A i \in 1 .. Len(L) : L[i] = R[i]
  BY <1>1, <1>3, <1>4, <1>5
<1> HIDE DEF L, R
<1>7. L = R
  BY <1>3, <1>5, <1>6, SeqEqual
<1> QED BY <1>7 DEF L, R

\* The suffix after one more popped element is the tail of the suffix.
LEMMA SuffixTail ==
    ASSUME NEW S, NEW s \in Seq(S), NEW n \in Nat,
           SubSeq(s, n + 1, Len(s)) # <<>>
    PROVE  /\ n < Len(s)
           /\ Head(SubSeq(s, n + 1, Len(s))) = s[n + 1]
           /\ Tail(SubSeq(s, n + 1, Len(s))) = SubSeq(s, n + 2, Len(s))
<1>1. n < Len(s)
  BY SubSeqEmpty, LenProperties
<1> QED BY <1>1, HeadTailOfSubSeq, LenProperties

-----------------------------------------------------------------------------
(* Type correctness and the holder of the mutex. *)

\* While a round runs the reference reads a message, never NoMsg.
ReferenceTyped == conPc = "deliver" => msg \in Message

LEMMA TypeInit == Init => TypeOK /\ ReferenceTyped
BY DEF Init, TypeOK, ReferenceTyped, Owner, UiLoc, ConLoc

LEMMA TypeStep ==
    TypeOK /\ ReferenceTyped /\ [Next]_vars => (TypeOK /\ ReferenceTyped)'
<1> SUFFICES ASSUME TypeOK, ReferenceTyped, [Next]_vars
             PROVE  (TypeOK /\ ReferenceTyped)'
  OBVIOUS
<1> USE DEF TypeOK, ReferenceTyped, Owner, UiLoc, ConLoc, queueVars, uiVars,
            conVars
<1>1. ASSUME NEW h \in Handler, Register(h)
      PROVE  (TypeOK /\ ReferenceTyped)'
  BY <1>1 DEF Register
<1>2. CASE OpenDialog
  BY <1>2 DEF OpenDialog
<1>3. ASSUME NEW m \in Message, OnHandleMsg(m)
      PROVE  (TypeOK /\ ReferenceTyped)'
  BY <1>3, AppendProperties DEF OnHandleMsg, Overwritten
<1>4. CASE UnlockPush
  BY <1>4 DEF UnlockPush
<1>5. CASE NotifyAll
  BY <1>5 DEF NotifyAll
<1>6. CASE \/ Lock \/ Wait \/ SpuriousWakeup \/ Reacquire \/ UnlockAwake
           \/ TryLock \/ Drained \/ EndRound
  BY <1>6 DEF Lock, Wait, SpuriousWakeup, Reacquire, UnlockAwake, TryLock,
              Drained, EndRound, ConGoto
<1>7. CASE PopFront
  BY <1>7, HeadTailProperties DEF PopFront
<1>8. ASSUME NEW h \in Handler, CallHandler(h)
      PROVE  (TypeOK /\ ReferenceTyped)'
  BY <1>8, AppendProperties DEF CallHandler
<1>9. CASE UNCHANGED vars
  BY <1>9 DEF vars
<1> QED BY <1>1, <1>2, <1>3, <1>4, <1>5, <1>6, <1>7, <1>8, <1>9 DEF Next

\* Every variable keeps its type, and a round only ever calls registered
\* handlers (Register, OnHandleMsg, _ConsumerMsg).
THEOREM TypeCorrect == Spec => []TypeOK
<1>1. Spec => [](TypeOK /\ ReferenceTyped)
  BY TypeInit, TypeStep, PTL DEF Spec
<1> QED BY <1>1, PTL

-----------------------------------------------------------------------------
(* The inductive invariant, one conjunct after the other. *)

LEMMA InvInit == Init => IInv
<1> SUFFICES ASSUME Init PROVE IInv
  OBVIOUS
<1>1. TypeOK
  BY TypeInit
<1>2. Len(received) = 0 /\ \A h \in Handler : Len(handed[h]) = 0
  BY EmptySeq DEF Init
<1>3. QueueIsSuffix
  BY <1>2, SubSeqEmpty DEF Init, QueueIsSuffix
<1>4. LockDiscipline /\ RoundBounds /\ StartupFirst /\ ReferenceNotStale
  BY <1>2 DEF Init, LockDiscipline, RoundBounds, StartupFirst,
              ReferenceNotStale
<1>5. EveryHandlerEveryRound /\ NoStaleMessage
  BY <1>2 DEF Init, EveryHandlerEveryRound, NoStaleMessage
<1> QED BY <1>1, <1>3, <1>4, <1>5 DEF IInv

\* A step that leaves the queue, the histories, the round and the registered
\* handlers alone keeps all that is said about them.
LEMMA QuietStep ==
    ASSUME IInv, UNCHANGED <<callbacks_, msgs_, msg, left, received, rounds,
                             handed>>,
           TypeOK', LockDiscipline',
           conPc' = "deliver" => conPc = "deliver",
           conPc = "deliver" /\ left # {} => conPc' = "deliver",
           uiPc' = "startup" => uiPc = "startup"
    PROVE  IInv'
<1>1. QueueIsSuffix' /\ NoStaleMessage' /\ EveryHandlerEveryRound'
  BY DEF IInv, QueueIsSuffix, NoStaleMessage, EveryHandlerEveryRound
<1>2. RoundBounds'
  BY DEF IInv, RoundBounds
<1>3. StartupFirst' /\ ReferenceNotStale'
  BY DEF IInv, StartupFirst, ReferenceNotStale
<1> QED BY <1>1, <1>2, <1>3 DEF IInv

LEMMA RegisterStep ==
    ASSUME IInv, TypeOK', NEW h \in Handler, Register(h)
    PROVE  IInv'
<1> USE DEF IInv, Register, queueVars, conVars
<1>1. Len(received) = 0
  BY DEF StartupFirst
<1>2. rounds = 0 /\ conPc # "deliver"
  BY <1>1 DEF RoundBounds, TypeOK
<1>3. EveryHandlerEveryRound'
  BY <1>2 DEF EveryHandlerEveryRound, TypeOK, RoundBounds
<1>4. LockDiscipline' /\ RoundBounds' /\ StartupFirst' /\ QueueIsSuffix'
  BY DEF LockDiscipline, RoundBounds, StartupFirst, QueueIsSuffix
<1>5. ReferenceNotStale' /\ NoStaleMessage'
  BY DEF ReferenceNotStale, NoStaleMessage
<1> QED BY <1>3, <1>4, <1>5

LEMMA PushStep ==
    ASSUME IInv, TypeOK', NEW m \in Message, OnHandleMsg(m)
    PROVE  IInv'
<1> USE DEF IInv, OnHandleMsg, conVars
<1>1. /\ Len(received') = Len(received) + 1
      /\ \A i \in 1 .. Len(received) : received'[i] = received[i]
      /\ received'[Len(received) + 1] = m
      /\ Len(received) \in Nat
  BY AppendProperties, LenProperties DEF TypeOK
<1>2. QueueIsSuffix'
  <2>1. received \in Seq(Message) /\ rounds \in 0 .. Len(received)
    BY <1>1 DEF TypeOK, RoundBounds
  <2>2. SubSeq(Append(received, m), rounds + 1, Len(Append(received, m)))
            = Append(SubSeq(received, rounds + 1, Len(received)), m)
    BY <2>1, SuffixAppend
  <2> QED BY <2>2 DEF QueueIsSuffix
<1>3. LockDiscipline' /\ RoundBounds' /\ StartupFirst'
  BY <1>1 DEF LockDiscipline, RoundBounds, StartupFirst, TypeOK
<1>4. EveryHandlerEveryRound'
  BY DEF EveryHandlerEveryRound
<1>5. ReferenceNotStale'
  <2> SUFFICES ASSUME conPc = "deliver"
               PROVE  \E j \in rounds .. Len(received)' : msg' = received'[j]
    BY DEF ReferenceNotStale
  <2>1. CASE msg' = m
    BY <2>1, <1>1 DEF RoundBounds, TypeOK
  <2>2. CASE msg' = msg
    <3>1. PICK j \in rounds .. Len(received) : msg = received[j]
      BY DEF ReferenceNotStale
    <3> QED BY <2>2, <3>1, <1>1 DEF RoundBounds, TypeOK
  <2> QED BY <2>1, <2>2 DEF Overwritten
<1>6. NoStaleMessage'
  <2> SUFFICES ASSUME NEW h \in Handler, NEW i \in 1 .. Len(handed[h])
               PROVE  \E j \in i .. Len(received)' :
                          handed[h][i] = received'[j]
    BY DEF NoStaleMessage
  <2>1. PICK j \in i .. Len(received) : handed[h][i] = received[j]
    BY DEF NoStaleMessage
  <2>2. Len(handed[h]) \in Nat
    BY LenProperties DEF TypeOK
  <2> QED BY <2>1, <2>2, <1>1
<1> QED BY <1>2, <1>3, <1>4, <1>5, <1>6

LEMMA PopStep ==
    ASSUME IInv, TypeOK', PopFront
    PROVE  IInv'
<1> USE DEF IInv, PopFront, uiVars
<1>1. /\ rounds < Len(received)
      /\ msg' = received[rounds + 1]
      /\ msgs_' = SubSeq(received, rounds + 2, Len(received))
      /\ Len(received) \in Nat
  BY SuffixTail, LenProperties DEF TypeOK, QueueIsSuffix
<1>2. QueueIsSuffix'
  BY <1>1, SMTT(30) DEF QueueIsSuffix, TypeOK
<1>3. LockDiscipline' /\ RoundBounds' /\ StartupFirst'
  BY <1>1 DEF LockDiscipline, RoundBounds, StartupFirst, TypeOK
<1>4. EveryHandlerEveryRound'
  BY DEF EveryHandlerEveryRound, RoundBounds, TypeOK
<1>5. ReferenceNotStale' /\ NoStaleMessage'
  BY <1>1 DEF ReferenceNotStale, NoStaleMessage, TypeOK
<1> QED BY <1>2, <1>3, <1>4, <1>5

LEMMA CallStep ==
    ASSUME IInv, TypeOK', ReferenceTyped, NEW h \in Handler, CallHandler(h)
    PROVE  IInv'
<1> USE DEF IInv, CallHandler, uiVars, queueVars
<1>1. /\ h \in callbacks_
      /\ handed[h] \in Seq(Message)
      /\ msg \in Message
      /\ Len(handed[h]) = rounds - 1
      /\ rounds \in Nat /\ rounds >= 1
  BY DEF TypeOK, EveryHandlerEveryRound, RoundBounds, ReferenceTyped
<1>2. /\ handed'[h] = Append(handed[h], msg)
      /\ Len(handed'[h]) = rounds
      /\ \A i \in 1 .. rounds - 1 : handed'[h][i] = handed[h][i]
      /\ handed'[h][rounds] = msg
      /\ \A g \in Handler : g # h => handed'[g] = handed[g]
  BY <1>1, AppendProperties DEF TypeOK
<1>3. EveryHandlerEveryRound'
  BY <1>1, <1>2 DEF EveryHandlerEveryRound
<1>4. NoStaleMessage'
  <2> SUFFICES ASSUME NEW g \in Handler, NEW i \in 1 .. Len(handed'[g])
               PROVE  \E j \in i .. Len(received) :
                          handed'[g][i] = received[j]
    BY DEF NoStaleMessage
  <2>1. CASE g = h /\ i = rounds
    BY <2>1, <1>2 DEF ReferenceNotStale
  <2>2. CASE g = h /\ i # rounds
    BY <2>2, <1>1, <1>2 DEF NoStaleMessage
  <2>3. CASE g # h
    BY <2>3, <1>2 DEF NoStaleMessage
  <2> QED BY <2>1, <2>2, <2>3
<1>5. QueueIsSuffix' /\ LockDiscipline' /\ RoundBounds' /\ StartupFirst'
  BY DEF QueueIsSuffix, LockDiscipline, RoundBounds, StartupFirst
<1>6. ReferenceNotStale'
  BY DEF ReferenceNotStale
<1> QED BY <1>3, <1>4, <1>5, <1>6

LEMMA InvStep == IInv /\ ReferenceTyped /\ [Next]_vars => IInv'
<1> SUFFICES ASSUME IInv, ReferenceTyped, [Next]_vars PROVE IInv'
  OBVIOUS
<1>1. TypeOK'
  BY TypeStep DEF IInv
<1> USE DEF queueVars, uiVars, conVars
<1>2. ASSUME NEW h \in Handler, Register(h) PROVE IInv'
  BY <1>1, <1>2, RegisterStep
<1>3. ASSUME NEW m \in Message, OnHandleMsg(m) PROVE IInv'
  BY <1>1, <1>3, PushStep
<1>4. CASE PopFront
  BY <1>1, <1>4, PopStep
<1>5. ASSUME NEW h \in Handler, CallHandler(h) PROVE IInv'
  BY <1>1, <1>5, CallStep
<1>6. CASE OpenDialog \/ UnlockPush \/ NotifyAll
  <2>1. LockDiscipline'
    BY <1>6 DEF OpenDialog, UnlockPush, NotifyAll, IInv, LockDiscipline
  <2>2. /\ UNCHANGED <<callbacks_, msgs_, msg, left, received, rounds, handed>>
        /\ conPc' = "deliver" => conPc = "deliver"
        /\ conPc = "deliver" /\ left # {} => conPc' = "deliver"
        /\ uiPc' = "startup" => uiPc = "startup"
    BY <1>6 DEF OpenDialog, UnlockPush, NotifyAll
  <2> QED BY <1>1, <2>1, <2>2, QuietStep
<1>7. CASE \/ Lock \/ Wait \/ SpuriousWakeup \/ Reacquire \/ UnlockAwake
           \/ TryLock \/ Drained \/ EndRound
  <2> USE DEF Lock, Wait, SpuriousWakeup, Reacquire, UnlockAwake, TryLock,
              Drained, EndRound, ConGoto
  <2>1. LockDiscipline'
    BY <1>7 DEF IInv, LockDiscipline
  <2>2. /\ UNCHANGED <<callbacks_, msgs_, msg, left, received, rounds, handed>>
        /\ conPc' = "deliver" => conPc = "deliver"
        /\ conPc = "deliver" /\ left # {} => conPc' = "deliver"
        /\ uiPc' = "startup" => uiPc = "startup"
    BY <1>7
  <2> QED BY <1>1, <2>1, <2>2, QuietStep
<1>8. CASE UNCHANGED vars
  <2>1. LockDiscipline'
    BY <1>8 DEF vars, IInv, LockDiscipline
  <2> QED BY <1>1, <1>8, <2>1, QuietStep DEF vars
<1> QED BY <1>2, <1>3, <1>4, <1>5, <1>6, <1>7, <1>8 DEF Next

LEMMA Invariance == Spec => []IInv
<1>1. Init => IInv /\ ReferenceTyped
  BY InvInit, TypeInit
<1>2. IInv /\ ReferenceTyped /\ [Next]_vars => (IInv /\ ReferenceTyped)'
  BY InvStep, TypeStep DEF IInv
<1> QED BY <1>1, <1>2, PTL DEF Spec

-----------------------------------------------------------------------------
(* The safety properties that the runs check. *)

\* The queue between the threads is first in, first out, and neither loses
\* nor doubles a message (push_back in OnHandleMsg, pop_front in the loop).
THEOREM Fifo == Spec => []QueueIsSuffix
<1>1. IInv => QueueIsSuffix
  BY DEF IInv
<1> QED BY <1>1, Invariance, PTL

\* Each registered handler is called exactly once for each popped message
\* (the range-for over callbacks_).
THEOREM ExactlyOnce == Spec => []EveryHandlerEveryRound
<1>1. IInv => EveryHandlerEveryRound
  BY DEF IInv
<1> QED BY <1>1, Invariance, PTL

\* However the slot of the popped message is reused, a handler is handed the
\* message of its round or a later one (the reference taken before pop_front).
THEOREM NeverStale == Spec => []NoStaleMessage
<1>1. IInv => NoStaleMessage
  BY DEF IInv
<1> QED BY <1>1, Invariance, PTL

-----------------------------------------------------------------------------
(* MsgReceive implements MsgChannel. *)

\* The threads, the mutex and the condition variable are invisible to who
\* registers a handler: each step of the program is a step of the channel
\* (Register, Receive, Take, Call, Finish) or none.
THEOREM Implements == Spec => ChannelSpec
<1>1. Init => Channel!Init
  BY DEF Init, Channel!Init
<1>2. IInv /\ [Next]_vars => [Channel!Next]_Channel!vars
  <2> SUFFICES ASSUME IInv, [Next]_vars
               PROVE  [Channel!Next]_Channel!vars
    OBVIOUS
  <2> USE DEF queueVars, uiVars, conVars, Channel!vars
  <2>1. ASSUME NEW h \in Handler, Register(h)
        PROVE  Channel!Next
    BY <2>1 DEF Register, Channel!Next, Channel!Register
  <2>2. ASSUME NEW m \in Message, OnHandleMsg(m)
        PROVE  Channel!Next
    <3>1. conPc = "deliver" => received'[rounds] = received[rounds]
      BY <2>2, AppendProperties DEF OnHandleMsg, IInv, TypeOK, RoundBounds,
                                    conVars
    <3>2. Channel!Receive(m)
      BY <2>2, <3>1 DEF OnHandleMsg, Channel!Receive
    <3> QED BY <3>2 DEF Channel!Next
  <2>3. CASE PopFront
    <3>1. /\ rounds < Len(received)
          /\ Head(msgs_) = received[rounds + 1]
      BY <2>3, SuffixTail DEF PopFront, IInv, TypeOK, QueueIsSuffix
    <3>2. Channel!Take
      BY <2>3, <3>1 DEF PopFront, Channel!Take
    <3> QED BY <3>2 DEF Channel!Next
  <2>4. ASSUME NEW h \in Handler, CallHandler(h)
        PROVE  Channel!Next
    BY <2>4 DEF CallHandler, Channel!Next, Channel!Call
  <2>5. CASE EndRound
    <3>1. received[rounds] # NoMsg
      <4>1. rounds \in 1 .. Len(received) /\ received \in Seq(Message)
        BY <2>5, LenProperties DEF EndRound, ConGoto, IInv, RoundBounds, TypeOK
      <4> QED BY <4>1, ElementOfSeq, NoMsgAssumption
    <3>2. Channel!Finish
      BY <2>5, <3>1 DEF EndRound, ConGoto, Channel!Finish
    <3> QED BY <3>2 DEF Channel!Next
  <2>6. CASE OpenDialog \/ UnlockPush \/ NotifyAll
    BY <2>6 DEF OpenDialog, UnlockPush, NotifyAll
  <2>7. CASE \/ Lock \/ Wait \/ SpuriousWakeup \/ Reacquire \/ UnlockAwake
             \/ TryLock \/ Drained
    BY <2>7 DEF Lock, Wait, SpuriousWakeup, Reacquire, UnlockAwake, TryLock,
                Drained, ConGoto
  <2>8. CASE UNCHANGED vars
    BY <2>8 DEF vars
  <2> QED BY <2>1, <2>2, <2>3, <2>4, <2>5, <2>6, <2>7, <2>8 DEF Next
<1> QED BY <1>1, <1>2, Invariance, PTL DEF Spec, ChannelSpec, Channel!Spec
=============================================================================
