----------------------------- MODULE MsgReceive -----------------------------
(***************************************************************************)
(* CMsgReceive: the queue between the UI thread, which receives a chat     *)
(* message in CMain::OnCopyData, and the detached consumer thread, which   *)
(* hands each message to every registered handler.                         *)
(*                                                                         *)
(* Threads.  The UI thread registers the handlers while InitInstance runs  *)
(* and from then on only calls OnHandleMsg.  The consumer thread is        *)
(* started by a static initialiser, before any handler exists.  Every      *)
(* access to the mutex, to the condition variable and to the queue is a    *)
(* step of its own.  A failed try_lock sleeps and tries again: it changes  *)
(* nothing and is not a step.  thread_run_ is always true: the singleton   *)
(* is never destroyed.                                                     *)
(*                                                                         *)
(* The reference msg.  The consumer takes a reference to the front         *)
(* element, pops it and uses the reference afterwards.  The popped slot    *)
(* keeps its bytes until a later push_back reuses it, so a push during a   *)
(* round may or may not replace what the reference reads.                  *)
(***************************************************************************)
EXTENDS Naturals, Sequences

CONSTANTS Message,  \* chat messages of the types OnCopyData lets through
          Handler,  \* "CMsgAutoForward", "CMsgHelper", "StartMsgPush"
          NoMsg,    \* the reference before the first pop
          MaxMsgs   \* bound: how many messages are received

ASSUME NoMsgAssumption == NoMsg \notin Message
ASSUME MaxMsgsAssumption == MaxMsgs \in Nat

VARIABLES
    callbacks_, \* the keys of callbacks_
    msgs_,      \* the queue
    mutex_,     \* who holds mutex_
    uiPc,       \* where the UI thread is
    conPc,      \* where the consumer thread is
    msg,        \* what the consumer's reference reads now
    left,       \* the handlers the round has yet to call
    received,   \* history: the messages pushed, in order
    rounds,     \* history: how many messages the consumer has popped
    handed      \* history: what each handler was called with, in order

queueVars == <<msgs_, mutex_>>
uiVars == <<callbacks_, uiPc>>
conVars == <<conPc, left, rounds, handed>>
vars == <<callbacks_, msgs_, mutex_, uiPc, conPc, msg, left, received,
          rounds, handed>>

Owner == {"free", "ui", "consumer"}
UiLoc == {"startup", "idle", "pushed", "notify"}
ConLoc == {"top", "wait", "waiting", "woken", "awake", "try", "locked",
           "deliver"}

\* A small sanity check on shapes: the round calls registered handlers only.
TypeOK ==
    /\ callbacks_ \in SUBSET Handler
    /\ msgs_ \in Seq(Message)
    /\ mutex_ \in Owner
    /\ uiPc \in UiLoc
    /\ conPc \in ConLoc
    /\ msg \in Message \cup {NoMsg}
    /\ left \in SUBSET callbacks_
    /\ received \in Seq(Message)
    /\ rounds \in Nat
    /\ handed \in [Handler -> Seq(Message)]

Init ==
    /\ callbacks_ = {}
    /\ msgs_ = <<>>
    /\ mutex_ = "free"
    /\ uiPc = "startup"
    /\ conPc = "top"
    /\ msg = NoMsg
    /\ left = {}
    /\ received = <<>>
    /\ rounds = 0
    /\ handed = [h \in Handler |-> <<>>]

-----------------------------------------------------------------------------
(* The UI thread. *)

\* Register is called from StartAutoForward, CMsgHelper::Init and
\* StartHttpMsgPush, each in InitInstance and before the first dialog.
Register(h) ==
    /\ uiPc = "startup"
    /\ callbacks_' = callbacks_ \cup {h}
    /\ UNCHANGED <<queueVars, uiPc, conVars, msg, received>>

\* InitInstance opens the dialog: from now on the UI thread pumps messages.
OpenDialog ==
    /\ uiPc = "startup"
    /\ uiPc' = "idle"
    /\ UNCHANGED <<queueVars, callbacks_, conVars, msg, received>>

\* The slot that the consumer's reference points to may be the one that this
\* push_back fills.
Overwritten(m) == IF conPc = "deliver" THEN {msg, m} ELSE {msg}

\* OnHandleMsg takes the lock and pushes.
\* A variant that pushes at the wrong end.
PushFront(m) ==
    /\ uiPc = "idle"
    /\ mutex_ = "free"
    /\ Len(received) < MaxMsgs
    /\ mutex_' = "ui"
    /\ msgs_' = <<m>> \o msgs_
    /\ received' = Append(received, m)
    /\ msg' \in Overwritten(m)
    /\ uiPc' = "pushed"
    /\ UNCHANGED <<callbacks_, conVars>>

OnHandleMsg(m) ==
    /\ uiPc = "idle"
    /\ mutex_ = "free"
    /\ Len(received) < MaxMsgs
    /\ mutex_' = "ui"
    /\ msgs_' = Append(msgs_, m)
    /\ received' = Append(received, m)
    /\ msg' \in Overwritten(m)
    /\ uiPc' = "pushed"
    /\ UNCHANGED <<callbacks_, conVars>>

\* The end of the block releases the lock ...
UnlockPush ==
    /\ uiPc = "pushed"
    /\ mutex_' = "free"
    /\ uiPc' = "notify"
    /\ UNCHANGED <<callbacks_, msgs_, conVars, msg, received>>

ForgetNotify ==
    /\ uiPc = "notify"
    /\ uiPc' = "idle"
    /\ UNCHANGED <<callbacks_, queueVars, conVars, msg, received>>

\* ... and only then is the condition variable notified: a consumer that is
\* not waiting at that moment does not hear it.
NotifyAll ==
    /\ uiPc = "notify"
    /\ uiPc' = "idle"
    /\ conPc' = IF conPc = "waiting" THEN "woken" ELSE conPc
    /\ UNCHANGED <<callbacks_, queueVars, msg, left, received, rounds, handed>>

-----------------------------------------------------------------------------
(* The consumer thread. *)

\* The consumer goes from one program location to another with the mutex in
\* the hands of owner; the queue and the histories stay as they are.
ConGoto(from, to, owner) ==
    /\ conPc = from
    /\ conPc' = to
    /\ mutex_' = owner
    /\ UNCHANGED <<uiVars, msgs_, msg, left, received, rounds, handed>>

\* unique_lock at the top of the outer loop.
Lock == mutex_ = "free" /\ ConGoto("top", "wait", "consumer")

\* cv_.wait without a predicate: the lock is released and the thread blocks
\* whatever the queue holds.
Wait == ConGoto("wait", "waiting", "free")

\* The standard lets cv_.wait return for no reason.
SpuriousWakeup == ConGoto("waiting", "woken", mutex_)

\* cv_.wait takes the lock again before it returns, and lk.unlock releases it.
Reacquire == mutex_ = "free" /\ ConGoto("woken", "awake", "consumer")
UnlockAwake == ConGoto("awake", "try", "free")

\* try_lock succeeds.
TryLock == mutex_ = "free" /\ ConGoto("try", "locked", "consumer")

\* The queue is empty: back to the outer loop, and to cv_.wait.
Drained == msgs_ = <<>> /\ ConGoto("locked", "top", "free")

\* The reference is bound once, outside the loop: it keeps the first message.
PopBehindReference ==
    /\ conPc = "locked"
    /\ msgs_ # <<>>
    /\ msg' = IF msg = NoMsg THEN Head(msgs_) ELSE msg
    /\ msgs_' = Tail(msgs_)
    /\ mutex_' = "free"
    /\ left' = callbacks_
    /\ rounds' = rounds + 1
    /\ conPc' = "deliver"
    /\ UNCHANGED <<uiVars, received, handed>>

PopFront ==
    /\ conPc = "locked"
    /\ msgs_ # <<>>
    /\ msg' = Head(msgs_)
    /\ msgs_' = Tail(msgs_)
    /\ mutex_' = "free"
    /\ left' = callbacks_
    /\ rounds' = rounds + 1
    /\ conPc' = "deliver"
    /\ UNCHANGED <<uiVars, received, handed>>

\* The range-for stops after one handler, as if that one had consumed it.
CallFirstOnly(h) ==
    /\ conPc = "deliver"
    /\ h \in left
    /\ handed' = [handed EXCEPT ![h] = Append(@, msg)]
    /\ left' = {}
    /\ UNCHANGED <<uiVars, queueVars, conPc, msg, received, rounds>>

\* One iteration of the range-for: a handler reads msg through the reference.
CallHandler(h) ==
    /\ conPc = "deliver"
    /\ h \in left
    /\ handed' = [handed EXCEPT ![h] = Append(@, msg)]
    /\ left' = left \ {h}
    /\ UNCHANGED <<uiVars, queueVars, conPc, msg, received, rounds>>

\* One message per wake-up, as a plain "if" in place of the inner loop.
EndRoundToTop ==
    /\ left = {}
    /\ ConGoto("deliver", "top", mutex_)

\* Every handler has been called: try the queue again.
EndRound == left = {} /\ ConGoto("deliver", "try", mutex_)

-----------------------------------------------------------------------------
UiStep == UnlockPush \/ NotifyAll

ConsumerStep ==
    \/ Lock \/ Wait \/ Reacquire \/ UnlockAwake \/ TryLock \/ Drained
    \/ PopFront \/ EndRound
    \/ \E h \in Handler : CallHandler(h)

Next ==
    \/ \E h \in Handler : Register(h)
    \/ OpenDialog
    \/ \E m \in Message : OnHandleMsg(m)
    \/ UnlockPush
    \/ NotifyAll
    \/ Lock
    \/ Wait
    \/ SpuriousWakeup
    \/ Reacquire
    \/ UnlockAwake
    \/ TryLock
    \/ Drained
    \/ PopFront
    \/ \E h \in Handler : CallHandler(h)
    \/ EndRound

Spec == Init /\ [][Next]_vars

\* Both threads run when they can, and a handler returns.  The mutex is not
\* held for ever by either, but a thread that wants it may find it taken again
\* and again, so a step that takes it needs the stronger fairness.
Fairness ==
    /\ WF_vars(UiStep)
    /\ WF_vars(ConsumerStep)
    /\ SF_vars(Lock \/ Reacquire \/ TryLock)

FairSpec == Spec /\ Fairness

-----------------------------------------------------------------------------
(* Properties. *)

\* First in, first out, nothing lost and nothing doubled in the queue: what
\* is queued is exactly what was received and not yet popped, in that order.
QueueIsSuffix ==
    msgs_ = SubSeq(received, rounds + 1, Len(received))

\* Each handler registered has been called once for each popped message, the
\* current one excepted while it is still to be called for it.
EveryHandlerEveryRound ==
    \A h \in Handler :
        Len(handed[h]) =
            IF h \notin callbacks_ THEN 0
            ELSE IF h \in left THEN rounds - 1 ELSE rounds

\* The dangling reference never shows a handler anything older than the
\* message of its round: an overwritten slot holds a later message.
NoStaleMessage ==
    \A h \in Handler : \A i \in 1 .. Len(handed[h]) :
        \E j \in i .. Len(received) : handed[h][i] = received[j]

\* A push that finds the consumer waiting is not lost: the wake-up it sends
\* makes the consumer empty the queue, with the messages stranded before.
NotifiedWaiterDrains ==
    (conPc = "waiting" /\ uiPc = "notify") ~> (msgs_ = <<>>)

\* "收到新消息回调" (MsgReceive.h): a message received is called back.
EveryMessageHandled ==
    \A n \in 1 .. MaxMsgs : (Len(received) >= n) ~> (rounds >= n)

\* Register's callback takes the message received: what a handler sees in
\* its i-th call is the i-th message.
HandlerSeesItsMessage ==
    \A h \in Handler : \A i \in 1 .. Len(handed[h]) :
        handed[h][i] = received[i]

\* The receive centre implements the channel it promises.
Channel == INSTANCE MsgChannel WITH
    handlers <- callbacks_,
    pending <- msgs_,
    taken <- IF conPc = "deliver" THEN received[rounds] ELSE NoMsg,
    owed <- left

ChannelSpec == Channel!Spec
=============================================================================
