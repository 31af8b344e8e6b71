----------------------------- MODULE MsgChannel -----------------------------
(***************************************************************************)
(* What the receive centre (CMsgReceive) promises to the code that         *)
(* registers a handler: messages are taken in the order in which they were *)
(* received, one at a time, and every registered handler is called exactly *)
(* once for each message taken before the next one is.  Nothing is said of *)
(* threads, of the mutex or of the condition variable: module MsgReceive   *)
(* is shown to implement this one.                                         *)
(***************************************************************************)
EXTENDS Sequences

CONSTANTS Message,  \* the chat messages of the types that CMain lets through
          Handler,  \* the keys under which handlers may be registered
          NoMsg     \* stands for "no message is being handled"

VARIABLES handlers, \* the registered handlers
          pending,  \* the messages received and not yet taken
          taken,    \* the message being handled, or NoMsg
          owed      \* the handlers that have yet to be called for it

vars == <<handlers, pending, taken, owed>>

Init ==
    /\ handlers = {}
    /\ pending = <<>>
    /\ taken = NoMsg
    /\ owed = {}

Register(h) ==
    /\ handlers' = handlers \cup {h}
    /\ UNCHANGED <<pending, taken, owed>>

Receive(m) ==
    /\ pending' = Append(pending, m)
    /\ UNCHANGED <<handlers, taken, owed>>

Take ==
    /\ taken = NoMsg
    /\ pending # <<>>
    /\ taken' = Head(pending)
    /\ pending' = Tail(pending)
    /\ owed' = handlers
    /\ UNCHANGED handlers

Call(h) ==
    /\ h \in owed
    /\ owed' = owed \ {h}
    /\ UNCHANGED <<handlers, pending, taken>>

Finish ==
    /\ taken # NoMsg
    /\ owed = {}
    /\ taken' = NoMsg
    /\ UNCHANGED <<handlers, pending, owed>>

Next ==
    \/ \E h \in Handler : Register(h)
    \/ \E m \in Message : Receive(m)
    \/ Take
    \/ \E h \in Handler : Call(h)
    \/ Finish

Spec == Init /\ [][Next]_vars
=============================================================================
