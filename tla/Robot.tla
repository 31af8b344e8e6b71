------------------------------- MODULE Robot -------------------------------
(***************************************************************************)
(* A message from WeChat to its answer: the helper's hooks (ChatRecord),   *)
(* CMain::OnCopyData, the receive centre (as MsgChannel, which MsgReceive  *)
(* implements), the handlers of MsgHelper.cpp and MsgPush.cpp on its       *)
(* consumer thread, the traffic limit (TrafficControl), and the two pools  *)
(* (as TaskPool, which ThreadPool implements) that fetch the answers and   *)
(* push the messages.                                                      *)
(*                                                                         *)
(* A message is its number in box.  The callback that sends an answer is   *)
(* one step here: what it does about nicknames is in NickName, and about   *)
(* files in Downloads.                                                     *)
(***************************************************************************)
EXTENDS TrafficControl, ChatRecord

CONSTANTS
    Scenes, \* the configurations, each with what may happen under it:
            \*   config    the WX and PUSH sections of the configuration
            \*   traffic   the values for SetLimit, as <<interval, limit>>
            \*   incoming  the messages that may come
            \*   most      bound: how many of them come
            \*   ahead     bound: how many of them wait or are being handled
            \*   early     bound: whether some come before the window is there
            \*   clock     bound: whether time passes
    Hash,   \* std::hash of each id
    NumPush, \* MAX_PUSH_THREAD
    NoTask

ASSUME CallerAssumption == {"group", "private"} \subseteq Caller
ASSUME SceneAssumption ==
    \A s \in Scenes :
        /\ s.traffic \subseteq ConfigInterval \X ConfigLimit
        /\ \A m \in s.incoming : m.kind \in Kind /\ m.says \in Says
ASSUME PoolsAssumption == NumPush \in Nat \ {0} /\ NoTask \notin Nat

VARIABLES
    scene,       \* one of Scenes
    box,         \* history: what WeChat has received
    pictures,    \* the image messages whose pictures have not come
    window,      \* the robot's main window is there
    handlers, pending, taken, owed,  \* the receive centre, as in MsgChannel
    handled,     \* history: the messages all handlers are through with
    granted,     \* history: the messages a task was made for, in order
    askTodo, askRunning, askEnded,   \* CTaskMgr's pool
    g_task_id,
    pushTodo, pushRunning, pushEnded, \* g_pool of MsgPush.cpp; by task id
    pushOf,      \* the message of each push task
    answered,    \* history: [of, to] of the answers and tips, in order
    pushed,      \* history: the messages pushed
    lost,        \* history: messages that found no window, or no picture
    deeds        \* history: [what, of] WeChat did by itself

robotVars == <<scene, box, pictures, window, handlers, pending, taken, owed,
               handled, granted, askTodo, askRunning, askEnded, g_task_id,
               pushTodo, pushRunning, pushEnded, pushOf, answered, pushed,
               lost, deeds>>
channelVars == <<handlers, pending, taken, owed>>
askVars == <<askTodo, askRunning, askEnded, granted>>
pushVars == <<g_task_id, pushTodo, pushRunning, pushEnded, pushOf>>
weChatSide == <<box, pictures, window, lost, deeds>>
ends == <<answered, pushed>>

kHelper == "CMsgHelper"
kPush == "StartMsgPush"

Channel == INSTANCE MsgChannel WITH
    Message <- Nat, Handler <- {kHelper, kPush}, NoMsg <- 0

KeyByChat(i) == box[i].chat

\* AddTask's key: the sender of a question in a group, or the chat.
Key(i) == Asker(box[i])

AskTask == [of : Nat, key : DOMAIN Hash]

\* std::hash is defined for every id.
ASSUME HashAssumption ==
    /\ \A k \in DOMAIN Hash : Hash[k] \in Nat
    /\ \A s \in Scenes : \A m \in s.incoming : Asker(m) \in DOMAIN Hash
    /\ NoTask \notin AskTask

AskPool == INSTANCE TaskPool WITH
    Task <- AskTask, TaskId <- [t \in AskTask |-> Hash[t.key]], Num <- 2,
    todo <- askTodo, running <- askRunning, ended <- askEnded
PushPool == INSTANCE TaskPool WITH
    Task <- Nat, TaskId <- [t \in Nat |-> t], Num <- NumPush,
    todo <- pushTodo, running <- pushRunning, ended <- pushEnded

RobotInit ==
    /\ TrafficInit
    /\ scene \in Scenes
    /\ box = <<>> /\ pictures = {} /\ window = FALSE
    /\ Channel!Init
    /\ handled = <<>> /\ granted = <<>>
    /\ AskPool!Init /\ PushPool!Init /\ g_task_id = 0 /\ pushOf = <<>>
    /\ answered = <<>> /\ pushed = <<>> /\ lost = {} /\ deeds = {}
-----------------------------------------------------------------------------
(* InitInstance: the limit, the handlers, the window.                      *)

ConfigureTraffic ==
    /\ \E t \in scene.traffic : SetLimit(t[1], t[2])
    /\ UNCHANGED robotVars

RegisterHandler(h) ==
    /\ configured /\ ~window /\ h \notin handlers
    /\ h = kPush => kHelper \in handlers
    /\ Channel!Register(h)
    /\ UNCHANGED <<trafficVars, scene, weChatSide, handled, askVars, pushVars, ends>>

OpenMain ==
    /\ kPush \in handlers /\ ~window
    /\ window' = TRUE
    /\ UNCHANGED <<trafficVars, scene, box, pictures, lost, deeds, channelVars,
                   handled, askVars, pushVars, ends>>
-----------------------------------------------------------------------------
(* The helper, and the robot's UI thread.                                  *)

\* CMain::OnCopyData for message i, or no window to send it to.
OnCopyData(i, m) ==
    IF ~window THEN lost' = lost \cup {i} /\ UNCHANGED channelVars
    ELSE /\ UNCHANGED lost
         /\ IF LetThrough(m) THEN Channel!Receive(i) ELSE UNCHANGED channelVars

\* The image case without its return.
SendAtOnce(m) ==
    LET i == Len(box) + 1
    IN  /\ box' = Append(box, m)
        /\ deeds' = deeds \cup {[what |-> a, of |-> i] : a \in Automatic(m)}
        /\ pictures' = IF Waits(m) THEN pictures \cup {i} ELSE pictures
        /\ OnCopyData(i, m)
        /\ UNCHANGED <<trafficVars, scene, window, handled, askVars, pushVars, ends>>

SendWxMessage(m) ==
    LET i == Len(box) + 1
    IN  /\ box' = Append(box, m)
        /\ deeds' = deeds \cup {[what |-> a, of |-> i] : a \in Automatic(m)}
        /\ IF Waits(m)
           THEN pictures' = pictures \cup {i} /\ UNCHANGED <<lost, channelVars>>
           ELSE OnCopyData(i, m) /\ UNCHANGED pictures
        /\ UNCHANGED <<trafficVars, scene, window, handled, askVars, pushVars, ends>>

\* The picture of an image message is saved: too small, it is dropped and the
\* message with it; else SendPicMsg.  PictureQueue tells which message it is.
FnSaveImagesCore(i) ==
    /\ i \in pictures
    /\ pictures' = pictures \ {i}
    /\ \/ lost' = lost \cup {i} /\ UNCHANGED channelVars
       \/ OnCopyData(i, box[i])
    /\ UNCHANGED <<trafficVars, scene, box, window, deeds, handled, askVars, pushVars,
                   ends>>
-----------------------------------------------------------------------------
(* The consumer thread.                                                    *)

Quiet == UNCHANGED <<scene, weChatSide, pushVars>>

\* A question of chat m.chat: refused, with or without the tip, or given to
\* the worker of its key, if it is one that is asked.
Limit(caller, i, asks) ==
    /\ Grant(caller)
    /\ LET verdict == log'[Len(log')].verdict
       IN  /\ answered' = IF verdict = "tipped"
                          THEN Append(answered, [of |-> 0, to |-> box[i].chat])
                          ELSE answered
           /\ IF asks /\ verdict \in {"opened", "granted"}
              THEN /\ AskPool!Add([of |-> i, key |-> Key(i)])
                   /\ granted' = Append(granted, i)
              ELSE UNCHANGED askVars

NoAnswer == UNCHANGED <<trafficVars, answered, askVars>>

\* In a group only a text is asked, though any kind counts for the limit.
HandleGroupChatMsg(i) ==
    IF scene.config.groupOpen /\ (scene.config.chatMode = 0 => Content(box[i]) = "@me")
    THEN Limit("group", i, box[i].kind = "text")
    ELSE NoAnswer

HandlePrivateChatMsg(i) ==
    IF scene.config.privateOpen THEN Limit("private", i, TRUE) ELSE NoAnswer

HandleChatMsg ==
    /\ Channel!Call(kHelper)
    /\ LET m == box[taken]
       IN  IF Content(m) = "@all" THEN NoAnswer
           ELSE IF FromGroup(m) \/ m.chat \in GroupChat THEN HandleGroupChatMsg(taken)
           ELSE HandlePrivateChatMsg(taken)
    /\ UNCHANGED <<pushed, handled>> /\ Quiet

\* A push task under the next id.
onReceiveMsg ==
    /\ Channel!Call(kPush)
    /\ IF scene.config.push
       THEN /\ g_task_id' = g_task_id + 1
            /\ pushOf' = Append(pushOf, taken)
            /\ PushPool!Add(g_task_id')
       ELSE UNCHANGED pushVars
    /\ UNCHANGED <<trafficVars, scene, weChatSide, handled, askVars, ends>>

TakeMessage ==
    /\ Channel!Take
    /\ UNCHANGED <<trafficVars, scene, weChatSide, handled, askVars, pushVars, ends>>

EndRound ==
    /\ Channel!Finish
    /\ handled' = Append(handled, taken)
    /\ UNCHANGED <<trafficVars, scene, weChatSide, askVars, pushVars, ends>>
-----------------------------------------------------------------------------
(* The workers.  Nobody stops the two pools before the program ends, so    *)
(* that no worker ends.                                                    *)

\* COnlineCatTask::execute ...
Execute(w) ==
    /\ AskPool!Begin(w)
    /\ UNCHANGED <<trafficVars, scene, weChatSide, channelVars, handled, granted,
                   pushVars, ends>>

\* ... and its callback: the answer, of whatever kind, goes to the chat.
SendAnswer(w) ==
    /\ AskPool!Finish(w)
    /\ LET i == askRunning[w].of
       IN  answered' = Append(answered, [of |-> i, to |-> box[i].chat])
    /\ UNCHANGED <<trafficVars, scene, weChatSide, channelVars, handled, granted,
                   pushVars, pushed>>

onExecutePushTask(w) ==
    /\ PushPool!Begin(w)
    /\ UNCHANGED <<trafficVars, scene, weChatSide, channelVars, handled, askVars,
                   g_task_id, pushOf, ends>>

\* PostJson has come to its end, well or not: nobody tries again.
Posted(w) ==
    /\ PushPool!Finish(w)
    /\ pushed' = Append(pushed, pushOf[pushRunning[w]])
    /\ UNCHANGED <<trafficVars, scene, weChatSide, channelVars, handled, askVars,
                   g_task_id, pushOf, answered>>
-----------------------------------------------------------------------------
\* Only Grant reads the clock: time that passes while a message is on its way
\* might as well have passed before it came.
TimePasses == scene.clock /\ Len(box) = Cardinality(lost) + Len(handled)

RobotNext ==
    \/ ConfigureTraffic
    \/ \E h \in {kHelper, kPush} : RegisterHandler(h)
    \/ OpenMain
    \/ /\ Len(box) < scene.most /\ (window \/ scene.early)
       /\ Len(box) - Cardinality(lost) - Len(handled) < scene.ahead
       /\ \E m \in scene.incoming : SendWxMessage(m)
    \/ \E i \in pictures : FnSaveImagesCore(i)
    \/ TakeMessage \/ HandleChatMsg \/ onReceiveMsg \/ EndRound
    \/ \E w \in AskPool!Worker : Execute(w) \/ SendAnswer(w)
    \/ \E w \in PushPool!Worker : onExecutePushTask(w) \/ Posted(w)
    \/ TimePasses /\ (Tick \/ SetClockBack) /\ UNCHANGED robotVars

RobotSpec == RobotInit /\ [][RobotNext]_<<trafficVars, robotVars>>
-----------------------------------------------------------------------------
(* Properties. *)

InPlace(s, x) == \E j \in DOMAIN s : s[j] = x

\* The messages the receive centre has got, in its order.
Received == handled \o (IF taken = 0 THEN <<>> ELSE <<taken>>) \o pending

\* Every message that CMain lets through gets to every handler once: none is
\* there twice (g_pic_map keeps an image until its picture has come, and the
\* hook must not send it before), none is missing but for those that found no
\* window, only the images are out of order, and with the push switched on
\* each has one push task, which is in one place.
EveryMessageOnce ==
    /\ \A j, k \in DOMAIN Received : Received[j] = Received[k] => j = k
    /\ {Received[j] : j \in DOMAIN Received} =
           {i \in DOMAIN box : LetThrough(box[i])} \ (pictures \cup lost)
    /\ \A j, k \in DOMAIN Received :
           j < k /\ ~Waits(box[Received[j]]) /\ ~Waits(box[Received[k]])
               => Received[j] < Received[k]
    /\ scene.config.push => \A j \in DOMAIN handled :
           Cardinality({t \in DOMAIN pushOf : pushOf[t] = handled[j]}) = 1
    /\ \A t \in DOMAIN pushOf : Cardinality(
           {w \in PushPool!Worker : pushRunning[w] = t \/ InPlace(pushTodo[w], t)}
           \cup {p \in {NumPush} : InPlace(pushed, pushOf[t])}) = 1

\* What one person asks, in whatever groups, and what is asked in one private
\* chat, is answered in the order in which it was asked, and once: AddTask
\* hashes the id to a worker so that the answers cannot overtake each other,
\* whatever the traffic limit refuses in between.
AnswersInOrder ==
    \A b \in DOMAIN answered : answered[b].of # 0 =>
        /\ \A a \in DOMAIN answered : answered[a].of = answered[b].of => a = b
        /\ \E q \in DOMAIN granted :
               /\ granted[q] = answered[b].of
               /\ \A p \in 1 .. q - 1 :
                      Asker(box[granted[p]]) = Asker(box[granted[q]]) =>
                          \E a \in 1 .. b - 1 : answered[a].of = granted[p]
=============================================================================
