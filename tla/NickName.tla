------------------------------ MODULE NickName ------------------------------
(***************************************************************************)
(* The answers to the questions asked in groups.  A worker of CTaskMgr's   *)
(* pool (module TaskPool) fetches the answer and sends it to the asker by  *)
(* his nickname.  Where the nickname is not known, CNickNameTaskMgr keeps  *)
(* the answer and asks the helper for the name: the worker blocks in       *)
(* SendMessage until the helper has asked WeChat and the UI thread has     *)
(* handled what the helper reports (ActivateTask), which hands the answers *)
(* kept for that user, one by one, to the thread of m_NotifyQueueService.  *)
(*                                                                         *)
(* A user's answers all go to the worker that the hash of his id selects.  *)
(* The entries of both name maps are modelled by whether they hold a name, *)
(* and operator[] inserts an entry without one.  The maps are read by the  *)
(* workers without a lock: the data race on their nodes is not modelled.   *)
(* Nor is the end of a worker's thread, which only leaves its questions    *)
(* where they are (module AutoForward has it).                             *)
(*                                                                         *)
(* The queue's thread is born before main, while its object is still being *)
(* made, with whatever m_runFlag its memory holds (common_thread, as in    *)
(* ThreadPool): it may end before start() and is never started again.      *)
(***************************************************************************)
EXTENDS Naturals, SequencesExt

CONSTANTS Answer,   \* the tasks of the questions asked
          User,     \* their senders
          Friend,   \* the users on the account's friend list
          Group,    \* their groups, and whatever else a group id may hold
          UserOf,   \* the sender of each question
          GroupOf,  \* the group of each question
          Hash,     \* std::hash of each sender's id
          NoAnswer, \* a thread has no task
          NoUser,   \* ActivateTask is not being called
          Num       \* the workers of CTaskMgr: 2

ASSUME NumAssumption == Num \in Nat \ {0}
ASSUME AnswerAssumption ==
    /\ NoAnswer \notin Answer /\ NoUser \notin User
    /\ UserOf \in [Answer -> User]
    /\ GroupOf \in [Answer -> Group]
    /\ Hash \in [User -> Nat]
    /\ Friend \subseteq User

VARIABLES
    mapFriendList,      \* each user's entry
    mapGroupMemberInfo, \* the <<group, user>> pairs whose nickname is known
    asked,              \* history: the questions handed to the pool, in order
    todo, running, ended, \* CTaskMgr's pool, as in TaskPool
    workerPc,           \* where each worker's task is
    m_mapNickNameTask,  \* the answers kept for each user
    uiPc,               \* where the UI thread is in ActivateTask
    uiFor,              \* ... for which worker
    uiUser,             \* ... and for which user
    uiNext,             \* the index of its loop
    _task_list,         \* the answers handed to m_NotifyQueueService
    named,              \* the answers that were given a nickname
    making,             \* how far the constructor of CNickNameTaskMgr is
    m_runFlag,          \* of m_NotifyQueueService
    notifyPc,           \* where its thread is
    notifyTask,         \* the answer that it executes, or NoAnswer
    sent,               \* history: the answers sent, in order
    listed              \* history: the users the friend list has reported

nameVars == <<mapFriendList, mapGroupMemberInfo, listed>>
poolVars == <<todo, running, ended>>
uiVars == <<uiPc, uiFor, uiUser, uiNext>>
makingVars == <<making, m_runFlag>>
notifyVars == <<notifyPc, notifyTask, makingVars>>
queueVars == <<_task_list, named>>
vars == <<nameVars, asked, poolVars, workerPc, m_mapNickNameTask, uiVars,
          queueVars, notifyVars, sent>>

Pool == INSTANCE TaskPool WITH
    Task <- Answer, NoTask <- NoAnswer,
    TaskId <- [a \in Answer |-> Hash[UserOf[a]]]

Worker == Pool!Worker

TypeOK ==
    /\ mapFriendList \in [User -> {"absent", "empty", "named"}]
    /\ mapGroupMemberInfo \subseteq Group \X User
    /\ asked \in Seq(Answer)
    /\ todo \in [Worker -> Seq(Answer)]
    /\ running \in [Worker -> Answer \cup {NoAnswer}]
    /\ ended \in SUBSET Worker
    /\ workerPc \in [Worker -> {"free", "callback", "addTask", "request"}]
    /\ m_mapNickNameTask \in [User -> Seq(Answer)]
    /\ uiPc \in {"pump", "loop", "clear"}
    /\ uiFor \in Worker
    /\ uiUser \in User \cup {NoUser}
    /\ uiNext \in Nat \ {0}
    /\ _task_list \in Seq(Answer)
    /\ named \in SUBSET Answer
    /\ making \in {"thread", "exec", "started"} /\ m_runFlag \in BOOLEAN
    /\ notifyPc \in {"born", "look", "falling", "blocked", "drain", "run", "ended"}
    /\ notifyTask \in Answer \cup {NoAnswer}
    /\ sent \in Seq(Answer)
    /\ listed \in SUBSET Friend

Init ==
    /\ mapFriendList = [u \in User |-> "absent"]
    /\ mapGroupMemberInfo = {}
    /\ asked = <<>>
    /\ Pool!Init
    /\ workerPc = [w \in Worker |-> "free"]
    /\ m_mapNickNameTask = [u \in User |-> <<>>]
    /\ uiPc = "pump"
    /\ uiFor = 0
    /\ uiUser = NoUser
    /\ uiNext = 1
    /\ _task_list = <<>>
    /\ named = {}
    /\ making = "thread" /\ m_runFlag \in BOOLEAN
    /\ notifyPc = "born"
    /\ notifyTask = NoAnswer
    /\ sent = <<>>
    /\ listed = {}

-----------------------------------------------------------------------------
(* The start of m_NotifyQueueService, before main: the manager is static. *)

Constructing(from, to) ==
    /\ making = from
    /\ making' = to
    /\ UNCHANGED <<nameVars, asked, poolVars, workerPc, m_mapNickNameTask,
                   uiVars, queueVars, notifyPc, notifyTask, sent>>

\* CNotifyQueueService's constructor sets m_exec: "exec".
SetExec == Constructing("thread", "exec") /\ UNCHANGED m_runFlag

\* CNickNameTaskMgr's constructor calls start().
Start == Constructing("exec", "started") /\ m_runFlag' = TRUE

\* main() runs: the threads it starts, and the windows, are there.
Main == making = "started"

\* The thread ends whenever its wait does, flag or no flag.
EndAtTimeout ==
    /\ notifyPc = "born"
    /\ notifyPc' \in {"look", "ended"} /\ m_runFlag' = (notifyPc' = "look")
    /\ UNCHANGED <<nameVars, asked, poolVars, workerPc, m_mapNickNameTask,
                   uiVars, queueVars, notifyTask, making, sent>>

\* The thread of common_thread::run leaves its wait when it sees the flag or
\* after five seconds, so at any time, and goes on only with the flag and m_exec.
BeginRun ==
    /\ notifyPc = "born"
    /\ IF m_runFlag /\ making # "thread"
       THEN notifyPc' = "look" /\ UNCHANGED m_runFlag
       ELSE notifyPc' = "ended" /\ m_runFlag' = FALSE
    /\ UNCHANGED <<nameVars, asked, poolVars, workerPc, m_mapNickNameTask,
                   uiVars, queueVars, notifyTask, making, sent>>

-----------------------------------------------------------------------------
(* The consumer thread of CMsgReceive. *)

\* The tasks go to the workers in turn.
AskInTurn(a) ==
    /\ Main /\ ~Contains(asked, a)
    /\ asked' = Append(asked, a)
    /\ todo' = [todo EXCEPT ![Len(asked) % Num] = Append(@, a)]
    /\ UNCHANGED <<nameVars, running, ended, workerPc, m_mapNickNameTask,
                   uiVars, queueVars, notifyVars, sent>>

\* The end of HandleGroupChatMsg, for a question that Grant lets through.
Ask(a) ==
    /\ Main /\ ~Contains(asked, a)
    /\ asked' = Append(asked, a)
    /\ Pool!Add(a)
    /\ UNCHANGED <<nameVars, workerPc, m_mapNickNameTask, uiVars, queueVars,
                   notifyVars, sent>>

-----------------------------------------------------------------------------
(* A worker of CTaskMgr's pool. *)

\* COnlineCatTask::execute fetches the answer: it always comes to one, if
\* only to a text that says what went wrong.
Respond(w) ==
    /\ Pool!Begin(w)
    /\ workerPc' = [workerPc EXCEPT ![w] = "callback"]
    /\ UNCHANGED <<nameVars, asked, m_mapNickNameTask, uiVars, queueVars,
                   notifyVars, sent>>

\* The answer's callback returns.
Return(w) ==
    /\ Pool!Finish(w)
    /\ workerPc' = [workerPc EXCEPT ![w] = "free"]

InCallback(w) == workerPc[w] = "callback"
Asker(w) == UserOf[running[w]]
Place(w) == <<GroupOf[running[w]], Asker(w)>>

IsFriend(u) == mapFriendList[u] = "named"
Known(w) == IsFriend(Asker(w)) \/ Place(w) \in mapGroupMemberInfo

\* mapFriendList[strSenderID] inserts the entry that it does not find.
LookedUp(u) ==
    [mapFriendList EXCEPT ![u] = IF @ = "absent" THEN "empty" ELSE @]

\* A picture, a file, or the answer to a sender whose id is "NULL": it is sent
\* to the group as it is.
SendPlain(w) ==
    /\ InCallback(w)
    /\ Return(w)
    /\ sent' = Append(sent, running[w])
    /\ UNCHANGED <<nameVars, asked, m_mapNickNameTask, uiVars, queueVars,
                   notifyVars>>

\* A text for a sender whose nickname is known.
SendAtMsg(w) ==
    /\ InCallback(w)
    /\ Known(w)
    /\ Return(w)
    /\ mapFriendList' = LookedUp(Asker(w))
    /\ sent' = Append(sent, running[w])
    /\ UNCHANGED <<mapGroupMemberInfo, listed, asked, m_mapNickNameTask,
                   uiVars, queueVars, notifyVars>>

\* The callback does not find the nickname, and calls addTask.
LookUpInVain(w) ==
    /\ InCallback(w)
    /\ ~Known(w)
    /\ mapFriendList' = LookedUp(Asker(w))
    /\ workerPc' = [workerPc EXCEPT ![w] = "addTask"]
    /\ UNCHANGED <<mapGroupMemberInfo, listed, asked, poolVars,
                   m_mapNickNameTask, uiVars, queueVars, notifyVars, sent>>

Keep(w) ==
    /\ workerPc[w] = "addTask"
    /\ m_mapNickNameTask' =
           [m_mapNickNameTask EXCEPT ![Asker(w)] = Append(@, running[w])]

\* The request is posted: the worker does not wait for the answer, which is
\* here at once.
AddTaskAndPost(w) ==
    /\ Keep(w)
    /\ IF uiPc = "pump"
       THEN uiPc' = "loop" /\ uiFor' = w /\ uiUser' = Asker(w) /\ uiNext' = 1
       ELSE UNCHANGED uiVars
    /\ Return(w)
    /\ UNCHANGED <<nameVars, asked, queueVars, notifyVars, sent>>

\* CNickNameTaskMgr::addTask, up to the request.
AddTask(w) ==
    /\ Keep(w)
    /\ workerPc' = [workerPc EXCEPT ![w] = "request"]
    /\ UNCHANGED <<nameVars, asked, poolVars, uiVars, queueVars, notifyVars,
                   sent>>

\* The worker waits in SendMessage, and nobody has answered it yet.
Waiting(w) == workerPc[w] = "request" /\ ~(uiPc # "pump" /\ uiFor = w)

\* _GetGroupMemberInfo finds no helper, or the helper no main window.
NotFound(w) ==
    /\ Waiting(w)
    /\ Return(w)
    /\ UNCHANGED <<nameVars, asked, m_mapNickNameTask, uiVars, queueVars,
                   notifyVars, sent>>

-----------------------------------------------------------------------------
(* The UI thread: CMain::OnCopyData. *)

\* An entry of the friend list.  insert leaves an entry that is there alone.
GetFriendList(u) ==
    /\ Main /\ uiPc = "pump"
    /\ u \notin listed
    /\ listed' = listed \cup {u}
    /\ mapFriendList' =
           [mapFriendList EXCEPT ![u] = IF @ = "absent" THEN "named" ELSE @]
    /\ UNCHANGED <<mapGroupMemberInfo, asked, poolVars, workerPc,
                   m_mapNickNameTask, uiVars, queueVars, notifyVars, sent>>

\* A member of some group, with his nickname or without.  The helper leaves
\* the group's id unset (GetUserInfoByWxid): it may be any.
ShowChatRoomMembers(g, u) ==
    /\ Main /\ uiPc = "pump"
    /\ \/ mapGroupMemberInfo' = mapGroupMemberInfo \cup {<<g, u>>}
       \/ mapGroupMemberInfo' = mapGroupMemberInfo \ {<<g, u>>}
    /\ UNCHANGED <<mapFriendList, listed, asked, poolVars, workerPc,
                   m_mapNickNameTask, uiVars, queueVars, notifyVars, sent>>

\* WeChat has no nickname for the user the worker asks about: ActivateTask
\* returns and the answers stay.
ActivateWithoutName(w) ==
    /\ uiPc = "pump"
    /\ workerPc[w] = "request"
    /\ mapGroupMemberInfo' = mapGroupMemberInfo \ {Place(w)}
    /\ Return(w)
    /\ UNCHANGED <<mapFriendList, listed, asked, m_mapNickNameTask, uiVars,
                   queueVars, notifyVars, sent>>

\* ... and here it has one: ActivateTask goes on to its loop.
ActivateTask(w) ==
    /\ uiPc = "pump"
    /\ workerPc[w] = "request"
    /\ mapGroupMemberInfo' = mapGroupMemberInfo \cup {Place(w)}
    /\ uiPc' = "loop" /\ uiFor' = w /\ uiUser' = Asker(w) /\ uiNext' = 1
    /\ UNCHANGED <<mapFriendList, listed, asked, poolVars, workerPc,
                   m_mapNickNameTask, queueVars, notifyVars, sent>>

Kept == m_mapNickNameTask[uiUser]

\* The answer is queued before it is given the nickname, which is then lost.
QueueUnnamed ==
    /\ uiPc = "loop" /\ uiNext <= Len(Kept)
    /\ _task_list' = Append(_task_list, Kept[uiNext])
    /\ notifyPc' = IF notifyPc = "blocked" THEN "look" ELSE notifyPc
    /\ uiNext' = uiNext + 1
    /\ UNCHANGED <<nameVars, asked, poolVars, workerPc, m_mapNickNameTask,
                   uiPc, uiFor, uiUser, notifyTask, makingVars, named, sent>>

\* One iteration of the loop.  The notification wakes a thread that sleeps.
QueueNext ==
    /\ uiPc = "loop" /\ uiNext <= Len(Kept)
    /\ named' = named \cup {Kept[uiNext]}
    /\ _task_list' = Append(_task_list, Kept[uiNext])
    /\ notifyPc' = IF notifyPc = "blocked" THEN "look" ELSE notifyPc
    /\ uiNext' = uiNext + 1
    /\ UNCHANGED <<nameVars, asked, poolVars, workerPc, m_mapNickNameTask,
                   uiPc, uiFor, uiUser, notifyTask, makingVars, sent>>

EndLoop ==
    /\ uiPc = "loop" /\ uiNext > Len(Kept)
    /\ uiPc' = "clear"
    /\ UNCHANGED <<nameVars, asked, poolVars, workerPc, m_mapNickNameTask,
                   uiFor, uiUser, uiNext, queueVars, notifyVars, sent>>

\* ActivateTask returns to OnCopyData, and the worker's SendMessage to it.
UiReturn ==
    /\ uiPc' = "pump" /\ uiFor' = 0 /\ uiUser' = NoUser /\ uiNext' = 1
    /\ Return(uiFor)

\* The answers are not cleared.
ReturnWithoutClear ==
    /\ uiPc = "clear"
    /\ UiReturn
    /\ UNCHANGED <<nameVars, asked, m_mapNickNameTask, queueVars, notifyVars,
                   sent>>

Clear ==
    /\ uiPc = "clear"
    /\ m_mapNickNameTask' = [m_mapNickNameTask EXCEPT ![uiUser] = <<>>]
    /\ UiReturn
    /\ UNCHANGED <<nameVars, asked, queueVars, notifyVars, sent>>

-----------------------------------------------------------------------------
(* The thread of m_NotifyQueueService. *)

NotifyGoto(from, to) ==
    /\ notifyPc = from
    /\ notifyPc' = to
    /\ UNCHANGED <<nameVars, asked, poolVars, workerPc, m_mapNickNameTask,
                   uiVars, queueVars, notifyTask, makingVars, sent>>

\* wait_for looks at its predicate holding m_cvMutex, which addTask does not
\* take: a task may be added, and its notification lost, before the thread
\* sleeps.
SeeTasks == _task_list # <<>> /\ NotifyGoto("look", "drain")
SeeNoTasks == _task_list = <<>> /\ NotifyGoto("look", "falling")
Sleep == NotifyGoto("falling", "blocked")
SpuriousWakeup == NotifyGoto("blocked", "look")

\* wait() in place of wait_for().
NeverTimeout == FALSE /\ NotifyGoto("blocked", "drain")

\* One second has passed.
Timeout == NotifyGoto("blocked", "drain")

\* The list is empty: execute returns, and run calls it again.
Drained == _task_list = <<>> /\ NotifyGoto("drain", "look")

Pop ==
    /\ notifyPc = "drain"
    /\ _task_list # <<>>
    /\ notifyTask' = Head(_task_list)
    /\ _task_list' = Tail(_task_list)
    /\ notifyPc' = "run"
    /\ UNCHANGED <<nameVars, asked, poolVars, workerPc, m_mapNickNameTask,
                   uiVars, makingVars, named, sent>>

\* The task's callback sends the answer if it was given a nickname; the task
\* is deleted either way.
Execute ==
    /\ notifyPc = "run"
    /\ sent' = IF notifyTask \in named THEN Append(sent, notifyTask) ELSE sent
    /\ notifyTask' = NoAnswer
    /\ notifyPc' = "drain"
    /\ UNCHANGED <<nameVars, asked, poolVars, workerPc, m_mapNickNameTask,
                   uiVars, queueVars, makingVars>>

-----------------------------------------------------------------------------
Callback(w) ==
    SendPlain(w) \/ SendAtMsg(w) \/ LookUpInVain(w) \/ AddTask(w)
Activation(w) == NotFound(w) \/ ActivateWithoutName(w) \/ ActivateTask(w)
UiLoop == QueueNext \/ EndLoop \/ Clear
NotifyStep ==
    BeginRun \/ SeeTasks \/ SeeNoTasks \/ Sleep \/ Timeout \/ Drained \/ Pop \/ Execute

Next ==
    \/ SetExec
    \/ Start
    \/ BeginRun
    \/ \E a \in Answer : Ask(a)
    \/ \E w \in Worker :
           Respond(w) \/ SendPlain(w) \/ SendAtMsg(w) \/ LookUpInVain(w)
               \/ AddTask(w) \/ NotFound(w) \/ ActivateWithoutName(w) \/ ActivateTask(w)
    \/ \E u \in Friend : GetFriendList(u)
    \/ \E g \in Group, u \in User : ShowChatRoomMembers(g, u)
    \/ QueueNext
    \/ EndLoop
    \/ Clear
    \/ SeeTasks
    \/ SeeNoTasks
    \/ Sleep
    \/ SpuriousWakeup
    \/ Timeout
    \/ Drained
    \/ Pop
    \/ Execute

Spec == Init /\ [][Next]_vars

\* The threads run: the one that comes to main, the workers, the helper's
\* answers included, the UI thread, and the queue's thread, whose waits end
\* after a second, and after five at its start.
Fairness ==
    /\ \A w \in Worker : WF_vars(Respond(w)) /\ WF_vars(Callback(w))
                             /\ WF_vars(Activation(w))
    /\ WF_vars(SetExec \/ Start)
    /\ WF_vars(UiLoop)
    /\ WF_vars(NotifyStep)

FairSpec == Spec /\ Fairness

-----------------------------------------------------------------------------
(* Properties. *)

Times(a, s) == Cardinality({ i \in 1 .. Len(s) : s[i] = a })

\* The answers kept for u and not yet queued by the loop of ActivateTask.
StillKept(u) ==
    IF uiUser = u
    THEN SubSeq(m_mapNickNameTask[u], uiNext, Len(m_mapNickNameTask[u]))
    ELSE m_mapNickNameTask[u]

\* No question is answered twice and no answer is lost: each is in exactly one
\* place, with the pool, in a callback, kept by addTask, queued by ActivateTask,
\* with the queue's thread, or sent.
InOnePlace ==
    \A a \in Answer :
        LET inPool == { w \in Worker : Contains(todo[w], a) }
            inHand == { w \in Worker :
                            running[w] = a /\ workerPc[w] \in {"callback", "addTask"} }
            places == Cardinality(inPool \cup inHand)
                      + Times(a, StillKept(UserOf[a]))
                      + Times(a, _task_list)
                      + (IF notifyTask = a THEN 1 ELSE 0)
                      + Times(a, sent)
        IN  places = (IF Contains(asked, a) THEN 1 ELSE 0)

\* An answer that the queue's thread takes has its nickname: it is not dropped
\* by its callback ("get nickname error").
NeverNameless == notifyTask # NoAnswer => notifyTask \in named

\* The answers of one user that waited for his nickname are sent in the order
\* in which he asked.  (An answer that did not wait may overtake them.)
WaitedInOrder ==
    \A i, j \in 1 .. Len(sent) :
        /\ i < j
        /\ {sent[i], sent[j]} \subseteq named
        /\ UserOf[sent[i]] = UserOf[sent[j]]
        => \E k, l \in 1 .. Len(asked) :
               k < l /\ asked[k] = sent[i] /\ asked[l] = sent[j]

\* ActivateTask walks the vector of a user without the lock: while it does,
\* nobody adds to it.
NotAddedWhileWalked ==
    [][uiPc # "pump" /\ uiPc' # "pump"
           => m_mapNickNameTask'[uiUser] = Kept]_vars

\* The thread of m_NotifyQueueService ends only where start() comes too late
\* for it, which happens before main(): not once it was started.
EndedUnstarted ==
    [][notifyPc' = "ended" /\ notifyPc # "ended" => making # "started"]_vars

\* An answer that waits when its user's nickname comes is sent, unless the
\* queue's thread has ended; and that it does only unstarted.
NamedIsSent ==
    /\ EndedUnstarted
    /\ \A a \in Answer :
           (uiPc = "loop" /\ Contains(Kept, a))
               ~> (Contains(sent, a) \/ notifyPc = "ended")

\* "防止漏掉联系人" (FriendList.cpp): a friend whom the helper reports is in the
\* friend list with his name.
FriendNameKept == \A u \in listed : IsFriend(u)
=============================================================================
