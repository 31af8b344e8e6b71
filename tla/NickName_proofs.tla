--------------------------- MODULE NickName_proofs ---------------------------
(***************************************************************************)
(* Proofs about NickName, for any questions, users, groups and workers:    *)
(* its types; that no answer reaches the queue's thread without a          *)
(* nickname; that nobody adds to the vector that ActivateTask walks; that  *)
(* no answer is lost or doubled on its way; and that the answers of a user *)
(* that waited for his nickname are sent in the order of his questions.    *)
(*                                                                         *)
(* The walk is no matter of locks.  A user's questions are all with the    *)
(* worker that the hash of his id selects (Affinity), a worker is in one   *)
(* callback at a time (InHand), and the worker whose user ActivateTask     *)
(* serves waits in SendMessage until it returns (Served).                  *)
(*                                                                         *)
(* That an answer is in one place is a sum over five places (OnceInv),     *)
(* which every step keeps: it takes as many from one place as it adds to   *)
(* another.  The order is that of six places, from the answers sent back   *)
(* to the worker's list (At): of two answers to one user the one ahead was *)
(* asked first (OrderInv), and every step moves the head of a place to the *)
(* end of the next one.                                                    *)
(***************************************************************************)
EXTENDS NickName, FiniteSetTheorems, SequenceTheorems, TLAPS

\* A question is with the worker that its user's hash selects.
Affinity ==
    \A w \in Worker :
        /\ running[w] # NoAnswer => Pool!WorkerOf(running[w]) = w
        /\ \A i \in 1 .. Len(todo[w]) : Pool!WorkerOf(todo[w][i]) = w

\* A worker has a question in hand exactly while it is in its callback.
InHand == \A w \in Worker : workerPc[w] = "free" <=> running[w] = NoAnswer

\* While ActivateTask runs, the worker that asked for the name waits for it.
Served ==
    uiPc # "pump" =>
        /\ uiUser \in User
        /\ workerPc[uiFor] = "request"
        /\ Asker(uiFor) = uiUser

\* What is queued has its nickname.
QueuedNamed == \A i \in 1 .. Len(_task_list) : _task_list[i] \in named

IInv ==
    /\ TypeOK
    /\ Affinity
    /\ InHand
    /\ Served
    /\ QueuedNamed
    /\ NeverNameless

-----------------------------------------------------------------------------
(* Types. *)

LEMMA WorkerOfType == \A a \in Answer : Pool!WorkerOf(a) \in Worker
  BY NumAssumption, AnswerAssumption DEF Pool!WorkerOf, Worker, Pool!Worker

\* Two questions of one user have the same worker.
LEMMA SameUser ==
    ASSUME NEW a \in Answer, NEW b \in Answer, UserOf[a] = UserOf[b]
    PROVE  Pool!WorkerOf(a) = Pool!WorkerOf(b)
  BY DEF Pool!WorkerOf

LEMMA TypeInit == Init => TypeOK
<1> SUFFICES ASSUME Init PROVE TypeOK
  OBVIOUS
<1>1. 0 \in Worker /\ <<>> \in Seq(Answer)
  BY NumAssumption DEF Worker, Pool!Worker
<1> QED BY <1>1 DEF Init, TypeOK, Pool!Init, Worker

\* What the end of a callback does to the variables it changes.
LEMMA ReturnTypes ==
    ASSUME TypeOK, NEW w \in Worker, Return(w)
    PROVE  /\ todo' \in [Worker -> Seq(Answer)]
           /\ running' \in [Worker -> Answer \cup {NoAnswer}]
           /\ ended' \in SUBSET Worker
           /\ workerPc' \in [Worker -> {"free", "callback", "addTask", "request"}]
  BY DEF TypeOK, Return, Pool!Finish

\* A worker in its callback has a question in hand.
LEMMA HandTypes ==
    ASSUME TypeOK, InHand, NEW w \in Worker, workerPc[w] # "free"
    PROVE  running[w] \in Answer /\ Asker(w) \in User
  BY AnswerAssumption DEF TypeOK, InHand, Asker

LEMMA TypeStep == TypeOK /\ InHand /\ Served /\ [Next]_vars => TypeOK'
<1> SUFFICES ASSUME TypeOK, InHand, Served, [Next]_vars PROVE TypeOK'
  OBVIOUS
<1> USE DEF nameVars, poolVars, uiVars, queueVars, notifyVars, makingVars
<1>0. 0 \in Worker
  BY NumAssumption DEF Worker, Pool!Worker
<1>1. ASSUME NEW a \in Answer, Ask(a) PROVE TypeOK'
  BY <1>1, WorkerOfType DEF TypeOK, Ask, Pool!Add
<1>2. ASSUME NEW w \in Worker, Respond(w) PROVE TypeOK'
  BY <1>2 DEF TypeOK, Respond, Pool!Begin
<1>3. ASSUME NEW w \in Worker, SendPlain(w) PROVE TypeOK'
  BY <1>3, ReturnTypes, HandTypes DEF TypeOK, SendPlain, InCallback
<1>4. ASSUME NEW w \in Worker, SendAtMsg(w) PROVE TypeOK'
  BY <1>4, ReturnTypes, HandTypes, SMTT(30) DEF TypeOK, SendAtMsg, InCallback, LookedUp
<1>5. ASSUME NEW w \in Worker, LookUpInVain(w) PROVE TypeOK'
  BY <1>5 DEF TypeOK, LookUpInVain, LookedUp
<1>6. ASSUME NEW w \in Worker, AddTask(w) PROVE TypeOK'
  BY <1>6, HandTypes DEF TypeOK, AddTask, Keep
<1>7. ASSUME NEW w \in Worker, NotFound(w) PROVE TypeOK'
  BY <1>7, ReturnTypes DEF TypeOK, NotFound
<1>8. ASSUME NEW w \in Worker, ActivateWithoutName(w) PROVE TypeOK'
  BY <1>8, ReturnTypes DEF TypeOK, ActivateWithoutName
<1>9. ASSUME NEW w \in Worker, ActivateTask(w) PROVE TypeOK'
  <2>1. Place(w) \in Group \X User
    BY <1>9, HandTypes, AnswerAssumption DEF ActivateTask, Place
  <2> QED BY <1>9, <2>1, HandTypes, SMTT(30) DEF TypeOK, ActivateTask
<1>10. ASSUME NEW u \in Friend, GetFriendList(u) PROVE TypeOK'
  BY <1>10, AnswerAssumption DEF TypeOK, GetFriendList
<1>11. ASSUME NEW g \in Group, NEW u \in User, ShowChatRoomMembers(g, u)
       PROVE  TypeOK'
  BY <1>11 DEF TypeOK, ShowChatRoomMembers
<1>12. CASE QueueNext
  <2>1. Kept \in Seq(Answer) /\ uiNext \in 1 .. Len(Kept)
    BY <1>12 DEF QueueNext, TypeOK, Served, Kept
  <2> QED BY <1>12, <2>1 DEF TypeOK, QueueNext
<1>13. CASE EndLoop
  BY <1>13 DEF TypeOK, EndLoop
<1>14. CASE Clear
  <2>1. Return(uiFor) /\ uiFor \in Worker
    BY <1>14 DEF Clear, UiReturn, TypeOK
  <2>2. m_mapNickNameTask' \in [User -> Seq(Answer)]
    <3>1. <<>> \in Seq(Answer)
      OBVIOUS
    <3> QED BY <1>14, <3>1 DEF Clear, TypeOK
  <2>3. /\ todo' \in [Worker -> Seq(Answer)]
        /\ running' \in [Worker -> Answer \cup {NoAnswer}]
        /\ ended' \in SUBSET Worker
        /\ workerPc' \in [Worker -> {"free", "callback", "addTask", "request"}]
    BY <2>1, ReturnTypes
  <2>4. uiPc' = "pump" /\ uiFor' = 0 /\ uiUser' = NoUser /\ uiNext' = 1
    BY <1>14 DEF Clear, UiReturn
  <2>5. UNCHANGED <<nameVars, asked, queueVars, notifyVars, sent>>
    BY <1>14 DEF Clear
  <2> QED BY <1>0, <2>2, <2>3, <2>4, <2>5 DEF TypeOK
<1>15. ASSUME NEW from, NEW to \in {"look", "falling", "blocked", "drain"},
              NotifyGoto(from, to)
       PROVE  TypeOK'
  BY <1>15 DEF TypeOK, NotifyGoto
<1>16. CASE Pop
  BY <1>16 DEF TypeOK, Pop
<1>17. CASE Execute
  BY <1>17 DEF TypeOK, Execute
<1>18. CASE UNCHANGED vars
  BY <1>18 DEF TypeOK, vars
<1>20. CASE SetExec \/ Start \/ BeginRun
  BY <1>20 DEF TypeOK, SetExec, Start, Constructing, BeginRun
<1>19. CASE SeeTasks \/ SeeNoTasks \/ Sleep \/ SpuriousWakeup \/ Timeout \/ Drained
  BY <1>15, <1>19 DEF SeeTasks, SeeNoTasks, Sleep, SpuriousWakeup, Timeout, Drained
<1> QED
  BY <1>1, <1>2, <1>3, <1>4, <1>5, <1>6, <1>7, <1>8, <1>9, <1>10, <1>11,
     <1>12, <1>13, <1>14, <1>16, <1>17, <1>18, <1>19, <1>20 DEF Next

-----------------------------------------------------------------------------
(* Workers and their questions. *)

LEMMA AffinityStep ==
    TypeOK /\ Affinity /\ InHand /\ Served /\ [Next]_vars
        => (Affinity /\ InHand)'
<1> SUFFICES ASSUME TypeOK, Affinity, InHand, Served, [Next]_vars
             PROVE  (Affinity /\ InHand)'
  OBVIOUS
<1> USE DEF nameVars, poolVars, uiVars, queueVars, notifyVars, makingVars
<1>1. ASSUME UNCHANGED <<todo, running, workerPc>> PROVE (Affinity /\ InHand)'
  BY <1>1 DEF Affinity, InHand
<1>2. ASSUME NEW w \in Worker, workerPc[w] # "free", Return(w)
      PROVE  (Affinity /\ InHand)'
  BY <1>2 DEF TypeOK, Affinity, InHand, Return, Pool!Finish
<1>3. ASSUME NEW w \in Worker, workerPc[w] # "free",
             NEW to \in {"addTask", "request"},
             workerPc' = [workerPc EXCEPT ![w] = to],
             UNCHANGED poolVars
      PROVE  (Affinity /\ InHand)'
  BY <1>3 DEF TypeOK, Affinity, InHand
<1>4. ASSUME NEW a \in Answer, Ask(a) PROVE (Affinity /\ InHand)'
  <2>1. UNCHANGED <<running, workerPc>>
    BY <1>4 DEF Ask, Pool!Add
  <2>2. ASSUME NEW w \in Worker, NEW i \in 1 .. Len(todo'[w])
        PROVE  Pool!WorkerOf(todo'[w][i]) = w
    <3>1. CASE w = Pool!WorkerOf(a)
      <4>1. todo'[w] = Append(todo[w], a) /\ todo[w] \in Seq(Answer)
        BY <1>4, <3>1 DEF Ask, Pool!Add, TypeOK
      <4>2. \/ i \in 1 .. Len(todo[w]) /\ todo'[w][i] = todo[w][i]
            \/ todo'[w][i] = a
        BY <2>2, <4>1
      <4> QED BY <3>1, <4>2 DEF Affinity
    <3>2. CASE w # Pool!WorkerOf(a)
      BY <1>4, <2>2, <3>2 DEF Ask, Pool!Add, TypeOK, Affinity
    <3> QED BY <3>1, <3>2
  <2> QED BY <2>1, <2>2 DEF Affinity, InHand
<1>5. ASSUME NEW w \in Worker, Respond(w) PROVE (Affinity /\ InHand)'
  <2>1. /\ todo[w] \in Seq(Answer) /\ todo[w] # <<>>
        /\ running' = [running EXCEPT ![w] = Head(todo[w])]
        /\ todo' = [todo EXCEPT ![w] = Tail(@)]
        /\ workerPc' = [workerPc EXCEPT ![w] = "callback"]
    BY <1>5 DEF Respond, Pool!Begin, TypeOK
  <2>2. /\ Head(todo[w]) \in Answer
        /\ Head(todo[w]) = todo[w][1] /\ 1 \in 1 .. Len(todo[w])
        /\ \A i \in 1 .. Len(Tail(todo[w])) :
               /\ Tail(todo[w])[i] = todo[w][i + 1]
               /\ i + 1 \in 1 .. Len(todo[w])
    BY <2>1
  <2>3. Head(todo[w]) # NoAnswer
    BY <2>2, AnswerAssumption
  <2>4. ASSUME NEW v \in Worker
        PROVE  /\ running'[v] # NoAnswer => Pool!WorkerOf(running'[v]) = v
               /\ \A i \in 1 .. Len(todo'[v]) : Pool!WorkerOf(todo'[v][i]) = v
               /\ workerPc'[v] = "free" <=> running'[v] = NoAnswer
    <3>1. CASE v = w
      BY <2>1, <2>2, <2>3, <3>1 DEF TypeOK, Affinity
    <3>2. CASE v # w
      BY <2>1, <3>2 DEF TypeOK, Affinity, InHand
    <3> QED BY <3>1, <3>2
  <2> QED BY <2>4 DEF Affinity, InHand
<1>6. ASSUME NEW w \in Worker,
             SendPlain(w) \/ SendAtMsg(w) \/ NotFound(w) \/ ActivateWithoutName(w)
      PROVE  (Affinity /\ InHand)'
  <2>1. workerPc[w] # "free" /\ Return(w)
    BY <1>6 DEF SendPlain, SendAtMsg, InCallback, NotFound, Waiting,
                ActivateWithoutName
  <2> QED BY <1>2, <2>1
<1>7. ASSUME NEW w \in Worker, LookUpInVain(w) \/ AddTask(w)
      PROVE  (Affinity /\ InHand)'
  <2>1. /\ workerPc[w] # "free" /\ UNCHANGED poolVars
        /\ \E to \in {"addTask", "request"} :
               workerPc' = [workerPc EXCEPT ![w] = to]
    BY <1>7 DEF LookUpInVain, InCallback, AddTask, Keep
  <2> QED BY <1>3, <2>1
<1>8. CASE Clear
  <2>1. uiFor \in Worker /\ workerPc[uiFor] # "free" /\ Return(uiFor)
    BY <1>8 DEF Clear, UiReturn, TypeOK, Served
  <2> QED BY <1>2, <2>1
<1> QED
  BY <1>1, <1>4, <1>5, <1>6, <1>7, <1>8
     DEF Next, SetExec, Start, Constructing, BeginRun,
         ActivateTask, GetFriendList, ShowChatRoomMembers, QueueNext,
         EndLoop, SeeTasks, SeeNoTasks, Sleep, SpuriousWakeup, Timeout, Drained,
         NotifyGoto, Pop, Execute, vars

-----------------------------------------------------------------------------
(* The worker that ActivateTask serves. *)

LEMMA ServedStep == TypeOK /\ InHand /\ Served /\ [Next]_vars => Served'
<1> SUFFICES ASSUME TypeOK, InHand, Served, [Next]_vars PROVE Served'
  OBVIOUS
<1> USE DEF nameVars, poolVars, uiVars, queueVars, notifyVars, makingVars
\* A step that leaves the UI thread and the worker it serves alone.
<1>1. ASSUME UNCHANGED <<uiFor, uiUser>>, uiPc' # "pump" => uiPc # "pump",
             uiPc # "pump" => /\ workerPc'[uiFor] = workerPc[uiFor]
                              /\ running'[uiFor] = running[uiFor]
      PROVE  Served'
  BY <1>1 DEF Served, Asker
<1>2. ASSUME NEW w \in Worker, Respond(w) PROVE Served'
  <2>1. uiPc # "pump" => w # uiFor
    BY <1>2 DEF Respond, Pool!Begin, InHand, Served, TypeOK
  <2> QED BY <1>1, <1>2, <2>1 DEF Respond, Pool!Begin, TypeOK
<1>3. ASSUME NEW w \in Worker,
             SendPlain(w) \/ SendAtMsg(w) \/ NotFound(w) \/ ActivateWithoutName(w)
      PROVE  Served'
  <2>1. uiPc # "pump" => w # uiFor
    BY <1>3 DEF SendPlain, SendAtMsg, InCallback, NotFound, Waiting,
                ActivateWithoutName, Served
  <2>2. /\ UNCHANGED uiVars
        /\ Return(w)
    BY <1>3 DEF SendPlain, SendAtMsg, NotFound, ActivateWithoutName
  <2> QED BY <1>1, <2>1, <2>2 DEF Return, Pool!Finish, TypeOK
<1>4. ASSUME NEW w \in Worker, LookUpInVain(w) \/ AddTask(w) PROVE Served'
  <2>1. uiPc # "pump" => w # uiFor
    BY <1>4 DEF LookUpInVain, InCallback, AddTask, Keep, Served
  <2> QED BY <1>1, <1>4, <2>1 DEF LookUpInVain, AddTask, TypeOK
<1>5. ASSUME NEW w \in Worker, ActivateTask(w) PROVE Served'
  BY <1>5, HandTypes DEF ActivateTask, Served, Asker
<1>6. CASE Clear
  BY <1>6 DEF Clear, UiReturn, Served
<1>7. ASSUME NEW a \in Answer, Ask(a) PROVE Served'
  BY <1>1, <1>7 DEF Ask, Pool!Add
<1>8. CASE QueueNext \/ EndLoop
  BY <1>1, <1>8 DEF QueueNext, EndLoop
<1> QED
  BY <1>1, <1>2, <1>3, <1>4, <1>5, <1>6, <1>7, <1>8
     DEF Next, SetExec, Start, Constructing, BeginRun,
         GetFriendList, ShowChatRoomMembers, SeeTasks, SeeNoTasks, Sleep,
         SpuriousWakeup, Timeout, Drained, NotifyGoto, Pop, Execute, vars

-----------------------------------------------------------------------------
(* The queue of named answers. *)

LEMMA QueueStep ==
    TypeOK /\ Served /\ QueuedNamed /\ NeverNameless /\ [Next]_vars
        => (QueuedNamed /\ NeverNameless)'
<1> SUFFICES ASSUME TypeOK, Served, QueuedNamed, NeverNameless, [Next]_vars
             PROVE  (QueuedNamed /\ NeverNameless)'
  OBVIOUS
<1> USE DEF nameVars, poolVars, uiVars, queueVars, notifyVars, makingVars
<1>1. ASSUME UNCHANGED <<_task_list, named, notifyTask>>
      PROVE  (QueuedNamed /\ NeverNameless)'
  BY <1>1 DEF QueuedNamed, NeverNameless
<1>2. CASE QueueNext
  <2> DEFINE a == Kept[uiNext]
  <2>1. a \in Answer
    BY <1>2 DEF QueueNext, TypeOK, Served, Kept
  <2>2. /\ _task_list' = Append(_task_list, a)
        /\ named' = named \cup {a}
        /\ UNCHANGED notifyTask
    BY <1>2 DEF QueueNext
  <2>3. ASSUME NEW i \in 1 .. Len(_task_list') PROVE _task_list'[i] \in named'
    <3> HIDE DEF a
    <3>1. \/ i \in 1 .. Len(_task_list) /\ _task_list'[i] = _task_list[i]
          \/ _task_list'[i] = a
      BY <2>1, <2>2, <2>3 DEF TypeOK
    <3> QED BY <2>2, <3>1 DEF QueuedNamed
  <2> QED BY <2>2, <2>3 DEF QueuedNamed, NeverNameless
<1>3. CASE Pop
  <2>1. /\ _task_list \in Seq(Answer) /\ _task_list # <<>>
        /\ _task_list' = Tail(_task_list)
        /\ notifyTask' = Head(_task_list)
        /\ UNCHANGED named
    BY <1>3 DEF Pop, TypeOK
  <2>2. /\ Head(_task_list) = _task_list[1] /\ 1 \in 1 .. Len(_task_list)
        /\ \A i \in 1 .. Len(Tail(_task_list)) :
               /\ Tail(_task_list)[i] = _task_list[i + 1]
               /\ i + 1 \in 1 .. Len(_task_list)
    BY <2>1
  <2> QED BY <2>1, <2>2 DEF QueuedNamed, NeverNameless
<1>4. CASE Execute
  BY <1>4 DEF Execute, QueuedNamed, NeverNameless
<1>5. ASSUME NEW w \in Worker,
             \/ Respond(w) \/ SendPlain(w) \/ SendAtMsg(w) \/ LookUpInVain(w)
             \/ AddTask(w) \/ NotFound(w) \/ ActivateWithoutName(w)
             \/ ActivateTask(w)
      PROVE  UNCHANGED <<_task_list, named, notifyTask>>
  BY <1>5 DEF Respond, SendPlain, SendAtMsg, LookUpInVain, AddTask, NotFound,
              ActivateWithoutName, ActivateTask
<1> QED
  BY <1>1, <1>2, <1>3, <1>4, <1>5
     DEF Next, SetExec, Start, Constructing, BeginRun,
         Ask, GetFriendList, ShowChatRoomMembers, EndLoop, Clear,
         SeeTasks, SeeNoTasks, Sleep, SpuriousWakeup, Timeout, Drained,
         NotifyGoto, vars

-----------------------------------------------------------------------------
(* How often an answer occurs in a sequence. *)

\* Where a occurs in s.
Occurrences(a, s) == { i \in 1 .. Len(s) : s[i] = a }

LEMMA TimesType ==
    ASSUME NEW D, NEW s \in Seq(D), NEW a
    PROVE  /\ IsFiniteSet(Occurrences(a, s))
           /\ Times(a, s) = Cardinality(Occurrences(a, s))
           /\ Times(a, s) \in Nat
           /\ Times(a, s) = 0 <=> ~Contains(s, a)
<1>1. Len(s) \in Nat /\ IsFiniteSet(1 .. Len(s))
  BY FS_Interval
<1>2. Occurrences(a, s) \in SUBSET (1 .. Len(s))
  BY DEF Occurrences
<1>3. IsFiniteSet(Occurrences(a, s))
  BY <1>1, <1>2, FS_Subset
<1>4. Times(a, s) = Cardinality(Occurrences(a, s))
  BY DEF Times, Occurrences
<1>5. Occurrences(a, s) = {} <=> ~Contains(s, a)
  BY DEF Occurrences, Contains
<1> QED BY <1>3, <1>4, <1>5, FS_CardinalityType, FS_EmptySet

LEMMA TimesEmpty == ASSUME NEW a PROVE Times(a, <<>>) = 0
<1>1. <<>> \in Seq({a}) /\ ~Contains(<<>>, a)
  BY DEF Contains
<1> QED BY <1>1, TimesType

LEMMA TimesAppend ==
    ASSUME NEW D, NEW s \in Seq(D), NEW a \in D, NEW b
    PROVE  Times(b, Append(s, a)) = Times(b, s) + (IF a = b THEN 1 ELSE 0)
<1> DEFINE n == Len(s) + 1
<1>1. /\ Append(s, a) \in Seq(D) /\ Len(Append(s, a)) = n /\ Len(s) \in Nat
      /\ Append(s, a)[n] = a
      /\ \A i \in 1 .. Len(s) : Append(s, a)[i] = s[i]
  OBVIOUS
<1>2. Occurrences(b, Append(s, a)) =
          IF a = b THEN Occurrences(b, s) \cup {n} ELSE Occurrences(b, s)
  <2>1. 1 .. n = (1 .. Len(s)) \cup {n}
    BY <1>1
  <2> HIDE DEF n
  <2> QED BY <1>1, <2>1 DEF Occurrences
<1>3. n \notin Occurrences(b, s)
  BY <1>1 DEF Occurrences
<1>4. IsFiniteSet(Occurrences(b, s))
  BY TimesType
<1>5. Cardinality(Occurrences(b, s) \cup {n}) = Cardinality(Occurrences(b, s)) + 1
  BY <1>3, <1>4, FS_AddElement
<1>6. /\ Times(b, s) = Cardinality(Occurrences(b, s)) /\ Times(b, s) \in Nat
      /\ Times(b, Append(s, a)) = Cardinality(Occurrences(b, Append(s, a)))
  BY <1>1, TimesType
<1> QED BY <1>2, <1>5, <1>6

\* The elements of a sequence after the first n.
LEMMA TimesTail ==
    ASSUME NEW D, NEW s \in Seq(D), s # <<>>, NEW b
    PROVE  /\ Head(s) \in D /\ Tail(s) \in Seq(D)
           /\ Times(b, s) = Times(b, Tail(s)) + (IF Head(s) = b THEN 1 ELSE 0)
<1>1. /\ Tail(s) \in Seq(D) /\ Len(s) \in Nat \ {0} /\ Head(s) = s[1]
      /\ Head(s) \in D
      /\ Len(Tail(s)) = Len(s) - 1
      /\ \A i \in 1 .. Len(s) - 1 : Tail(s)[i] = s[i + 1]
  OBVIOUS
<1> DEFINE T == Occurrences(b, Tail(s))
           Later == Occurrences(b, s) \ {1}
           f == [i \in T |-> i + 1]
<1>2. f \in [T -> Later]
  <2>1. ASSUME NEW i \in T PROVE i + 1 \in Later
    BY <1>1 DEF Occurrences
  <2> QED BY <2>1
<1>3. \A i, j \in T : f[i] = f[j] => i = j
  BY <1>1 DEF Occurrences
<1>4. \A j \in Later : \E i \in T : f[i] = j
  <2> SUFFICES ASSUME NEW j \in Later PROVE \E i \in T : f[i] = j
    OBVIOUS
  <2>1. j - 1 \in T /\ f[j - 1] = j
    BY <1>1 DEF Occurrences
  <2> QED BY <2>1
<1>5. f \in Bijection(T, Later)
  <2> HIDE DEF f, T, Later
  <2> QED BY <1>2, <1>3, <1>4 DEF Bijection, Injection, Surjection, IsInjective
<1>6. IsFiniteSet(T) /\ IsFiniteSet(Occurrences(b, s))
  BY <1>1, TimesType
<1>7. IsFiniteSet(Later) /\ Cardinality(Later) = Cardinality(T)
  <2> HIDE DEF f, T, Later
  <2> QED BY <1>5, <1>6, FS_Bijection DEF ExistsBijection
<1>8. 1 \in Occurrences(b, s) <=> Head(s) = b
  BY <1>1 DEF Occurrences
<1>9. Cardinality(Later) =
          IF Head(s) = b THEN Cardinality(Occurrences(b, s)) - 1
                         ELSE Cardinality(Occurrences(b, s))
  BY <1>6, <1>8, FS_RemoveElement
<1>10. /\ Times(b, s) = Cardinality(Occurrences(b, s)) /\ Times(b, s) \in Nat
       /\ Times(b, Tail(s)) = Cardinality(T) /\ Times(b, Tail(s)) \in Nat
  BY <1>1, TimesType
<1> HIDE DEF f, T, Later
<1> QED BY <1>1, <1>7, <1>9, <1>10

\* The rest of a sequence from the index n on.
LEMMA RestOf ==
    ASSUME NEW D, NEW s \in Seq(D), NEW n \in Nat \ {0}
    PROVE  /\ SubSeq(s, n, Len(s)) \in Seq(D)
           /\ n > Len(s) => SubSeq(s, n, Len(s)) = <<>>
           /\ n = 1 => SubSeq(s, n, Len(s)) = s
           /\ n <= Len(s) => /\ SubSeq(s, n, Len(s)) # <<>>
                             /\ Head(SubSeq(s, n, Len(s))) = s[n]
                             /\ Tail(SubSeq(s, n, Len(s))) = SubSeq(s, n + 1, Len(s))
<1> DEFINE r == SubSeq(s, n, Len(s))
<1>1. /\ r \in Seq(D) /\ Len(r) = IF n > Len(s) THEN 0 ELSE Len(s) - n + 1
      /\ \A i \in 1 .. Len(r) : r[i] = s[n + i - 1]
  OBVIOUS
<1>2. n > Len(s) => r = <<>>
  BY <1>1
<1>3. n = 1 => r = s
  <2>1. n = 1 => Len(r) = Len(s) /\ \A i \in 1 .. Len(s) : r[i] = s[i]
    BY <1>1
  <2> HIDE DEF r
  <2> QED BY <1>1, <2>1
<1>4. ASSUME n <= Len(s)
      PROVE  r # <<>> /\ Head(r) = s[n] /\ Tail(r) = SubSeq(s, n + 1, Len(s))
  <2> DEFINE q == SubSeq(s, n + 1, Len(s))
  <2>1. /\ q \in Seq(D) /\ Len(q) = Len(s) - n
        /\ \A i \in 1 .. Len(q) : q[i] = s[n + i]
    BY <1>4
  <2>2. Len(r) = Len(s) - n + 1 /\ Len(r) # 0
    BY <1>1, <1>4
  <2>3. r # <<>> /\ Head(r) = r[1] /\ r[1] = s[n]
    BY <1>1, <2>2, <1>4
  <2>4. /\ Tail(r) \in Seq(D) /\ Len(Tail(r)) = Len(s) - n
        /\ \A i \in 1 .. Len(Tail(r)) : Tail(r)[i] = r[i + 1]
    <3> HIDE DEF r
    <3> QED BY <1>1, <2>2, <2>3
  <2>5. ASSUME NEW i \in 1 .. Len(Tail(r)) PROVE Tail(r)[i] = q[i]
    <3> HIDE DEF r, q
    <3>1. i \in Nat /\ i \in 1 .. Len(q) /\ i + 1 \in 1 .. Len(r)
      BY <2>1, <2>2, <2>4, <1>4
    <3>2. Tail(r)[i] = r[i + 1] /\ r[i + 1] = s[n + (i + 1) - 1]
      BY <1>1, <2>4, <3>1
    <3>3. n + (i + 1) - 1 = n + i
      BY <3>1
    <3> QED BY <2>1, <3>1, <3>2, <3>3
  <2> HIDE DEF r, q
  <2>6. Tail(r) = q
    BY <2>1, <2>4, <2>5, SeqEqual
  <2> QED BY <2>3, <2>6 DEF q
<1> QED BY <1>1, <1>2, <1>3, <1>4

-----------------------------------------------------------------------------
(* The places of an answer. *)

\* A worker has the answer of its question in hand.
Busy(w) == workerPc[w] \in {"callback", "addTask"}

\* An answer is with its worker: it waits, or is in hand.
Pooled(a) ==
    \/ Contains(todo[Pool!WorkerOf(a)], a)
    \/ running[Pool!WorkerOf(a)] = a /\ Busy(Pool!WorkerOf(a))

One(P) == IF P THEN 1 ELSE 0

PoolCount(a) == One(Pooled(a))
KeptCount(a) == Times(a, StillKept(UserOf[a]))
QueueCount(a) == Times(a, _task_list)
NotifyCount(a) == One(notifyTask = a)
SentCount(a) == Times(a, sent)
AskedCount(a) == One(Contains(asked, a))

OnceInv ==
    \A a \in Answer :
        PoolCount(a) + KeptCount(a) + QueueCount(a) + NotifyCount(a)
            + SentCount(a) = AskedCount(a)

NotifyInv == notifyPc = "run" <=> notifyTask # NoAnswer

\* What is kept for a user are answers to him.
KeptInv ==
    \A u \in User : \A i \in 1 .. Len(m_mapNickNameTask[u]) :
        UserOf[m_mapNickNameTask[u][i]] = u

\* ActivateTask clears what it has queued.
WalkInv ==
    /\ uiPc = "pump" => uiUser = NoUser
    /\ uiPc = "clear" => uiNext > Len(Kept)

\* A worker has a question once.
PoolInv ==
    \A w \in Worker :
        /\ \A i, j \in 1 .. Len(todo[w]) : todo[w][i] = todo[w][j] => i = j
        /\ Busy(w) => ~Contains(todo[w], running[w])

PlaceInv == NotifyInv /\ KeptInv /\ WalkInv /\ PoolInv /\ OnceInv

LEMMA CountTypes ==
    ASSUME TypeOK, NEW a \in Answer
    PROVE  /\ PoolCount(a) \in 0 .. 1 /\ NotifyCount(a) \in 0 .. 1
           /\ AskedCount(a) \in 0 .. 1
           /\ KeptCount(a) \in Nat /\ QueueCount(a) \in Nat
           /\ SentCount(a) \in Nat
           /\ UserOf[a] \in User
           /\ StillKept(UserOf[a]) \in Seq(Answer)
<1>1. UserOf[a] \in User
  BY AnswerAssumption
<1>2. m_mapNickNameTask[UserOf[a]] \in Seq(Answer)
  BY <1>1 DEF TypeOK
<1>3. uiNext \in Nat \ {0}
  BY DEF TypeOK
<1>4. StillKept(UserOf[a]) \in Seq(Answer)
  BY <1>2, <1>3, RestOf DEF StillKept
<1>5. KeptCount(a) \in Nat /\ QueueCount(a) \in Nat /\ SentCount(a) \in Nat
  BY <1>4, TimesType DEF TypeOK, KeptCount, QueueCount, SentCount
<1> QED
  BY <1>1, <1>4, <1>5 DEF PoolCount, NotifyCount, AskedCount, One

\* The pool's part of InOnePlace.
LEMMA PoolHasOne ==
    ASSUME TypeOK, Affinity, NEW a \in Answer
    PROVE  Cardinality({ w \in Worker : Contains(todo[w], a) }
               \cup { w \in Worker :
                          running[w] = a /\ workerPc[w] \in {"callback", "addTask"} })
               = PoolCount(a)
<1> DEFINE S == { w \in Worker : Contains(todo[w], a) }
               \cup { w \in Worker :
                          running[w] = a /\ workerPc[w] \in {"callback", "addTask"} }
<1>1. Pool!WorkerOf(a) \in Worker /\ a # NoAnswer
  BY WorkerOfType, AnswerAssumption
<1>2. \A w \in Worker : Contains(todo[w], a) => w = Pool!WorkerOf(a)
  BY DEF Affinity, Contains
<1>3. \A w \in Worker : running[w] = a => w = Pool!WorkerOf(a)
  BY <1>1 DEF Affinity
<1>4. S = IF Pooled(a) THEN {Pool!WorkerOf(a)} ELSE {}
  BY <1>1, <1>2, <1>3 DEF Pooled, Busy
<1> HIDE DEF S
<1>5. Cardinality(S) = PoolCount(a)
  BY <1>4, FS_Singleton, FS_EmptySet DEF PoolCount, One
<1> QED BY <1>5 DEF S

LEMMA OncePlace == TypeOK /\ Affinity /\ OnceInv => InOnePlace
  BY PoolHasOne, CountTypes
     DEF OnceInv, InOnePlace, KeptCount, QueueCount, NotifyCount, SentCount,
         AskedCount, One

-----------------------------------------------------------------------------
(* What the pool has. *)

\* The pool has what it had.
LEMMA PoolSame ==
    ASSUME UNCHANGED <<todo, running>>,
           \A w \in Worker : Busy(w)' = Busy(w),
           NEW a \in Answer
    PROVE  PoolCount(a)' = PoolCount(a)
  BY WorkerOfType DEF PoolCount, Pooled

\* A worker lets go of its answer.
LEMMA PoolLeaves ==
    ASSUME TypeOK, Affinity, InHand, PoolInv, NEW w \in Worker, Busy(w),
           UNCHANGED todo, ~(running'[w] \in Answer /\ Busy(w)'),
           \A v \in Worker \ {w} : running'[v] = running[v] /\ Busy(v)' = Busy(v),
           NEW a \in Answer
    PROVE  PoolCount(a) = PoolCount(a)' + One(running[w] = a)
<1>1. running[w] \in Answer /\ Pool!WorkerOf(running[w]) = w
  BY HandTypes, AnswerAssumption DEF Affinity, Busy
<1>2. Pool!WorkerOf(a) \in Worker
  BY WorkerOfType
<1>3. CASE running[w] = a
  <2>1. Pooled(a) /\ ~Pooled(a)'
    BY <1>1, <1>3 DEF Pooled, PoolInv
  <2> QED BY <1>3, <2>1 DEF PoolCount, One
<1>4. CASE running[w] # a
  <2>1. Pooled(a)' <=> Pooled(a)
    <3>1. CASE Pool!WorkerOf(a) = w
      BY <1>4, <3>1 DEF Pooled
    <3>2. CASE Pool!WorkerOf(a) # w
      BY <1>2, <3>2 DEF Pooled
    <3> QED BY <3>1, <3>2
  <2> QED BY <1>4, <2>1 DEF PoolCount, One
<1> QED BY <1>3, <1>4

LEMMA PoolBegins ==
    ASSUME TypeOK, InHand, NEW w \in Worker, Respond(w), NEW a \in Answer
    PROVE  PoolCount(a)' = PoolCount(a)
<1>1. /\ todo[w] \in Seq(Answer) /\ todo[w] # <<>>
      /\ running' = [running EXCEPT ![w] = Head(todo[w])]
      /\ todo' = [todo EXCEPT ![w] = Tail(@)]
      /\ workerPc' = [workerPc EXCEPT ![w] = "callback"]
      /\ running[w] = NoAnswer
  BY DEF Respond, Pool!Begin, TypeOK
<1>2. ~Busy(w)
  BY <1>1 DEF Busy, InHand
<1>3. Pool!WorkerOf(a) \in Worker
  BY WorkerOfType
<1>4. Contains(todo[w], a) <=> Contains(Tail(todo[w]), a) \/ Head(todo[w]) = a
  BY <1>1 DEF Contains
<1>5. /\ todo'[w] = Tail(todo[w]) /\ running'[w] = Head(todo[w]) /\ Busy(w)'
      /\ \A v \in Worker \ {w} :
             /\ todo'[v] = todo[v] /\ running'[v] = running[v]
             /\ Busy(v)' = Busy(v)
  BY <1>1 DEF TypeOK, Busy
<1>6. Pooled(a)' <=> Pooled(a)
  <2>1. CASE Pool!WorkerOf(a) = w
    BY <1>2, <1>4, <1>5, <2>1 DEF Pooled
  <2>2. CASE Pool!WorkerOf(a) # w
    BY <1>3, <1>5, <2>2 DEF Pooled
  <2> QED BY <2>1, <2>2
<1> QED BY <1>6 DEF PoolCount, One

\* A question that is asked was nowhere, and is with its worker now.
LEMMA Added ==
    ASSUME NEW s \in Seq(Answer), NEW b \in Answer, NEW a
    PROVE  Contains(Append(s, b), a) <=> Contains(s, a) \/ a = b
<1>1. /\ Len(Append(s, b)) = Len(s) + 1 /\ Len(s) \in Nat
      /\ Append(s, b)[Len(s) + 1] = b
      /\ \A i \in 1 .. Len(s) : Append(s, b)[i] = s[i]
  OBVIOUS
<1> QED BY <1>1 DEF Contains

LEMMA PoolAdds ==
    ASSUME TypeOK, NEW b \in Answer, Ask(b), ~Pooled(b), NEW a \in Answer
    PROVE  PoolCount(a)' = PoolCount(a) + One(a = b)
<1> DEFINE w == Pool!WorkerOf(b)
<1>1. w \in Worker /\ Pool!WorkerOf(a) \in Worker
  BY WorkerOfType
<1>2. /\ todo'[w] = Append(todo[w], b) /\ todo[w] \in Seq(Answer)
      /\ \A v \in Worker \ {w} : todo'[v] = todo[v]
      /\ UNCHANGED <<running, workerPc>>
  BY <1>1 DEF Ask, Pool!Add, TypeOK
<1>3. Contains(todo'[w], a) <=> Contains(todo[w], a) \/ a = b
  BY <1>2, Added
<1>4. Pooled(a)' <=> Pooled(a) \/ a = b
  BY <1>1, <1>2, <1>3 DEF Pooled, Busy
<1> QED BY <1>4 DEF PoolCount, One

-----------------------------------------------------------------------------
(* ActivateTask, the queue's thread and the pool: what they keep. *)

\* No other worker has a question of the user that ActivateTask serves.
LEMMA OtherUser ==
    ASSUME TypeOK, Affinity, InHand, Served, uiPc # "pump",
           NEW w \in Worker, workerPc[w] = "addTask"
    PROVE  Asker(w) # uiUser
<1>1. uiFor \in Worker /\ w # uiFor
  BY DEF TypeOK, Served
<1>2. /\ running[w] \in Answer /\ running[uiFor] \in Answer
      /\ running[w] # NoAnswer /\ running[uiFor] # NoAnswer
  BY <1>1, HandTypes, AnswerAssumption DEF Served
<1>3. Pool!WorkerOf(running[w]) # Pool!WorkerOf(running[uiFor])
  BY <1>1, <1>2 DEF Affinity
<1> QED BY <1>2, <1>3, SameUser DEF Served, Asker

\* A worker that keeps its answer.
LEMMA KeepsAnswer ==
    ASSUME TypeOK, Affinity, InHand, Served, WalkInv,
           NEW w \in Worker, AddTask(w)
    PROVE  /\ running[w] \in Answer /\ Asker(w) \in User
           /\ Asker(w) # uiUser
           /\ m_mapNickNameTask[Asker(w)] \in Seq(Answer)
           /\ m_mapNickNameTask'[Asker(w)] =
                  Append(m_mapNickNameTask[Asker(w)], running[w])
           /\ \A u \in User \ {Asker(w)} :
                  m_mapNickNameTask'[u] = m_mapNickNameTask[u]
<1>1. workerPc[w] = "addTask" /\ workerPc[w] # "free"
  BY DEF AddTask, Keep
<1>2. running[w] \in Answer /\ Asker(w) \in User
  BY <1>1, HandTypes
<1>3. Asker(w) # uiUser
  BY <1>1, <1>2, OtherUser, AnswerAssumption DEF WalkInv
<1> QED BY <1>2, <1>3 DEF AddTask, Keep, TypeOK

\* The step of ActivateTask's loop.
LEMMA QueuesAnswer ==
    ASSUME TypeOK, Served, KeptInv, QueueNext
    PROVE  /\ uiUser \in User /\ Kept \in Seq(Answer) /\ uiNext \in 1 .. Len(Kept)
           /\ Kept[uiNext] \in Answer /\ UserOf[Kept[uiNext]] = uiUser
  BY DEF QueueNext, TypeOK, Served, Kept, KeptInv

LEMMA NotifyStepInv == TypeOK /\ NotifyInv /\ [Next]_vars => NotifyInv'
<1> SUFFICES ASSUME TypeOK, NotifyInv, [Next]_vars PROVE NotifyInv'
  OBVIOUS
<1> USE DEF nameVars, poolVars, uiVars, queueVars, notifyVars, makingVars
<1>1. ASSUME UNCHANGED notifyTask, notifyPc' = "run" <=> notifyPc = "run"
      PROVE  NotifyInv'
  BY <1>1 DEF NotifyInv
<1>2. CASE Pop
  <2>1. Head(_task_list) \in Answer
    BY <1>2 DEF Pop, TypeOK
  <2> QED BY <1>2, <2>1, AnswerAssumption DEF Pop, NotifyInv
<1>3. CASE Execute
  BY <1>3 DEF Execute, NotifyInv
<1>4. ASSUME NEW w \in Worker,
             \/ Respond(w) \/ SendPlain(w) \/ SendAtMsg(w) \/ LookUpInVain(w)
             \/ AddTask(w) \/ NotFound(w) \/ ActivateWithoutName(w)
             \/ ActivateTask(w)
      PROVE  UNCHANGED notifyVars
  BY <1>4 DEF Respond, SendPlain, SendAtMsg, LookUpInVain, AddTask, NotFound,
              ActivateWithoutName, ActivateTask
<1> QED
  BY <1>1, <1>2, <1>3, <1>4
     DEF Next, SetExec, Start, Constructing, BeginRun,
         Ask, GetFriendList, ShowChatRoomMembers, QueueNext, EndLoop, Clear,
         SeeTasks, SeeNoTasks, Sleep, SpuriousWakeup, Timeout, Drained,
         NotifyGoto, vars

LEMMA KeptStep ==
    TypeOK /\ Affinity /\ InHand /\ Served /\ KeptInv /\ WalkInv /\ [Next]_vars
        => (KeptInv /\ WalkInv)'
<1> SUFFICES ASSUME TypeOK, Affinity, InHand, Served, KeptInv, WalkInv, [Next]_vars
             PROVE  (KeptInv /\ WalkInv)'
  OBVIOUS
<1> USE DEF nameVars, poolVars, uiVars, queueVars, notifyVars, makingVars
<1>1. ASSUME UNCHANGED <<m_mapNickNameTask, uiVars>>
      PROVE  (KeptInv /\ WalkInv)'
  BY <1>1 DEF KeptInv, WalkInv, Kept
<1>2. ASSUME NEW w \in Worker, AddTask(w) PROVE (KeptInv /\ WalkInv)'
  <2>1. UNCHANGED uiVars
    BY <1>2 DEF AddTask
  <2>2. ASSUME NEW u \in User, NEW i \in 1 .. Len(m_mapNickNameTask'[u])
        PROVE  UserOf[m_mapNickNameTask'[u][i]] = u
    <3>1. CASE u = Asker(w)
      <4> DEFINE s == m_mapNickNameTask[u]
      <4>1. /\ s \in Seq(Answer) /\ running[w] \in Answer
            /\ m_mapNickNameTask'[u] = Append(s, running[w])
        BY <1>2, <3>1, KeepsAnswer
      <4>2. \/ i \in 1 .. Len(s) /\ m_mapNickNameTask'[u][i] = s[i]
            \/ m_mapNickNameTask'[u][i] = running[w]
        <5> HIDE DEF s
        <5> QED BY <2>2, <4>1
      <4> QED BY <3>1, <4>2 DEF KeptInv, Asker
    <3>2. CASE u # Asker(w)
      BY <1>2, <2>2, <3>2, KeepsAnswer DEF KeptInv
    <3> QED BY <3>1, <3>2
  <2>3. uiPc = "clear" => Kept' = Kept
    BY <1>2, <2>1, KeepsAnswer DEF Served, Kept
  <2> QED BY <2>1, <2>2, <2>3 DEF KeptInv, WalkInv
<1>3. ASSUME NEW w \in Worker, ActivateTask(w) PROVE (KeptInv /\ WalkInv)'
  BY <1>3 DEF ActivateTask, KeptInv, WalkInv
<1>4. CASE QueueNext
  BY <1>4 DEF QueueNext, KeptInv, WalkInv
<1>5. CASE EndLoop
  BY <1>5 DEF EndLoop, KeptInv, WalkInv, Kept
<1>6. CASE Clear
  <2>1. /\ m_mapNickNameTask' = [m_mapNickNameTask EXCEPT ![uiUser] = <<>>]
        /\ uiPc' = "pump" /\ uiUser' = NoUser
    BY <1>6 DEF Clear, UiReturn
  <2>2. WalkInv'
    BY <2>1 DEF WalkInv
  <2>3. ASSUME NEW u \in User, NEW i \in 1 .. Len(m_mapNickNameTask'[u])
        PROVE  UserOf[m_mapNickNameTask'[u][i]] = u
    <3>1. u # uiUser
      BY <2>1, <2>3 DEF TypeOK
    <3> QED BY <2>1, <2>3, <3>1 DEF TypeOK, KeptInv
  <2> QED BY <2>2, <2>3 DEF KeptInv
<1>7. ASSUME NEW w \in Worker,
             \/ Respond(w) \/ SendPlain(w) \/ SendAtMsg(w) \/ LookUpInVain(w)
             \/ NotFound(w) \/ ActivateWithoutName(w)
      PROVE  UNCHANGED <<m_mapNickNameTask, uiVars>>
  BY <1>7 DEF Respond, SendPlain, SendAtMsg, LookUpInVain, NotFound,
              ActivateWithoutName
<1> QED
  BY <1>1, <1>2, <1>3, <1>4, <1>5, <1>6, <1>7
     DEF Next, SetExec, Start, Constructing, BeginRun,
         Ask, GetFriendList, ShowChatRoomMembers, SeeTasks, SeeNoTasks,
         Sleep, SpuriousWakeup, Timeout, Drained, NotifyGoto, Pop, Execute, vars

\* An answer that has not been asked for is nowhere.
LEMMA NotAskedNowhere ==
    ASSUME TypeOK, OnceInv, NEW a \in Answer, ~Contains(asked, a)
    PROVE  /\ ~Pooled(a) /\ KeptCount(a) = 0 /\ QueueCount(a) = 0
           /\ notifyTask # a /\ SentCount(a) = 0
  BY CountTypes DEF OnceInv, PoolCount, NotifyCount, AskedCount, One

LEMMA PoolStep ==
    TypeOK /\ Affinity /\ InHand /\ Served /\ PoolInv /\ OnceInv /\ [Next]_vars
        => PoolInv'
<1> SUFFICES ASSUME TypeOK, Affinity, InHand, Served, PoolInv, OnceInv, [Next]_vars
             PROVE  PoolInv'
  OBVIOUS
<1> USE DEF nameVars, poolVars, uiVars, queueVars, notifyVars, makingVars
<1>1. ASSUME UNCHANGED todo,
             \A w \in Worker : Busy(w)' => Busy(w) /\ running'[w] = running[w]
      PROVE  PoolInv'
  BY <1>1 DEF PoolInv
<1>2. ASSUME NEW b \in Answer, Ask(b) PROVE PoolInv'
  <2>1. ~Contains(asked, b)
    BY <1>2 DEF Ask
  <2>2. ~Pooled(b)
    BY <2>1, NotAskedNowhere
  <2> DEFINE v == Pool!WorkerOf(b)
  <2>3. v \in Worker
    BY WorkerOfType
  <2>4. /\ todo'[v] = Append(todo[v], b) /\ todo[v] \in Seq(Answer)
        /\ \A w \in Worker \ {v} : todo'[w] = todo[w]
        /\ UNCHANGED <<running, workerPc>>
    BY <1>2, <2>3 DEF Ask, Pool!Add, TypeOK
  <2>5. ~Contains(todo[v], b) /\ (Busy(v) => running[v] # b)
    BY <2>2 DEF Pooled
  <2>6. \A a : Contains(todo'[v], a) <=> Contains(todo[v], a) \/ a = b
    BY <2>4, Added
  <2>7. \A i, j \in 1 .. Len(todo'[v]) : todo'[v][i] = todo'[v][j] => i = j
    <3>1. /\ Len(todo'[v]) = Len(todo[v]) + 1 /\ Len(todo[v]) \in Nat
          /\ todo'[v][Len(todo[v]) + 1] = b
          /\ \A i \in 1 .. Len(todo[v]) : todo'[v][i] = todo[v][i]
      BY <2>4
    <3>2. \A i \in 1 .. Len(todo[v]) : todo[v][i] # b
      BY <2>5 DEF Contains
    <3>3. \A i, j \in 1 .. Len(todo[v]) : todo[v][i] = todo[v][j] => i = j
      BY <2>3 DEF PoolInv
    <3>4. \A i \in 1 .. Len(todo'[v]) :
              i = Len(todo[v]) + 1 \/ i \in 1 .. Len(todo[v])
      BY <3>1
    <3> HIDE DEF v
    <3> QED BY <3>1, <3>2, <3>3, <3>4
  <2>8. \A w \in Worker : Busy(w)' = Busy(w) /\ running'[w] = running[w]
    BY <2>4 DEF Busy
  <2>9. ASSUME NEW w \in Worker
        PROVE  /\ \A i, j \in 1 .. Len(todo'[w]) : todo'[w][i] = todo'[w][j] => i = j
               /\ Busy(w)' => ~Contains(todo'[w], running'[w])
    <3>1. CASE w = v
      BY <2>5, <2>6, <2>7, <2>8, <3>1 DEF PoolInv
    <3>2. CASE w # v
      BY <2>4, <2>8, <3>2 DEF PoolInv
    <3> QED BY <3>1, <3>2
  <2> QED BY <2>9 DEF PoolInv
<1>3. ASSUME NEW v \in Worker, Respond(v) PROVE PoolInv'
  <2>1. /\ todo[v] \in Seq(Answer) /\ todo[v] # <<>>
        /\ running' = [running EXCEPT ![v] = Head(todo[v])]
        /\ todo' = [todo EXCEPT ![v] = Tail(@)]
        /\ workerPc' = [workerPc EXCEPT ![v] = "callback"]
    BY <1>3 DEF Respond, Pool!Begin, TypeOK
  <2>2. /\ todo'[v] = Tail(todo[v]) /\ running'[v] = Head(todo[v])
        /\ \A w \in Worker \ {v} :
               todo'[w] = todo[w] /\ running'[w] = running[w] /\ Busy(w)' = Busy(w)
    BY <2>1 DEF TypeOK, Busy
  <2>3. /\ Head(todo[v]) = todo[v][1] /\ 1 \in 1 .. Len(todo[v])
        /\ \A i \in 1 .. Len(Tail(todo[v])) :
               /\ Tail(todo[v])[i] = todo[v][i + 1]
               /\ i + 1 \in 1 .. Len(todo[v]) /\ i + 1 # 1
    BY <2>1
  <2>4. \A i, j \in 1 .. Len(todo[v]) : todo[v][i] = todo[v][j] => i = j
    BY DEF PoolInv
  <2>5. ~Contains(Tail(todo[v]), Head(todo[v]))
    BY <2>3, <2>4 DEF Contains
  <2>6. ASSUME NEW i \in 1 .. Len(Tail(todo[v])), NEW j \in 1 .. Len(Tail(todo[v])),
               Tail(todo[v])[i] = Tail(todo[v])[j]
        PROVE  i = j
    <3>1. i + 1 = j + 1
      BY <2>3, <2>4, <2>6
    <3> QED BY <3>1
  <2>7. ASSUME NEW w \in Worker
        PROVE  /\ \A i, j \in 1 .. Len(todo'[w]) : todo'[w][i] = todo'[w][j] => i = j
               /\ Busy(w)' => ~Contains(todo'[w], running'[w])
    <3>1. CASE w = v
      BY <2>2, <2>5, <2>6, <3>1, ZenonT(40)
    <3>2. CASE w # v
      BY <2>2, <3>2 DEF PoolInv
    <3> QED BY <3>1, <3>2
  <2> QED BY <2>7 DEF PoolInv
<1>4. ASSUME NEW v \in Worker, Return(v) PROVE PoolInv'
  BY <1>1, <1>4 DEF Return, Pool!Finish, Busy, TypeOK
<1>5. ASSUME NEW v \in Worker, LookUpInVain(v) \/ AddTask(v) PROVE PoolInv'
  BY <1>1, <1>5 DEF LookUpInVain, InCallback, AddTask, Keep, Busy, TypeOK
<1>6. ASSUME UNCHANGED <<todo, running, workerPc>> PROVE PoolInv'
  BY <1>1, <1>6 DEF Busy
<1>7. ASSUME NEW v \in Worker,
             SendPlain(v) \/ SendAtMsg(v) \/ NotFound(v) \/ ActivateWithoutName(v)
      PROVE  PoolInv'
  BY <1>4, <1>7 DEF SendPlain, SendAtMsg, NotFound, ActivateWithoutName
<1>8. CASE Clear
  BY <1>4, <1>8 DEF Clear, UiReturn, TypeOK
<1> QED
  BY <1>2, <1>3, <1>5, <1>6, <1>7, <1>8
     DEF Next, SetExec, Start, Constructing, BeginRun,
         ActivateTask, GetFriendList, ShowChatRoomMembers, QueueNext,
         EndLoop, SeeTasks, SeeNoTasks, Sleep, SpuriousWakeup, Timeout, Drained,
         NotifyGoto, Pop, Execute, vars

-----------------------------------------------------------------------------
(* Every step moves an answer from one place to another. *)

\* What is kept.
LEMMA KeptSame ==
    ASSUME UNCHANGED <<m_mapNickNameTask, uiUser, uiNext>>, NEW a \in Answer
    PROVE  KeptCount(a)' = KeptCount(a)
  BY DEF KeptCount, StillKept

LEMMA KeptGrows ==
    ASSUME TypeOK, Affinity, InHand, Served, WalkInv,
           NEW w \in Worker, AddTask(w), NEW a \in Answer
    PROVE  KeptCount(a)' = KeptCount(a) + One(running[w] = a)
<1>1. UNCHANGED <<uiUser, uiNext>> /\ UserOf[a] \in User
  BY AnswerAssumption DEF AddTask, uiVars
<1>2. CASE UserOf[a] = Asker(w)
  <2>1. StillKept(UserOf[a]) = m_mapNickNameTask[UserOf[a]]
    BY <1>2, KeepsAnswer DEF StillKept
  <2>2. StillKept(UserOf[a])' = Append(StillKept(UserOf[a]), running[w])
    BY <1>1, <1>2, <2>1, KeepsAnswer DEF StillKept
  <2>3. /\ StillKept(UserOf[a]) \in Seq(Answer) /\ running[w] \in Answer
    BY KeepsAnswer, CountTypes
  <2> QED BY <2>2, <2>3, TimesAppend DEF KeptCount, One
<1>3. CASE UserOf[a] # Asker(w)
  <2>1. running[w] # a
    BY <1>3 DEF Asker
  <2>2. m_mapNickNameTask'[UserOf[a]] = m_mapNickNameTask[UserOf[a]]
    BY <1>1, <1>3, KeepsAnswer
  <2>3. KeptCount(a)' = KeptCount(a)
    BY <1>1, <2>2 DEF KeptCount, StillKept
  <2> QED BY <2>1, <2>3, CountTypes DEF One
<1> QED BY <1>2, <1>3

LEMMA KeptQueued ==
    ASSUME TypeOK, Served, KeptInv, QueueNext, NEW a \in Answer
    PROVE  /\ KeptCount(a) = KeptCount(a)' + One(Kept[uiNext] = a)
           /\ QueueCount(a)' = QueueCount(a) + One(Kept[uiNext] = a)
<1>1. /\ uiNext' = uiNext + 1 /\ UNCHANGED <<m_mapNickNameTask, uiUser>>
      /\ _task_list' = Append(_task_list, Kept[uiNext])
  BY DEF QueueNext, nameVars, poolVars
<1>2. /\ uiUser \in User /\ Kept \in Seq(Answer) /\ uiNext \in 1 .. Len(Kept)
      /\ Kept[uiNext] \in Answer /\ UserOf[Kept[uiNext]] = uiUser
  BY QueuesAnswer
<1>3. KeptCount(a) = KeptCount(a)' + One(Kept[uiNext] = a)
  <2>1. CASE UserOf[a] = uiUser
    <3>1. /\ StillKept(UserOf[a]) = SubSeq(Kept, uiNext, Len(Kept))
          /\ StillKept(UserOf[a])' = SubSeq(Kept, uiNext + 1, Len(Kept))
      BY <1>1, <2>1 DEF StillKept, Kept
    <3>2. uiNext \in Nat \ {0} /\ uiNext <= Len(Kept)
      BY <1>2
    <3>3. /\ StillKept(UserOf[a]) \in Seq(Answer) /\ StillKept(UserOf[a]) # <<>>
          /\ Head(StillKept(UserOf[a])) = Kept[uiNext]
          /\ Tail(StillKept(UserOf[a])) = StillKept(UserOf[a])'
      BY <1>2, <3>1, <3>2, RestOf, ZenonT(40)
    <3> QED BY <3>3, TimesTail DEF KeptCount, One
  <2>2. CASE UserOf[a] # uiUser
    <3>1. Kept[uiNext] # a
      BY <1>2, <2>2
    <3>2. KeptCount(a)' = KeptCount(a)
      BY <1>1, <2>2 DEF KeptCount, StillKept
    <3> QED BY <3>1, <3>2, CountTypes DEF One
  <2> QED BY <2>1, <2>2
<1>4. QueueCount(a)' = QueueCount(a) + One(Kept[uiNext] = a)
  <2>1. _task_list \in Seq(Answer)
    BY DEF TypeOK
  <2> QED BY <1>1, <1>2, <2>1, TimesAppend DEF QueueCount, One
<1> QED BY <1>3, <1>4

\* A round of ActivateTask begins with all that is kept, and ends with nothing.
LEMMA KeptBegins ==
    ASSUME TypeOK, InHand, WalkInv, NEW w \in Worker, ActivateTask(w),
           NEW a \in Answer
    PROVE  KeptCount(a)' = KeptCount(a)
<1>1. uiUser = NoUser /\ uiUser' = Asker(w) /\ uiNext' = 1
      /\ UNCHANGED m_mapNickNameTask
  BY DEF ActivateTask, WalkInv
<1>2. UserOf[a] \in User /\ m_mapNickNameTask[UserOf[a]] \in Seq(Answer)
  BY AnswerAssumption DEF TypeOK
<1>3. StillKept(UserOf[a]) = m_mapNickNameTask[UserOf[a]]
  BY <1>1, <1>2, AnswerAssumption DEF StillKept
<1>4. StillKept(UserOf[a])' = m_mapNickNameTask[UserOf[a]]
  <2> DEFINE s == m_mapNickNameTask[UserOf[a]]
  <2>1. SubSeq(s, 1, Len(s)) = s
    BY <1>2
  <2> HIDE DEF s
  <2>2. StillKept(UserOf[a])' =
            IF uiUser' = UserOf[a] THEN SubSeq(s, 1, Len(s)) ELSE s
    BY <1>1 DEF StillKept, s
  <2> QED BY <2>1, <2>2 DEF s
<1> QED BY <1>3, <1>4 DEF KeptCount

LEMMA KeptEnds ==
    ASSUME TypeOK, Served, WalkInv, Clear, NEW a \in Answer
    PROVE  KeptCount(a)' = KeptCount(a)
<1>1. /\ uiUser \in User /\ uiUser' = NoUser /\ uiNext > Len(Kept)
      /\ m_mapNickNameTask' = [m_mapNickNameTask EXCEPT ![uiUser] = <<>>]
  BY DEF Clear, UiReturn, Served, WalkInv
<1>2. UserOf[a] \in User /\ uiNext \in Nat \ {0} /\ Kept \in Seq(Answer)
  BY <1>1, AnswerAssumption DEF TypeOK, Kept
<1>3. StillKept(UserOf[a])' = m_mapNickNameTask'[UserOf[a]]
  BY <1>1, <1>2, AnswerAssumption DEF StillKept
<1>4. StillKept(UserOf[a])' = StillKept(UserOf[a])
  <2>1. CASE UserOf[a] = uiUser
    <3>1. StillKept(UserOf[a]) = SubSeq(Kept, uiNext, Len(Kept))
      BY <2>1 DEF StillKept, Kept
    <3>2. StillKept(UserOf[a]) = <<>>
      BY <1>1, <1>2, <3>1, RestOf
    <3> QED BY <1>1, <1>2, <1>3, <2>1, <3>2 DEF TypeOK
  <2>2. CASE UserOf[a] # uiUser
    BY <1>1, <1>2, <1>3, <2>2 DEF TypeOK, StillKept
  <2> QED BY <2>1, <2>2
<1> QED BY <1>4 DEF KeptCount

LEMMA OnceStep ==
    TypeOK /\ Affinity /\ InHand /\ Served /\ NeverNameless /\ PlaceInv /\ [Next]_vars
        => OnceInv'
<1> SUFFICES ASSUME TypeOK, Affinity, InHand, Served, NeverNameless, PlaceInv,
                    [Next]_vars, NEW a \in Answer
             PROVE  (PoolCount(a) + KeptCount(a) + QueueCount(a) + NotifyCount(a)
                         + SentCount(a) = AskedCount(a))'
  BY DEF OnceInv
<1> USE DEF nameVars, poolVars, uiVars, queueVars, notifyVars, makingVars
<1>0. NotifyInv /\ KeptInv /\ WalkInv /\ PoolInv /\ OnceInv
  BY DEF PlaceInv
<1>a. /\ PoolCount(a) + KeptCount(a) + QueueCount(a) + NotifyCount(a)
             + SentCount(a) = AskedCount(a)
      /\ PoolCount(a) \in Nat /\ KeptCount(a) \in Nat /\ QueueCount(a) \in Nat
      /\ NotifyCount(a) \in Nat /\ SentCount(a) \in Nat /\ AskedCount(a) \in Nat
  BY <1>0, CountTypes, SMTT(30) DEF OnceInv
<1>b. ASSUME UNCHANGED asked PROVE AskedCount(a)' = AskedCount(a)
  BY <1>b DEF AskedCount
<1>c. ASSUME UNCHANGED _task_list PROVE QueueCount(a)' = QueueCount(a)
  BY <1>c DEF QueueCount
<1>d. ASSUME UNCHANGED notifyTask PROVE NotifyCount(a)' = NotifyCount(a)
  BY <1>d DEF NotifyCount
<1>e. ASSUME UNCHANGED sent PROVE SentCount(a)' = SentCount(a)
  BY <1>e DEF SentCount
\* Nothing is passed on.
<1>1. ASSUME PoolCount(a)' = PoolCount(a), KeptCount(a)' = KeptCount(a),
             UNCHANGED <<asked, _task_list, notifyTask, sent>>
      PROVE  (PoolCount(a) + KeptCount(a) + QueueCount(a) + NotifyCount(a)
                  + SentCount(a) = AskedCount(a))'
  BY <1>1, <1>a, <1>b, <1>c, <1>d, <1>e
<1>2. ASSUME NEW b \in Answer, Ask(b)
      PROVE  (PoolCount(a) + KeptCount(a) + QueueCount(a) + NotifyCount(a)
                  + SentCount(a) = AskedCount(a))'
  <2>1. /\ ~Contains(asked, b) /\ asked' = Append(asked, b)
        /\ asked \in Seq(Answer)
        /\ UNCHANGED <<m_mapNickNameTask, uiUser, uiNext, _task_list, notifyTask, sent>>
    BY <1>2 DEF Ask, TypeOK
  <2>2. ~Pooled(b)
    BY <1>0, <2>1, NotAskedNowhere
  <2>3. PoolCount(a)' = PoolCount(a) + One(a = b)
    BY <1>2, <2>2, PoolAdds
  <2>4. Contains(asked', a) <=> Contains(asked, a) \/ a = b
    BY <2>1, Added
  <2>5. AskedCount(a)' = AskedCount(a) + One(a = b)
    BY <2>1, <2>4 DEF AskedCount, One
  <2>6. KeptCount(a)' = KeptCount(a)
    BY <2>1, KeptSame
  <2>7. One(a = b) \in Nat
    BY DEF One
  <2> QED BY <1>a, <1>c, <1>d, <1>e, <2>1, <2>3, <2>5, <2>6, <2>7, SMTT(30)
<1>3. ASSUME NEW w \in Worker, Respond(w)
      PROVE  (PoolCount(a) + KeptCount(a) + QueueCount(a) + NotifyCount(a)
                  + SentCount(a) = AskedCount(a))'
  BY <1>1, <1>3, PoolBegins, KeptSame DEF Respond
<1>4. ASSUME NEW w \in Worker, SendPlain(w) \/ SendAtMsg(w)
      PROVE  (PoolCount(a) + KeptCount(a) + QueueCount(a) + NotifyCount(a)
                  + SentCount(a) = AskedCount(a))'
  <2>1. /\ Busy(w) /\ UNCHANGED <<todo, asked, m_mapNickNameTask, uiUser, uiNext,
                                  _task_list, notifyTask>>
        /\ running' = [running EXCEPT ![w] = NoAnswer]
        /\ workerPc' = [workerPc EXCEPT ![w] = "free"]
        /\ sent' = Append(sent, running[w])
    BY <1>4 DEF SendPlain, SendAtMsg, InCallback, Return, Pool!Finish, Busy
  <2>2. running[w] \in Answer /\ sent \in Seq(Answer)
    BY <2>1, HandTypes DEF Busy, TypeOK
  <2>3. /\ running'[w] \notin Answer
        /\ \A v \in Worker \ {w} : running'[v] = running[v] /\ Busy(v)' = Busy(v)
    BY <2>1, AnswerAssumption DEF TypeOK, Busy
  <2>4. PoolCount(a) = PoolCount(a)' + One(running[w] = a)
    BY <1>0, <2>1, <2>3, PoolLeaves
  <2>5. SentCount(a)' = SentCount(a) + One(running[w] = a)
    BY <2>1, <2>2, TimesAppend DEF SentCount, One
  <2>6. KeptCount(a)' = KeptCount(a)
    BY <2>1, KeptSame
  <2>7. One(running[w] = a) \in Nat /\ PoolCount(a)' \in Nat
    BY DEF One, PoolCount
  <2> QED BY <1>a, <1>b, <1>c, <1>d, <2>1, <2>4, <2>5, <2>6, <2>7, SMTT(30)
<1>5. ASSUME NEW w \in Worker, LookUpInVain(w)
      PROVE  (PoolCount(a) + KeptCount(a) + QueueCount(a) + NotifyCount(a)
                  + SentCount(a) = AskedCount(a))'
  <2>1. \A v \in Worker : Busy(v)' = Busy(v)
    BY <1>5 DEF LookUpInVain, InCallback, Busy, TypeOK
  <2> QED BY <1>1, <1>5, <2>1, PoolSame, KeptSame DEF LookUpInVain
<1>6. ASSUME NEW w \in Worker, AddTask(w)
      PROVE  (PoolCount(a) + KeptCount(a) + QueueCount(a) + NotifyCount(a)
                  + SentCount(a) = AskedCount(a))'
  <2>1. /\ Busy(w) /\ UNCHANGED <<todo, running, asked, _task_list, notifyTask, sent>>
        /\ workerPc' = [workerPc EXCEPT ![w] = "request"]
    BY <1>6 DEF AddTask, Keep, Busy
  <2>2. /\ ~Busy(w)'
        /\ \A v \in Worker \ {w} : running'[v] = running[v] /\ Busy(v)' = Busy(v)
    BY <2>1 DEF TypeOK, Busy
  <2>3. PoolCount(a) = PoolCount(a)' + One(running[w] = a)
    BY <1>0, <2>1, <2>2, PoolLeaves
  <2>4. KeptCount(a)' = KeptCount(a) + One(running[w] = a)
    BY <1>0, <1>6, KeptGrows
  <2>5. One(running[w] = a) \in Nat /\ PoolCount(a)' \in Nat
    BY DEF One, PoolCount
  <2> QED BY <1>a, <1>b, <1>c, <1>d, <1>e, <2>1, <2>3, <2>4, <2>5
\* A worker goes on from its request.
<1>7. ASSUME NEW w \in Worker, workerPc[w] = "request", Return(w),
             KeptCount(a)' = KeptCount(a),
             UNCHANGED <<asked, _task_list, notifyTask, sent>>
      PROVE  (PoolCount(a) + KeptCount(a) + QueueCount(a) + NotifyCount(a)
                  + SentCount(a) = AskedCount(a))'
  <2> DEFINE h == Pool!WorkerOf(a)
  <2>1. /\ todo' = todo /\ running' = [running EXCEPT ![w] = NoAnswer]
        /\ workerPc' = [workerPc EXCEPT ![w] = "free"]
    BY <1>7 DEF Return, Pool!Finish
  <2>2. /\ ~Busy(w) /\ ~Busy(w)'
        /\ \A v \in Worker \ {w} : running'[v] = running[v] /\ Busy(v)' = Busy(v)
    BY <1>7, <2>1 DEF TypeOK, Busy
  <2>3. Pooled(a)' <=> Pooled(a)
    BY <2>1, <2>2, WorkerOfType DEF Pooled
  <2>4. PoolCount(a)' = PoolCount(a)
    BY <2>3 DEF PoolCount, One
  <2> QED BY <1>1, <1>7, <2>4
<1>8. ASSUME NEW w \in Worker, NotFound(w) \/ ActivateWithoutName(w)
      PROVE  (PoolCount(a) + KeptCount(a) + QueueCount(a) + NotifyCount(a)
                  + SentCount(a) = AskedCount(a))'
  BY <1>7, <1>8, KeptSame DEF NotFound, Waiting, ActivateWithoutName
<1>9. ASSUME UNCHANGED <<todo, running, workerPc, asked, _task_list, notifyTask, sent>>,
             KeptCount(a)' = KeptCount(a)
      PROVE  (PoolCount(a) + KeptCount(a) + QueueCount(a) + NotifyCount(a)
                  + SentCount(a) = AskedCount(a))'
  BY <1>1, <1>9, PoolSame DEF Busy
<1>10. ASSUME NEW w \in Worker, ActivateTask(w)
       PROVE  (PoolCount(a) + KeptCount(a) + QueueCount(a) + NotifyCount(a)
                   + SentCount(a) = AskedCount(a))'
  BY <1>0, <1>9, <1>10, KeptBegins DEF ActivateTask
<1>11. CASE QueueNext
  <2>1. UNCHANGED <<todo, running, workerPc, asked, notifyTask, sent>>
    BY <1>11 DEF QueueNext
  <2>2. PoolCount(a)' = PoolCount(a)
    BY <2>1, PoolSame DEF Busy
  <2>3. /\ KeptCount(a) = KeptCount(a)' + One(Kept[uiNext] = a)
        /\ QueueCount(a)' = QueueCount(a) + One(Kept[uiNext] = a)
    BY <1>0, <1>11, KeptQueued
  <2>4. KeptCount(a)' \in Nat /\ One(Kept[uiNext] = a) \in Nat
    <3>1. TypeOK'
      BY TypeStep
    <3>2. m_mapNickNameTask'[UserOf[a]] \in Seq(Answer) /\ uiNext' \in Nat \ {0}
      BY <3>1, AnswerAssumption DEF TypeOK
    <3>3. StillKept(UserOf[a])' \in Seq(Answer)
      BY <3>2, RestOf DEF StillKept
    <3>4. KeptCount(a)' = Times(a, StillKept(UserOf[a])')
      BY DEF KeptCount
    <3> QED BY <3>3, <3>4, TimesType DEF One
  <2> QED BY <1>a, <1>b, <1>d, <1>e, <2>1, <2>2, <2>3, <2>4
<1>12. CASE Clear
  <2>1. KeptCount(a)' = KeptCount(a)
    BY <1>0, <1>12, KeptEnds
  <2>2. uiFor \in Worker /\ workerPc[uiFor] = "request" /\ Return(uiFor)
    BY <1>12 DEF Clear, UiReturn, TypeOK, Served
  <2> QED BY <1>7, <1>12, <2>1, <2>2 DEF Clear
<1>13. CASE Pop
  <2>1. /\ _task_list \in Seq(Answer) /\ _task_list # <<>>
        /\ _task_list' = Tail(_task_list) /\ notifyTask' = Head(_task_list)
        /\ notifyTask = NoAnswer
        /\ UNCHANGED <<todo, running, workerPc, asked, sent,
                       m_mapNickNameTask, uiUser, uiNext>>
    BY <1>0, <1>13 DEF Pop, TypeOK, NotifyInv
  <2>2. QueueCount(a) = QueueCount(a)' + One(Head(_task_list) = a)
    BY <2>1, TimesTail DEF QueueCount, One
  <2>3. NotifyCount(a) = 0 /\ NotifyCount(a)' = One(Head(_task_list) = a)
    BY <2>1, AnswerAssumption DEF NotifyCount, One
  <2>4. PoolCount(a)' = PoolCount(a) /\ KeptCount(a)' = KeptCount(a)
    BY <2>1, PoolSame, KeptSame DEF Busy
  <2>5. QueueCount(a)' \in Nat /\ One(Head(_task_list) = a) \in Nat
    BY <2>1, TimesTail, TimesType DEF QueueCount, One
  <2> QED BY <1>a, <1>b, <1>e, <2>1, <2>2, <2>3, <2>4, <2>5
<1>14. CASE Execute
  <2>1. /\ notifyTask \in Answer /\ notifyTask \in named
        /\ sent \in Seq(Answer) /\ sent' = Append(sent, notifyTask)
        /\ notifyTask' = NoAnswer
        /\ UNCHANGED <<todo, running, workerPc, asked, _task_list,
                       m_mapNickNameTask, uiUser, uiNext>>
    BY <1>0, <1>14 DEF Execute, TypeOK, NotifyInv, NeverNameless
  <2>2. SentCount(a)' = SentCount(a) + NotifyCount(a)
    BY <2>1, TimesAppend DEF SentCount, NotifyCount, One
  <2>3. NotifyCount(a)' = 0
    BY <2>1, AnswerAssumption DEF NotifyCount, One
  <2>4. PoolCount(a)' = PoolCount(a) /\ KeptCount(a)' = KeptCount(a)
    BY <2>1, PoolSame, KeptSame DEF Busy
  <2> QED BY <1>a, <1>b, <1>c, <2>1, <2>2, <2>3, <2>4
<1>15. ASSUME UNCHANGED <<todo, running, workerPc, asked, _task_list, notifyTask, sent,
                          m_mapNickNameTask, uiUser, uiNext>>
       PROVE  (PoolCount(a) + KeptCount(a) + QueueCount(a) + NotifyCount(a)
                   + SentCount(a) = AskedCount(a))'
  BY <1>9, <1>15, KeptSame
<1> QED
  BY <1>2, <1>3, <1>4, <1>5, <1>6, <1>8, <1>10, <1>11, <1>12, <1>13, <1>14, <1>15
     DEF Next, SetExec, Start, Constructing, BeginRun,
         GetFriendList, ShowChatRoomMembers, EndLoop, SeeTasks, SeeNoTasks,
         Sleep, SpuriousWakeup, Timeout, Drained, NotifyGoto, vars

-----------------------------------------------------------------------------
(* The order of the answers that wait. *)

\* An answer that was given its nickname has been handed to the queue.
PassedInv ==
    \A a \in named :
        Contains(_task_list, a) \/ notifyTask = a \/ Contains(sent, a)

\* The way of an answer that waits, from its end: where a is.
At(n, i, a) ==
    \/ n = 1 /\ i \in 1 .. Len(sent) /\ sent[i] = a /\ a \in named
    \/ n = 2 /\ i = 1 /\ notifyTask = a
    \/ n = 3 /\ i \in 1 .. Len(_task_list) /\ _task_list[i] = a
    \/ /\ n = 4 /\ i \in 1 .. Len(m_mapNickNameTask[UserOf[a]])
       /\ m_mapNickNameTask[UserOf[a]][i] = a
       /\ uiUser = UserOf[a] => i >= uiNext
    \/ n = 5 /\ i = 1 /\ running[Pool!WorkerOf(a)] = a /\ Busy(Pool!WorkerOf(a))
    \/ /\ n = 6 /\ i \in 1 .. Len(todo[Pool!WorkerOf(a)])
       /\ todo[Pool!WorkerOf(a)][i] = a

Ahead(n, i, m, j) == n < m \/ (n = m /\ i < j)

AskedBefore(a, b) ==
    \E k, l \in 1 .. Len(asked) : k < l /\ asked[k] = a /\ asked[l] = b

\* Of two answers to one user the one that is ahead was asked first.
OrderInv ==
    \A a, b \in Answer : \A n, m \in 1 .. 6 : \A i, j \in Nat :
        /\ UserOf[a] = UserOf[b]
        /\ At(n, i, a) /\ At(m, j, b) /\ Ahead(n, i, m, j)
        => AskedBefore(a, b)

\* A named answer is not with a worker.
LEMMA HandUnnamed ==
    ASSUME TypeOK, Affinity, InHand, PassedInv, OnceInv, NEW w \in Worker, Busy(w)
    PROVE  running[w] \in Answer /\ running[w] \notin named
<1>1. running[w] \in Answer /\ Pool!WorkerOf(running[w]) = w
  BY HandTypes, AnswerAssumption DEF Affinity, Busy
<1> DEFINE a == running[w]
<1>2. PoolCount(a) = 1
  BY <1>1 DEF PoolCount, Pooled, One
<1>3. /\ KeptCount(a) \in Nat /\ QueueCount(a) \in Nat /\ SentCount(a) \in Nat
      /\ NotifyCount(a) \in 0 .. 1 /\ AskedCount(a) \in 0 .. 1
  BY <1>1, CountTypes
<1>4. PoolCount(a) + KeptCount(a) + QueueCount(a) + NotifyCount(a)
             + SentCount(a) = AskedCount(a)
  BY <1>1 DEF OnceInv
<1>5. QueueCount(a) = 0 /\ NotifyCount(a) = 0 /\ SentCount(a) = 0
  <2> HIDE DEF a
  <2> QED BY <1>2, <1>3, <1>4
<1>6. ~Contains(_task_list, a) /\ notifyTask # a /\ ~Contains(sent, a)
  <2>1. _task_list \in Seq(Answer) /\ sent \in Seq(Answer)
    BY DEF TypeOK
  <2> QED BY <1>5, <2>1, TimesType DEF QueueCount, NotifyCount, SentCount, One
<1> QED BY <1>1, <1>6 DEF PassedInv

\* An answer that is still kept has not been sent.
LEMMA KeptUnsent ==
    ASSUME TypeOK, Served, KeptInv, OnceInv, QueueNext
    PROVE  ~Contains(sent, Kept[uiNext])
<1> DEFINE a == Kept[uiNext]
           r == SubSeq(Kept, uiNext, Len(Kept))
<1>1. /\ a \in Answer /\ UserOf[a] = uiUser /\ Kept \in Seq(Answer)
      /\ uiNext \in Nat \ {0} /\ uiNext <= Len(Kept)
  BY QueuesAnswer
<1>2. r \in Seq(Answer) /\ r # <<>> /\ Head(r) = a
  BY <1>1, RestOf
<1>3. StillKept(UserOf[a]) = r
  BY <1>1 DEF StillKept, Kept
<1> HIDE DEF a, r
<1>4. Times(a, r) = Times(a, Tail(r)) + 1 /\ Times(a, Tail(r)) \in Nat
  BY <1>2, TimesTail, TimesType
<1>5. KeptCount(a) = Times(a, r)
  BY <1>3 DEF KeptCount
<1>6. /\ PoolCount(a) \in 0 .. 1 /\ QueueCount(a) \in Nat /\ SentCount(a) \in Nat
      /\ NotifyCount(a) \in 0 .. 1 /\ AskedCount(a) \in 0 .. 1
      /\ PoolCount(a) + KeptCount(a) + QueueCount(a) + NotifyCount(a)
             + SentCount(a) = AskedCount(a)
  BY <1>1, CountTypes DEF OnceInv
<1>7. SentCount(a) = 0
  BY <1>4, <1>5, <1>6
<1>8. sent \in Seq(Answer)
  BY DEF TypeOK
<1> QED BY <1>7, <1>8, TimesType DEF SentCount, a

\* What is somewhere on its way has been asked.
LEMMA PlacedAsked ==
    ASSUME TypeOK, OnceInv, NEW a \in Answer, NEW n, NEW i, n # 4, At(n, i, a)
    PROVE  Contains(asked, a)
<1> SUFFICES ASSUME ~Contains(asked, a) PROVE FALSE
  OBVIOUS
<1>1. /\ ~Pooled(a) /\ QueueCount(a) = 0 /\ notifyTask # a /\ SentCount(a) = 0
  BY NotAskedNowhere
<1>2. _task_list \in Seq(Answer) /\ sent \in Seq(Answer)
  BY DEF TypeOK
<1>3. ~Contains(_task_list, a) /\ ~Contains(sent, a)
  BY <1>1, <1>2, TimesType DEF QueueCount, SentCount
<1> QED BY <1>1, <1>3 DEF At, Contains, Pooled

LEMMA KeptAsked ==
    ASSUME TypeOK, OnceInv, NEW a \in Answer, NEW i, At(4, i, a)
    PROVE  Contains(asked, a)
<1> SUFFICES ASSUME ~Contains(asked, a) PROVE FALSE
  OBVIOUS
<1> DEFINE s == m_mapNickNameTask[UserOf[a]]
<1>1. KeptCount(a) = 0 /\ UserOf[a] \in User
  BY NotAskedNowhere, CountTypes
<1>2. /\ s \in Seq(Answer) /\ uiNext \in Nat \ {0}
      /\ i \in 1 .. Len(s) /\ s[i] = a /\ (uiUser = UserOf[a] => i >= uiNext)
  BY <1>1 DEF At, TypeOK
<1>3. StillKept(UserOf[a]) = IF uiUser = UserOf[a] THEN SubSeq(s, uiNext, Len(s)) ELSE s
  BY DEF StillKept
<1> HIDE DEF s
<1>4. StillKept(UserOf[a]) \in Seq(Answer) /\ ~Contains(StillKept(UserOf[a]), a)
  BY <1>1, CountTypes, TimesType DEF KeptCount
<1>5. CASE uiUser = UserOf[a]
  <2> DEFINE r == SubSeq(s, uiNext, Len(s))
  <2>1. /\ Len(r) = IF uiNext > Len(s) THEN 0 ELSE Len(s) - uiNext + 1
        /\ \A k \in 1 .. Len(r) : r[k] = s[uiNext + k - 1]
    BY <1>2
  <2>2. i - uiNext + 1 \in 1 .. Len(r) /\ r[i - uiNext + 1] = s[i]
    BY <1>2, <1>5, <2>1
  <2> QED BY <1>2, <1>3, <1>4, <1>5, <2>2 DEF Contains
<1>6. CASE uiUser # UserOf[a]
  BY <1>2, <1>3, <1>4, <1>6 DEF Contains
<1> QED BY <1>5, <1>6

-----------------------------------------------------------------------------
(* Every step keeps the order. *)

LEMMA PassedStep ==
    TypeOK /\ Served /\ KeptInv /\ NotifyInv /\ PassedInv /\ [Next]_vars => PassedInv'
<1> SUFFICES ASSUME TypeOK, Served, KeptInv, NotifyInv, PassedInv, [Next]_vars
             PROVE  PassedInv'
  OBVIOUS
<1> USE DEF nameVars, poolVars, uiVars, queueVars, notifyVars, makingVars
<1>0. _task_list \in Seq(Answer) /\ sent \in Seq(Answer) /\ named \subseteq Answer
  BY DEF TypeOK
<1>1. ASSUME UNCHANGED <<_task_list, notifyTask, named>>,
             sent' = sent \/ \E b \in Answer : sent' = Append(sent, b)
      PROVE  PassedInv'
  <2>1. \A a : Contains(sent, a) => Contains(sent', a)
    <3>1. CASE sent' = sent
      BY <3>1
    <3>2. ASSUME NEW b \in Answer, sent' = Append(sent, b)
          PROVE  \A a : Contains(sent, a) => Contains(sent', a)
      BY <1>0, <3>2, Added
    <3> QED BY <1>1, <3>1, <3>2
  <2> QED BY <1>1, <2>1 DEF PassedInv
<1>2. CASE QueueNext
  <2> DEFINE b == Kept[uiNext]
  <2>1. b \in Answer
    BY <1>2, QueuesAnswer
  <2>2. /\ _task_list' = Append(_task_list, b) /\ named' = named \cup {b}
        /\ UNCHANGED <<notifyTask, sent>>
    BY <1>2 DEF QueueNext
  <2> HIDE DEF b
  <2>3. \A a : Contains(_task_list', a) <=> Contains(_task_list, a) \/ a = b
    BY <1>0, <2>1, <2>2, Added
  <2> QED BY <2>2, <2>3 DEF PassedInv
<1>3. CASE Pop
  <2>1. /\ _task_list # <<>> /\ _task_list' = Tail(_task_list)
        /\ notifyTask' = Head(_task_list) /\ notifyTask = NoAnswer
        /\ UNCHANGED <<named, sent>>
    BY <1>3 DEF Pop, NotifyInv
  <2>2. \A a : Contains(_task_list, a)
                   => Contains(Tail(_task_list), a) \/ Head(_task_list) = a
    BY <1>0, <2>1 DEF Contains
  <2> QED BY <1>0, <2>1, <2>2, AnswerAssumption DEF PassedInv
<1>4. CASE Execute
  <2>1. /\ notifyTask \in Answer /\ notifyTask' = NoAnswer
        /\ sent' = IF notifyTask \in named THEN Append(sent, notifyTask) ELSE sent
        /\ UNCHANGED <<_task_list, named>>
    BY <1>4 DEF Execute, TypeOK, NotifyInv
  <2>2. \A a \in named : Contains(sent, a) \/ notifyTask = a => Contains(sent', a)
    BY <1>0, <2>1, Added
  <2> QED BY <2>1, <2>2 DEF PassedInv
<1>5. ASSUME NEW w \in Worker,
             \/ Respond(w) \/ SendPlain(w) \/ SendAtMsg(w) \/ LookUpInVain(w)
             \/ AddTask(w) \/ NotFound(w) \/ ActivateWithoutName(w)
             \/ ActivateTask(w)
      PROVE  /\ UNCHANGED <<_task_list, notifyTask, named>>
             /\ sent' = sent \/ (running[w] # NoAnswer /\ sent' = Append(sent, running[w]))
  BY <1>5 DEF Respond, SendPlain, SendAtMsg, LookUpInVain, AddTask, NotFound,
              ActivateWithoutName, ActivateTask, Return, Pool!Finish
<1>6. ASSUME NEW w \in Worker,
             \/ Respond(w) \/ SendPlain(w) \/ SendAtMsg(w) \/ LookUpInVain(w)
             \/ AddTask(w) \/ NotFound(w) \/ ActivateWithoutName(w)
             \/ ActivateTask(w)
      PROVE  PassedInv'
  BY <1>1, <1>5, <1>6 DEF TypeOK
<1> QED
  BY <1>1, <1>2, <1>3, <1>4, <1>6
     DEF Next, SetExec, Start, Constructing, BeginRun,
         Ask, GetFriendList, ShowChatRoomMembers, EndLoop, Clear,
         SeeTasks, SeeNoTasks, Sleep, SpuriousWakeup, Timeout, Drained,
         NotifyGoto, vars

\* What was asked before stays before.
LEMMA AskedStays ==
    ASSUME asked' = asked \/ (asked \in Seq(Answer) /\ \E c : asked' = Append(asked, c))
    PROVE  \A a, b : AskedBefore(a, b) => AskedBefore(a, b)'
<1>1. CASE asked' = asked
  BY <1>1 DEF AskedBefore
<1>2. CASE asked \in Seq(Answer) /\ \E c : asked' = Append(asked, c)
  <2>1. /\ Len(asked') = Len(asked) + 1 /\ Len(asked) \in Nat
        /\ \A i \in 1 .. Len(asked) : asked'[i] = asked[i]
    BY <1>2
  <2>2. 1 .. Len(asked) \subseteq 1 .. Len(asked')
    BY <2>1
  <2> QED BY <2>1, <2>2 DEF AskedBefore
<1> QED BY <1>1, <1>2

\* Where the answers come from, in the order in which they are.
LEMMA OrderFrom ==
    ASSUME OrderInv,
           asked' = asked \/ (asked \in Seq(Answer) /\ \E c : asked' = Append(asked, c)),
           \A a, b \in Answer : \A n, m \in 1 .. 6 : \A i, j \in Nat :
               UserOf[a] = UserOf[b] /\ At(n, i, a)' /\ At(m, j, b)' /\ Ahead(n, i, m, j)
               => \/ AskedBefore(a, b)'
                  \/ \E n0, m0 \in 1 .. 6 : \E i0, j0 \in Nat :
                         At(n0, i0, a) /\ At(m0, j0, b) /\ Ahead(n0, i0, m0, j0)
    PROVE  OrderInv'
<1>1. \A a, b : AskedBefore(a, b) => AskedBefore(a, b)'
  BY AskedStays
<1>2. ASSUME NEW a \in Answer, NEW b \in Answer, NEW n \in 1 .. 6, NEW m \in 1 .. 6,
             NEW i \in Nat, NEW j \in Nat,
             UserOf[a] = UserOf[b], At(n, i, a)', At(m, j, b)', Ahead(n, i, m, j)
      PROVE  AskedBefore(a, b)'
  <2>1. CASE \E n0, m0 \in 1 .. 6 : \E i0, j0 \in Nat :
                 At(n0, i0, a) /\ At(m0, j0, b) /\ Ahead(n0, i0, m0, j0)
    <3>1. AskedBefore(a, b)
      BY <1>2, <2>1 DEF OrderInv
    <3> QED BY <1>1, <3>1, SMTT(30)
  <2> QED BY <1>2, <2>1
<1> QED BY <1>2, SMTT(30) DEF OrderInv, Ahead

\* Nobody takes a new place.
LEMMA OrderLost ==
    ASSUME OrderInv, UNCHANGED asked,
           \A a \in Answer : \A n \in 1 .. 6 : \A i \in Nat : At(n, i, a)' => At(n, i, a)
    PROVE  OrderInv'
  BY OrderFrom, ZenonT(40)

LEMMA OrderAsk ==
    ASSUME TypeOK, OnceInv, OrderInv, NEW c \in Answer, Ask(c)
    PROVE  OrderInv'
<1> USE DEF nameVars, poolVars, uiVars, queueVars, notifyVars, makingVars
<1> DEFINE w == Pool!WorkerOf(c)
           last == Len(todo[w]) + 1
<1>1. /\ ~Contains(asked, c) /\ asked \in Seq(Answer) /\ asked' = Append(asked, c)
      /\ todo[w] \in Seq(Answer) /\ todo'[w] = Append(todo[w], c)
      /\ \A v \in Worker \ {w} : todo'[v] = todo[v]
      /\ UNCHANGED <<sent, named, notifyTask, _task_list, m_mapNickNameTask, uiUser,
                     uiNext, running, workerPc>>
  BY WorkerOfType DEF Ask, Pool!Add, TypeOK
<1>2. ASSUME NEW a \in Answer, NEW n \in 1 .. 6, NEW i \in Nat, At(n, i, a)'
      PROVE  At(n, i, a) \/ (n = 6 /\ i = last /\ a = c)
  <2>1. CASE n = 6
    <3>1. CASE Pool!WorkerOf(a) = w
      <4>1. i \in 1 .. Len(todo'[w]) /\ todo'[w][i] = a
        BY <1>2, <2>1, <3>1 DEF At
      <4>2. \/ i \in 1 .. Len(todo[w]) /\ todo[w][i] = a
            \/ i = last /\ a = c
        <5> HIDE DEF w
        <5> QED BY <1>1, <4>1
      <4> QED BY <2>1, <3>1, <4>2 DEF At
    <3>2. CASE Pool!WorkerOf(a) # w
      BY <1>1, <1>2, <2>1, <3>2, WorkerOfType DEF At
    <3> QED BY <3>1, <3>2
  <2>2. CASE n # 6
    BY <1>1, <1>2, <2>2 DEF At, Busy
  <2> QED BY <2>1, <2>2
<1>3. ASSUME NEW a \in Answer, Contains(asked, a)
      PROVE  AskedBefore(a, c)'
  <2>1. /\ Len(asked') = Len(asked) + 1 /\ Len(asked) \in Nat
        /\ asked'[Len(asked) + 1] = c
        /\ \A i \in 1 .. Len(asked) : asked'[i] = asked[i]
    BY <1>1
  <2>2. PICK k \in 1 .. Len(asked) : asked[k] = a
    BY <1>3 DEF Contains
  <2>3. k \in 1 .. Len(asked') /\ Len(asked) + 1 \in 1 .. Len(asked') /\ k < Len(asked) + 1
    BY <2>1
  <2> QED BY <2>1, <2>2, <2>3 DEF AskedBefore
<1>4. ASSUME NEW a \in Answer, NEW b \in Answer, NEW n \in 1 .. 6, NEW m \in 1 .. 6,
             NEW i \in Nat, NEW j \in Nat, UserOf[a] = UserOf[b],
             At(n, i, a)', At(m, j, b)', Ahead(n, i, m, j)
      PROVE  \/ AskedBefore(a, b)'
             \/ At(n, i, a) /\ At(m, j, b)
  <2>1. CASE At(n, i, a) /\ At(m, j, b)
    BY <2>1
  <2>2. CASE At(n, i, a) /\ m = 6 /\ j = last /\ b = c
    BY <1>3, <2>2, PlacedAsked, KeptAsked
  <2>3. ~(n = 6 /\ i = last /\ a = c)
    <3>1. SUFFICES ASSUME n = 6, i = last, a = c PROVE FALSE
      OBVIOUS
    <3>2. m = 6 /\ j > last
      BY <1>4, <3>1 DEF Ahead
    <3>3. Pool!WorkerOf(b) = w
      BY <1>4, <3>1, SameUser
    <3>4. j \in 1 .. Len(todo'[w])
      BY <1>4, <3>2, <3>3 DEF At
    <3>5. Len(todo'[w]) = last /\ last \in Nat
      BY <1>1
    <3> HIDE DEF last, w
    <3> QED BY <3>2, <3>4, <3>5
  <2> QED BY <1>2, <1>4, <2>1, <2>2, <2>3
<1>5. ASSUME NEW a \in Answer, NEW b \in Answer, NEW n \in 1 .. 6, NEW m \in 1 .. 6,
             NEW i \in Nat, NEW j \in Nat, UserOf[a] = UserOf[b],
             At(n, i, a)', At(m, j, b)', Ahead(n, i, m, j)
      PROVE  \/ AskedBefore(a, b)'
             \/ \E n0, m0 \in 1 .. 6 : \E i0, j0 \in Nat :
                    At(n0, i0, a) /\ At(m0, j0, b) /\ Ahead(n0, i0, m0, j0)
  BY <1>4, <1>5
<1> QED BY <1>1, <1>5, OrderFrom, ZenonT(40)

\* An answer moves from the head of its place to the end of the next.
LEMMA OrderRespond ==
    ASSUME TypeOK, InHand, OrderInv, NEW w \in Worker, Respond(w)
    PROVE  OrderInv'
<1> USE DEF nameVars, poolVars, uiVars, queueVars, notifyVars, makingVars
<1>1. /\ todo[w] \in Seq(Answer) /\ todo[w] # <<>>
      /\ todo'[w] = Tail(todo[w]) /\ running'[w] = Head(todo[w])
      /\ \A v \in Worker \ {w} :
             todo'[v] = todo[v] /\ running'[v] = running[v] /\ Busy(v)' = Busy(v)
      /\ UNCHANGED <<asked, sent, named, notifyTask, _task_list, m_mapNickNameTask,
                     uiUser, uiNext>>
  BY DEF Respond, Pool!Begin, TypeOK, Busy
<1>2. /\ Head(todo[w]) = todo[w][1] /\ 1 \in 1 .. Len(todo[w])
      /\ \A i \in 1 .. Len(Tail(todo[w])) :
             /\ Tail(todo[w])[i] = todo[w][i + 1]
             /\ i + 1 \in 1 .. Len(todo[w])
  BY <1>1
<1>3. ASSUME NEW a \in Answer, NEW n \in 1 .. 6, NEW i \in Nat, At(n, i, a)',
             Pool!WorkerOf(a) # w
      PROVE  At(n, i, a)
  BY <1>1, <1>3, WorkerOfType DEF At
<1>4. ASSUME NEW a \in Answer, NEW n \in 1 .. 6, NEW i \in Nat, At(n, i, a)',
             Pool!WorkerOf(a) = w
      PROVE  /\ n < 5 => At(n, i, a)
             /\ n = 5 => At(6, 1, a) /\ i = 1
             /\ n = 6 => At(6, i + 1, a) /\ i >= 1
  <2>1. CASE n < 5
    BY <1>1, <1>4, <2>1 DEF At
  <2>2. CASE n = 5
    <3>1. i = 1 /\ running'[w] = a
      BY <1>4, <2>2 DEF At
    <3> QED BY <1>1, <1>2, <1>4, <2>2, <3>1 DEF At
  <2>3. CASE n = 6
    <3>0. i \in 1 .. Len(todo'[w]) /\ todo'[w][i] = a
      BY <1>4, <2>3 DEF At
    <3>1. i \in 1 .. Len(Tail(todo[w])) /\ Tail(todo[w])[i] = a
      BY <1>1, <3>0
    <3>2. i + 1 \in 1 .. Len(todo[w]) /\ todo[w][i + 1] = a /\ i >= 1
      BY <1>2, <3>1
    <3> QED BY <1>4, <2>3, <3>2 DEF At
  <2> QED BY <2>1, <2>2, <2>3
<1>5. ASSUME NEW a \in Answer, NEW b \in Answer, NEW n \in 1 .. 6, NEW m \in 1 .. 6,
             NEW i \in Nat, NEW j \in Nat, UserOf[a] = UserOf[b],
             At(n, i, a)', At(m, j, b)', Ahead(n, i, m, j)
      PROVE  \E n0, m0 \in 1 .. 6 : \E i0, j0 \in Nat :
                 At(n0, i0, a) /\ At(m0, j0, b) /\ Ahead(n0, i0, m0, j0)
  <2>1. Pool!WorkerOf(a) = Pool!WorkerOf(b)
    BY <1>5, SameUser
  <2>2. CASE Pool!WorkerOf(a) # w
    BY <1>3, <1>5, <2>1, <2>2
  <2>3. CASE Pool!WorkerOf(a) = w
    <3>1. CASE m < 5
      <4>1. n < 5
        BY <1>5, <3>1 DEF Ahead
      <4> QED BY <1>4, <1>5, <2>1, <2>3, <3>1, <4>1
    <3>2. CASE m = 5
      <4>1. At(6, 1, b) /\ j = 1
        BY <1>4, <1>5, <2>1, <2>3, <3>2
      <4>2. n = 5 => i = 1
        BY <1>4, <1>5, <2>3
      <4>3. n < 5
        BY <1>5, <3>2, <4>1, <4>2 DEF Ahead
      <4>4. At(n, i, a) /\ Ahead(n, i, 6, 1)
        BY <1>4, <1>5, <2>3, <4>3 DEF Ahead
      <4> QED BY <4>1, <4>4
    <3>3. CASE m = 6
      <4>0. Pool!WorkerOf(b) = w
        BY <2>1, <2>3
      <4>1. At(6, j + 1, b) /\ j >= 1 /\ j + 1 \in Nat
        <5>1. At(6, j, b)'
          BY <1>5, <3>3
        <5> QED BY <1>4, <4>0, <5>1
      <4>2. \/ n < 5 /\ At(n, i, a) /\ Ahead(n, i, 6, j + 1)
            \/ n = 5 /\ At(6, 1, a) /\ Ahead(6, 1, 6, j + 1)
            \/ n = 6 /\ At(6, i + 1, a) /\ Ahead(6, i + 1, 6, j + 1)
        BY <1>4, <1>5, <2>3, <3>3, <4>1 DEF Ahead
      <4> QED BY <4>1, <4>2
    <3> QED BY <3>1, <3>2, <3>3
  <2> QED BY <2>2, <2>3
<1> QED BY <1>1, <1>5, OrderFrom, ZenonT(40)

LEMMA OrderSend ==
    ASSUME TypeOK, Affinity, InHand, PassedInv, OnceInv, OrderInv,
           NEW w \in Worker, SendPlain(w) \/ SendAtMsg(w)
    PROVE  OrderInv'
<1> USE DEF nameVars, poolVars, uiVars, queueVars, notifyVars, makingVars
<1>1. /\ Busy(w)
      /\ UNCHANGED <<asked, named, notifyTask, _task_list, m_mapNickNameTask,
                     uiUser, uiNext, todo>>
      /\ running' = [running EXCEPT ![w] = NoAnswer]
      /\ workerPc' = [workerPc EXCEPT ![w] = "free"]
      /\ sent' = Append(sent, running[w]) /\ sent \in Seq(Answer)
  BY DEF SendPlain, SendAtMsg, InCallback, Return, Pool!Finish, Busy, TypeOK
<1>2. running[w] \in Answer /\ running[w] \notin named
  BY <1>1, HandUnnamed
<1>3. \A i \in 1 .. Len(sent') :
          (i \in 1 .. Len(sent) /\ sent'[i] = sent[i]) \/ sent'[i] = running[w]
  BY <1>1, <1>2
<1>4. \A v \in Worker : Busy(v)' => Busy(v) /\ running'[v] = running[v]
  BY <1>1 DEF Busy, TypeOK
<1>5. ASSUME NEW a \in Answer, NEW n \in 1 .. 6, NEW i \in Nat, At(n, i, a)'
      PROVE  At(n, i, a)
  <2>1. CASE n = 1
    BY <1>1, <1>2, <1>3, <1>5, <2>1 DEF At
  <2>2. CASE n = 5
    BY <1>4, <1>5, <2>2, WorkerOfType DEF At
  <2>3. CASE n \in {2, 3, 4, 6}
    BY <1>1, <1>5, <2>3 DEF At
  <2> QED BY <2>1, <2>2, <2>3
<1> QED BY <1>1, <1>5, OrderLost

\* A worker keeps its answer behind those of the same user.
LEMMA OrderKeep ==
    ASSUME TypeOK, Affinity, InHand, Served, WalkInv, OrderInv,
           NEW w \in Worker, AddTask(w)
    PROVE  OrderInv'
<1> USE DEF nameVars, poolVars, uiVars, queueVars, notifyVars, makingVars
<1> DEFINE s == m_mapNickNameTask[Asker(w)]
           c == running[w]
           last == Len(s) + 1
<1>1. /\ c \in Answer /\ UserOf[c] = Asker(w) /\ Asker(w) \in User
      /\ s \in Seq(Answer)
      /\ m_mapNickNameTask'[Asker(w)] = Append(s, c)
      /\ \A u \in User \ {Asker(w)} : m_mapNickNameTask'[u] = m_mapNickNameTask[u]
  BY KeepsAnswer DEF Asker
<1>2. /\ Busy(w) /\ Pool!WorkerOf(c) = w
      /\ workerPc' = [workerPc EXCEPT ![w] = "request"]
      /\ UNCHANGED <<asked, sent, named, notifyTask, _task_list, uiUser, uiNext,
                     todo, running>>
  BY <1>1, AnswerAssumption DEF AddTask, Keep, Busy, Affinity
<1>3. \A v \in Worker : Busy(v)' => Busy(v) /\ v # w
  BY <1>2 DEF Busy, TypeOK
<1>4. At(5, 1, c)
  BY <1>2 DEF At
<1>5. ASSUME NEW a \in Answer, NEW n \in 1 .. 6, NEW i \in Nat, At(n, i, a)'
      PROVE  \/ At(n, i, a) /\ (n = 4 /\ UserOf[a] = Asker(w) => i < last)
                            /\ (n = 5 => Pool!WorkerOf(a) # w)
             \/ n = 4 /\ i = last /\ a = c
  <2>1. CASE n = 4
    <3>1. CASE UserOf[a] = Asker(w)
      <4>1. /\ i \in 1 .. Len(Append(s, c)) /\ Append(s, c)[i] = a
            /\ uiUser = UserOf[a] => i >= uiNext
        BY <1>1, <1>2, <1>5, <2>1, <3>1 DEF At
      <4>2. (i \in 1 .. Len(s) /\ s[i] = a /\ i < last) \/ (i = last /\ a = c)
        <5> HIDE DEF s, c
        <5> QED BY <1>1, <4>1
      <4> QED BY <2>1, <3>1, <4>1, <4>2 DEF At
    <3>2. CASE UserOf[a] # Asker(w)
      <4>1. UserOf[a] \in User
        BY AnswerAssumption
      <4> QED BY <1>1, <1>2, <1>5, <2>1, <3>2, <4>1 DEF At
    <3> QED BY <3>1, <3>2
  <2>2. CASE n = 5
    BY <1>2, <1>3, <1>5, <2>2, WorkerOfType DEF At
  <2>3. CASE n \in {1, 2, 3, 6}
    BY <1>2, <1>5, <2>3 DEF At
  <2> QED BY <2>1, <2>2, <2>3
<1>6. ASSUME NEW a \in Answer, NEW b \in Answer, NEW n \in 1 .. 6, NEW m \in 1 .. 6,
             NEW i \in Nat, NEW j \in Nat, UserOf[a] = UserOf[b],
             At(n, i, a)', At(m, j, b)', Ahead(n, i, m, j)
      PROVE  \E n0, m0 \in 1 .. 6 : \E i0, j0 \in Nat :
                 At(n0, i0, a) /\ At(m0, j0, b) /\ Ahead(n0, i0, m0, j0)
  <2>1. CASE At(n, i, a) /\ At(m, j, b)
    BY <1>6, <2>1
  <2>2. CASE At(n, i, a) /\ m = 4 /\ j = last /\ b = c
    <3>1. Ahead(n, i, 5, 1)
      BY <1>6, <2>2 DEF Ahead
    <3> QED BY <1>4, <2>2, <3>1
  <2>3. CASE n = 4 /\ i = last /\ a = c
    <3>1. UserOf[b] = Asker(w) /\ Pool!WorkerOf(b) = w
      BY <1>1, <1>2, <1>6, <2>3, SameUser
    <3>2. (At(m, j, b) /\ m # 4 /\ m # 5) \/ (m = 4 /\ j = last)
      <4> HIDE DEF s, c, last
      <4>1. m = 4 => i < j
        BY <1>6, <2>3 DEF Ahead
      <4>2. last \in Nat
        BY <1>1 DEF last
      <4> QED BY <1>5, <1>6, <2>3, <3>1, <4>1, <4>2
    <3>3. m = 6 /\ At(6, j, b)
      BY <1>6, <2>3, <3>2 DEF Ahead
    <3>4. Ahead(5, 1, 6, j)
      BY DEF Ahead
    <3> QED BY <1>4, <2>3, <3>3, <3>4
  <2> QED BY <1>5, <1>6, <2>1, <2>2, <2>3
<1> QED BY <1>2, <1>6, OrderFrom, ZenonT(40)

LEMMA OrderQueue ==
    ASSUME TypeOK, Served, KeptInv, OnceInv, OrderInv, QueueNext
    PROVE  OrderInv'
<1> USE DEF nameVars, poolVars, uiVars, queueVars, notifyVars, makingVars
<1> DEFINE c == Kept[uiNext]
           last == Len(_task_list) + 1
<1>1. /\ c \in Answer /\ UserOf[c] = uiUser /\ uiUser \in User
      /\ uiNext \in 1 .. Len(Kept) /\ uiNext \in Nat
      /\ _task_list \in Seq(Answer) /\ _task_list' = Append(_task_list, c)
      /\ named' = named \cup {c} /\ uiNext' = uiNext + 1
      /\ UNCHANGED <<asked, sent, notifyTask, m_mapNickNameTask, uiUser, todo,
                     running, workerPc>>
  BY QueuesAnswer DEF QueueNext, TypeOK
<1>2. ~Contains(sent, c)
  BY KeptUnsent
<1>3. At(4, uiNext, c)
  BY <1>1 DEF At, Kept
<1>4. ASSUME NEW a \in Answer, NEW n \in 1 .. 6, NEW i \in Nat, At(n, i, a)'
      PROVE  \/ At(n, i, a) /\ (n = 3 => i < last)
                            /\ (n = 4 /\ UserOf[a] = uiUser => uiNext < i)
             \/ n = 3 /\ i = last /\ a = c
  <2>1. CASE n = 1
    BY <1>1, <1>2, <1>4, <2>1 DEF At, Contains
  <2>2. CASE n = 3
    <3>1. i \in 1 .. Len(Append(_task_list, c)) /\ Append(_task_list, c)[i] = a
      BY <1>1, <1>4, <2>2 DEF At
    <3>2. (i \in 1 .. Len(_task_list) /\ _task_list[i] = a /\ i < last)
             \/ (i = last /\ a = c)
      <4> HIDE DEF c
      <4> QED BY <1>1, <3>1
    <3> QED BY <2>2, <3>2 DEF At
  <2>3. CASE n = 4
    <3>1. /\ i \in 1 .. Len(m_mapNickNameTask[UserOf[a]])
          /\ m_mapNickNameTask[UserOf[a]][i] = a
          /\ uiUser = UserOf[a] => i >= uiNext + 1
      BY <1>1, <1>4, <2>3 DEF At
    <3> QED BY <1>1, <2>3, <3>1 DEF At
  <2>4. CASE n \in {2, 5, 6}
    BY <1>1, <1>4, <2>4 DEF At, Busy
  <2> QED BY <2>1, <2>2, <2>3, <2>4
<1>5. ASSUME NEW a \in Answer, NEW b \in Answer, NEW n \in 1 .. 6, NEW m \in 1 .. 6,
             NEW i \in Nat, NEW j \in Nat, UserOf[a] = UserOf[b],
             At(n, i, a)', At(m, j, b)', Ahead(n, i, m, j)
      PROVE  \E n0, m0 \in 1 .. 6 : \E i0, j0 \in Nat :
                 At(n0, i0, a) /\ At(m0, j0, b) /\ Ahead(n0, i0, m0, j0)
  <2>1. CASE At(n, i, a) /\ At(m, j, b)
    BY <1>5, <2>1
  <2>2. CASE At(n, i, a) /\ m = 3 /\ j = last /\ b = c
    <3>1. Ahead(n, i, 4, uiNext)
      BY <1>5, <2>2 DEF Ahead
    <3> QED BY <1>1, <1>3, <2>2, <3>1, SMTT(30)
  <2>3. CASE n = 3 /\ i = last /\ a = c
    <3>1. UserOf[b] = uiUser /\ last \in Nat
      BY <1>1, <1>5, <2>3
    <3>2. At(m, j, b) /\ Ahead(4, uiNext, m, j)
      <4> HIDE DEF c, last
      <4> QED BY <1>4, <1>5, <2>3, <3>1 DEF Ahead
    <3> QED BY <1>1, <1>3, <2>3, <3>2
  <2> QED BY <1>4, <1>5, <2>1, <2>2, <2>3
<1> QED BY <1>1, <1>5, OrderFrom, ZenonT(40)

LEMMA OrderPop ==
    ASSUME TypeOK, NotifyInv, OrderInv, Pop
    PROVE  OrderInv'
<1> USE DEF nameVars, poolVars, uiVars, queueVars, notifyVars, makingVars
<1>1. /\ _task_list \in Seq(Answer) /\ _task_list # <<>>
      /\ _task_list' = Tail(_task_list) /\ notifyTask' = Head(_task_list)
      /\ UNCHANGED <<asked, sent, named, m_mapNickNameTask, uiUser, uiNext, todo,
                     running, workerPc>>
  BY DEF Pop, TypeOK
<1>2. /\ Head(_task_list) = _task_list[1] /\ 1 \in 1 .. Len(_task_list)
      /\ \A i \in 1 .. Len(Tail(_task_list)) :
             /\ Tail(_task_list)[i] = _task_list[i + 1]
             /\ i + 1 \in 1 .. Len(_task_list)
  BY <1>1
<1>3. ASSUME NEW a \in Answer, NEW n \in 1 .. 6, NEW i \in Nat, At(n, i, a)'
      PROVE  /\ n = 2 => At(3, 1, a) /\ i = 1
             /\ n = 3 => At(3, i + 1, a) /\ i >= 1
             /\ n \notin {2, 3} => At(n, i, a)
  <2>1. CASE n \in {2, 3}
    BY <1>1, <1>2, <1>3, <2>1 DEF At
  <2>2. CASE n \notin {2, 3}
    BY <1>1, <1>3, <2>2 DEF At, Busy
  <2> QED BY <2>1, <2>2
<1> DEFINE From(n, i) == IF n \in {2, 3} THEN 3 ELSE n
           Was(n, i) == IF n = 3 THEN i + 1 ELSE i
<1>4. ASSUME NEW a \in Answer, NEW b \in Answer, NEW n \in 1 .. 6, NEW m \in 1 .. 6,
             NEW i \in Nat, NEW j \in Nat, UserOf[a] = UserOf[b],
             At(n, i, a)', At(m, j, b)', Ahead(n, i, m, j)
      PROVE  \E n0, m0 \in 1 .. 6 : \E i0, j0 \in Nat :
                 At(n0, i0, a) /\ At(m0, j0, b) /\ Ahead(n0, i0, m0, j0)
  <2>1. /\ At(From(n, i), Was(n, i), a) /\ At(From(m, j), Was(m, j), b)
        /\ n \in {2, 3} => i >= 1
        /\ m \in {2, 3} => j >= 1
        /\ n = 2 => i = 1
        /\ m = 2 => j = 1
    BY <1>3, <1>4
  <2>2. Ahead(From(n, i), Was(n, i), From(m, j), Was(m, j))
    BY <1>4, <2>1 DEF Ahead
  <2>3. /\ From(n, i) \in 1 .. 6 /\ From(m, j) \in 1 .. 6
        /\ Was(n, i) \in Nat /\ Was(m, j) \in Nat
    OBVIOUS
  <2> HIDE DEF From, Was
  <2> QED BY <2>1, <2>2, <2>3
<1> QED BY <1>1, <1>4, OrderFrom, ZenonT(40)

LEMMA OrderExecute ==
    ASSUME TypeOK, NotifyInv, NeverNameless, OrderInv, Execute
    PROVE  OrderInv'
<1> USE DEF nameVars, poolVars, uiVars, queueVars, notifyVars, makingVars
<1> DEFINE last == Len(sent) + 1
<1>1. /\ notifyTask \in Answer /\ notifyTask' = NoAnswer
      /\ sent \in Seq(Answer) /\ sent' = Append(sent, notifyTask)
      /\ UNCHANGED <<asked, named, _task_list, m_mapNickNameTask, uiUser, uiNext,
                     todo, running, workerPc>>
  BY DEF Execute, TypeOK, NotifyInv, NeverNameless
<1>2. At(2, 1, notifyTask)
  BY DEF At
<1>3. ASSUME NEW a \in Answer, NEW n \in 1 .. 6, NEW i \in Nat, At(n, i, a)'
      PROVE  \/ At(n, i, a) /\ n # 2 /\ (n = 1 => i < last)
             \/ n = 1 /\ i = last /\ a = notifyTask
  <2>1. CASE n = 1
    <3>1. i \in 1 .. Len(Append(sent, notifyTask)) /\ Append(sent, notifyTask)[i] = a
          /\ a \in named
      BY <1>1, <1>3, <2>1 DEF At
    <3>2. (i \in 1 .. Len(sent) /\ sent[i] = a /\ i < last)
             \/ (i = last /\ a = notifyTask)
      BY <1>1, <3>1
    <3> QED BY <2>1, <3>1, <3>2 DEF At
  <2>2. CASE n # 1
    BY <1>1, <1>3, <2>2, AnswerAssumption DEF At, Busy
  <2> QED BY <2>1, <2>2
<1>4. ASSUME NEW a \in Answer, NEW b \in Answer, NEW n \in 1 .. 6, NEW m \in 1 .. 6,
             NEW i \in Nat, NEW j \in Nat, UserOf[a] = UserOf[b],
             At(n, i, a)', At(m, j, b)', Ahead(n, i, m, j)
      PROVE  \E n0, m0 \in 1 .. 6 : \E i0, j0 \in Nat :
                 At(n0, i0, a) /\ At(m0, j0, b) /\ Ahead(n0, i0, m0, j0)
  <2>1. CASE At(n, i, a) /\ At(m, j, b)
    BY <1>4, <2>1
  <2>2. CASE At(n, i, a) /\ m = 1 /\ j = last /\ b = notifyTask
    <3>1. Ahead(n, i, 2, 1)
      BY <1>4, <2>2 DEF Ahead
    <3> QED BY <1>2, <2>2, <3>1
  <2>3. CASE n = 1 /\ i = last /\ a = notifyTask
    <3>1. last \in Nat
      BY <1>1
    <3>2. At(m, j, b) /\ Ahead(2, 1, m, j)
      <4> HIDE DEF last
      <4> QED BY <1>3, <1>4, <2>3, <3>1 DEF Ahead
    <3> QED BY <1>2, <2>3, <3>2
  <2> QED BY <1>3, <1>4, <2>1, <2>2, <2>3
<1> QED BY <1>1, <1>4, OrderFrom, ZenonT(40)

LEMMA OrderStep ==
    /\ TypeOK /\ Affinity /\ InHand /\ Served /\ NeverNameless
    /\ PlaceInv /\ PassedInv /\ OrderInv /\ [Next]_vars
    => OrderInv'
<1> SUFFICES ASSUME TypeOK, Affinity, InHand, Served, NeverNameless,
                    PlaceInv, PassedInv, OrderInv, [Next]_vars
             PROVE  OrderInv'
  OBVIOUS
<1> USE DEF nameVars, poolVars, uiVars, queueVars, notifyVars, makingVars
<1>0. NotifyInv /\ KeptInv /\ WalkInv /\ PoolInv /\ OnceInv
  BY DEF PlaceInv
<1>1. ASSUME UNCHANGED <<asked, sent, named, notifyTask, _task_list,
                         m_mapNickNameTask, uiUser, uiNext, todo>>,
             \A w \in Worker : Busy(w)' => Busy(w) /\ running'[w] = running[w]
      PROVE  OrderInv'
  <2>1. ASSUME NEW a \in Answer, NEW n \in 1 .. 6, NEW i \in Nat, At(n, i, a)'
        PROVE  At(n, i, a)
    <3>1. CASE n = 5
      BY <1>1, <2>1, <3>1, WorkerOfType DEF At
    <3>2. CASE n # 5
      BY <1>1, <2>1, <3>2 DEF At
    <3> QED BY <3>1, <3>2
  <2> QED BY <1>1, <2>1, OrderLost
<1>2. ASSUME NEW w \in Worker, NotFound(w) \/ ActivateWithoutName(w)
      PROVE  OrderInv'
  <2>1. \A v \in Worker : Busy(v)' => Busy(v) /\ running'[v] = running[v]
    BY <1>2 DEF NotFound, ActivateWithoutName, Return, Pool!Finish, TypeOK, Busy
  <2> QED BY <1>1, <1>2, <2>1 DEF NotFound, ActivateWithoutName, Return, Pool!Finish
<1>3. ASSUME NEW w \in Worker, LookUpInVain(w) PROVE OrderInv'
  <2>1. \A v \in Worker : Busy(v)' => Busy(v) /\ running'[v] = running[v]
    BY <1>3 DEF LookUpInVain, InCallback, TypeOK, Busy
  <2> QED BY <1>1, <1>3, <2>1 DEF LookUpInVain
<1>4. ASSUME NEW w \in Worker, ActivateTask(w) PROVE OrderInv'
  <2>1. /\ uiUser = NoUser /\ uiNext' = 1
        /\ UNCHANGED <<asked, sent, named, notifyTask, _task_list,
                       m_mapNickNameTask, todo, running, workerPc>>
    BY <1>0, <1>4 DEF ActivateTask, WalkInv
  <2>2. ASSUME NEW a \in Answer, NEW n \in 1 .. 6, NEW i \in Nat, At(n, i, a)'
        PROVE  At(n, i, a)
    <3>1. UserOf[a] # NoUser
      BY AnswerAssumption
    <3>2. CASE n = 4
      BY <2>1, <2>2, <3>1, <3>2 DEF At
    <3>3. CASE n # 4
      BY <2>1, <2>2, <3>3 DEF At, Busy
    <3> QED BY <3>2, <3>3
  <2> QED BY <2>1, <2>2, OrderLost
<1>5. CASE Clear
  <2>1. /\ uiUser \in User
        /\ m_mapNickNameTask' = [m_mapNickNameTask EXCEPT ![uiUser] = <<>>]
        /\ todo' = todo /\ running' = [running EXCEPT ![uiFor] = NoAnswer]
        /\ workerPc' = [workerPc EXCEPT ![uiFor] = "free"]
        /\ UNCHANGED <<asked, sent, named, notifyTask, _task_list>>
    BY <1>5 DEF Clear, UiReturn, Return, Pool!Finish, Served
  <2>2. \A w \in Worker : Busy(w)' => Busy(w) /\ running'[w] = running[w]
    BY <2>1 DEF TypeOK, Busy
  <2>3. ASSUME NEW a \in Answer, NEW n \in 1 .. 6, NEW i \in Nat, At(n, i, a)'
        PROVE  At(n, i, a)
    <3>1. CASE n = 4
      <4>1. UserOf[a] \in User /\ UserOf[a] # uiUser
        BY <2>1, <2>3, <3>1, AnswerAssumption DEF TypeOK, At
      <4> QED BY <2>1, <2>3, <3>1, <4>1 DEF TypeOK, At
    <3>2. CASE n = 5
      BY <2>2, <2>3, <3>2, WorkerOfType DEF At
    <3>3. CASE n \in {1, 2, 3, 6}
      BY <2>1, <2>3, <3>3 DEF At
    <3> QED BY <3>1, <3>2, <3>3
  <2> QED BY <2>1, <2>3, OrderLost
<1>6. ASSUME UNCHANGED <<asked, sent, named, notifyTask, _task_list,
                         m_mapNickNameTask, uiUser, uiNext, todo, running, workerPc>>
      PROVE  OrderInv'
  BY <1>1, <1>6 DEF Busy
<1> QED
  BY <1>0, <1>2, <1>3, <1>4, <1>5, <1>6, OrderAsk, OrderRespond, OrderSend,
     OrderKeep, OrderQueue, OrderPop, OrderExecute
     DEF Next, SetExec, Start, Constructing, BeginRun,
         GetFriendList, ShowChatRoomMembers, EndLoop, SeeTasks, SeeNoTasks,
         Sleep, SpuriousWakeup, Timeout, Drained, NotifyGoto, vars

-----------------------------------------------------------------------------
(* Theorems. *)

LEMMA InvInit == Init => IInv
<1> SUFFICES ASSUME Init PROVE IInv
  OBVIOUS
<1>1. TypeOK
  BY TypeInit
<1>2. \A w \in Worker : /\ running[w] = NoAnswer /\ todo[w] = <<>>
                        /\ workerPc[w] = "free"
  BY DEF Init, Pool!Init, Worker
<1>3. \A i \in 1 .. Len(<<>>) : FALSE
  OBVIOUS
<1>4. Affinity /\ InHand
  BY <1>2, <1>3 DEF Affinity, InHand
<1>5. Served /\ QueuedNamed /\ NeverNameless
  BY <1>3 DEF Init, Served, QueuedNamed, NeverNameless
<1> QED BY <1>1, <1>4, <1>5 DEF IInv

LEMMA Invariance == Spec => []IInv
<1>1. IInv /\ [Next]_vars => IInv'
  BY TypeStep, AffinityStep, ServedStep, QueueStep DEF IInv
<1> QED BY <1>1, InvInit, PTL DEF Spec

\* The workers, the UI thread and the queue's thread keep their types.
THEOREM TypeCorrect == Spec => []TypeOK
<1>1. IInv => TypeOK
  BY DEF IInv
<1> QED BY <1>1, Invariance, PTL

\* No answer reaches the queue's thread without the nickname it waited for
\* (CNickNameTaskMgr): none is dropped for want of one.
THEOREM NothingNameless == Spec => []NeverNameless
<1>1. IInv => NeverNameless
  BY DEF IInv
<1> QED BY <1>1, Invariance, PTL

\* Nobody adds to the vector that ActivateTask walks without the lock.
THEOREM WalkUndisturbed == Spec => NotAddedWhileWalked
<1> DEFINE Step == uiPc # "pump" /\ uiPc' # "pump"
                       => m_mapNickNameTask'[uiUser] = Kept
<1>1. IInv /\ [Next]_vars => [Step]_vars
  <2> SUFFICES ASSUME IInv, [Next]_vars, uiPc # "pump", uiPc' # "pump"
               PROVE  m_mapNickNameTask'[uiUser] = Kept
    OBVIOUS
  <2> USE DEF nameVars, poolVars, uiVars, queueVars, notifyVars, makingVars
  <2>1. CASE UNCHANGED m_mapNickNameTask
    BY <2>1 DEF Kept
  <2>2. ASSUME NEW w \in Worker, AddTask(w)
        PROVE  m_mapNickNameTask'[uiUser] = Kept
    <3>1. Asker(w) # uiUser
      BY <2>2, OtherUser DEF IInv, AddTask, Keep
    <3> QED BY <2>2, <3>1 DEF AddTask, Keep, Kept, IInv, TypeOK, Served
  <2>3. ~Clear
    BY DEF Clear, UiReturn
  <2> QED
    BY <2>1, <2>2, <2>3
       DEF Next, SetExec, Start, Constructing, BeginRun,
           Ask, Respond, SendPlain, SendAtMsg, LookUpInVain, NotFound,
           ActivateWithoutName, ActivateTask, GetFriendList,
           ShowChatRoomMembers, QueueNext, EndLoop, SeeTasks, SeeNoTasks, Sleep,
           SpuriousWakeup, Timeout, Drained, NotifyGoto, Pop, Execute, vars
<1> QED BY <1>1, Invariance, PTL DEF Spec, NotAddedWhileWalked

-----------------------------------------------------------------------------
(* The start of the queue's thread. *)

\* A thread still to come finds the flag that start() has set.
FlagInv == making = "started" /\ notifyPc = "born" => m_runFlag = TRUE

\* No step but those of the start touches the flag, or brings the thread to its
\* start or its end.
LEMMA Elsewhere ==
    ASSUME [Next]_vars, ~SetExec, ~Start, ~BeginRun
    PROVE  /\ UNCHANGED makingVars
           /\ notifyPc' = "born" => notifyPc = "born"
           /\ notifyPc' = "ended" => notifyPc = "ended"
<1> USE DEF nameVars, poolVars, uiVars, queueVars, notifyVars, makingVars
<1>1. ASSUME NEW w \in Worker,
             \/ Respond(w) \/ SendPlain(w) \/ SendAtMsg(w) \/ LookUpInVain(w)
             \/ AddTask(w) \/ NotFound(w) \/ ActivateWithoutName(w)
             \/ ActivateTask(w)
      PROVE  UNCHANGED notifyVars
  BY <1>1 DEF Respond, SendPlain, SendAtMsg, LookUpInVain, AddTask, NotFound,
              ActivateWithoutName, ActivateTask
<1> QED
  BY <1>1 DEF Next, Ask, GetFriendList, ShowChatRoomMembers, QueueNext, EndLoop,
              Clear, SeeTasks, SeeNoTasks, Sleep, SpuriousWakeup, Timeout,
              Drained, NotifyGoto, Pop, Execute, vars

\* A thread that start() was called for in time does not end.
THEOREM StartedGoesOn == Spec => EndedUnstarted
<1> DEFINE Step == notifyPc' = "ended" /\ notifyPc # "ended" => making # "started"
<1>1. Init => FlagInv
  BY DEF Init, FlagInv
<1>2. FlagInv /\ [Next]_vars => FlagInv'
  BY Elsewhere DEF FlagInv, SetExec, Start, Constructing, BeginRun, makingVars
<1>3. FlagInv /\ [Next]_vars => [Step]_vars
  BY Elsewhere DEF FlagInv, SetExec, Start, Constructing, BeginRun
<1> QED BY <1>1, <1>2, <1>3, PTL DEF Spec, EndedUnstarted

-----------------------------------------------------------------------------
\* Where the answers are, and in which order.
WayInv == PlaceInv /\ PassedInv /\ OrderInv

LEMMA WayInit == Init => WayInv
<1> SUFFICES ASSUME Init PROVE WayInv
  OBVIOUS
<1>1. /\ \A w \in Worker : todo[w] = <<>> /\ running[w] = NoAnswer /\ ~Busy(w)
      /\ \A u \in User : m_mapNickNameTask[u] = <<>>
      /\ uiPc = "pump" /\ uiUser = NoUser /\ notifyPc = "born" /\ notifyTask = NoAnswer
      /\ _task_list = <<>> /\ named = {} /\ sent = <<>> /\ asked = <<>>
  BY DEF Init, Pool!Init, Worker, Busy
<1>2. /\ \A i \in 1 .. Len(<<>>) : FALSE
      /\ \A a : ~Contains(<<>>, a)
  BY DEF Contains
<1>3. NotifyInv /\ KeptInv /\ WalkInv /\ PoolInv /\ PassedInv
  BY <1>1, <1>2 DEF NotifyInv, KeptInv, WalkInv, PoolInv, PassedInv
<1>4. ASSUME NEW a \in Answer
      PROVE  PoolCount(a) + KeptCount(a) + QueueCount(a) + NotifyCount(a)
                 + SentCount(a) = AskedCount(a)
  <2>1. /\ Pool!WorkerOf(a) \in Worker /\ UserOf[a] \in User /\ a # NoAnswer
        /\ UserOf[a] # NoUser
    BY WorkerOfType, AnswerAssumption
  <2>2. PoolCount(a) = 0 /\ NotifyCount(a) = 0 /\ AskedCount(a) = 0
    BY <1>1, <1>2, <2>1 DEF PoolCount, Pooled, NotifyCount, AskedCount, One
  <2>3. KeptCount(a) = 0 /\ QueueCount(a) = 0 /\ SentCount(a) = 0
    BY <1>1, <2>1, TimesEmpty DEF KeptCount, StillKept, QueueCount, SentCount
  <2> QED BY <2>2, <2>3
<1>5. ASSUME NEW a \in Answer, NEW n, NEW i PROVE ~At(n, i, a)
  <2>1. Pool!WorkerOf(a) \in Worker /\ UserOf[a] \in User /\ a # NoAnswer
    BY WorkerOfType, AnswerAssumption
  <2> QED BY <1>1, <1>2, <2>1 DEF At
<1> QED BY <1>3, <1>4, <1>5 DEF WayInv, PlaceInv, OnceInv, OrderInv

LEMMA WayInvariance == Spec => []WayInv
<1>1. IInv /\ WayInv /\ [Next]_vars => WayInv'
  BY NotifyStepInv, KeptStep, PoolStep, OnceStep, PassedStep, OrderStep
     DEF IInv, WayInv, PlaceInv
<1> QED BY <1>1, WayInit, Invariance, PTL DEF Spec

\* No answer is lost, and none is sent twice: a question that was asked is in
\* exactly one place, from the pool over m_mapNickNameTask and the notify queue
\* to the answers sent.
THEOREM InPlaceOnce == Spec => []InOnePlace
<1>1. IInv /\ WayInv => InOnePlace
  BY OncePlace DEF IInv, WayInv, PlaceInv
<1> QED BY <1>1, Invariance, WayInvariance, PTL

\* The answers of one user that waited for his nickname leave in the order in
\* which he asked.
THEOREM SentAsAsked == Spec => []WaitedInOrder
<1>1. IInv /\ WayInv => WaitedInOrder
  <2> SUFFICES ASSUME IInv, WayInv,
                      NEW i \in 1 .. Len(sent), NEW j \in 1 .. Len(sent),
                      i < j, {sent[i], sent[j]} \subseteq named,
                      UserOf[sent[i]] = UserOf[sent[j]]
               PROVE  AskedBefore(sent[i], sent[j])
    BY DEF WaitedInOrder, AskedBefore
  <2>1. sent[i] \in Answer /\ sent[j] \in Answer /\ i \in Nat /\ j \in Nat
    BY DEF IInv, TypeOK
  <2>2. At(1, i, sent[i]) /\ At(1, j, sent[j]) /\ Ahead(1, i, 1, j)
    BY DEF At, Ahead
  <2> QED BY <2>1, <2>2 DEF WayInv, OrderInv
<1> QED BY <1>1, Invariance, WayInvariance, PTL
=============================================================================
