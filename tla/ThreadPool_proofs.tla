-------------------------- MODULE ThreadPool_proofs --------------------------
(***************************************************************************)
(* Proofs about ThreadPool, for any number of workers and tasks.  The      *)
(* order of the tasks needs only the types and the fact that               *)
(* temp_task_list is empty outside the draining loop.  The reasons for     *)
(* which a thread ends need to know in which order the owner's calls come: *)
(* no flag is set on purpose before every worker has its m_exec.           *)
(***************************************************************************)
EXTENDS ThreadPool, SequenceTheorems, TLAPS

Stopping == phase \in {"stop", "notifyStop", "join", "stopped"}
Building == phase \in {"construct", "setExec"}
InLoop == {"while", "exec", "drain", "task"}

\* What the owner's progress says of the workers.
OwnerInv ==
    /\ Building => /\ m_exec = 0 .. turn - 1
                   /\ \A w \in Worker : w > turn => pc[w] = "none"
                   /\ \A w \in Worker : m_runFlag[w] => w \in bornSet
    /\ phase = "construct" => pc[turn] = "none"
    /\ ~Building => m_exec = Worker
    /\ phase = "ready" => turn = 0

\* A worker has a task or a rest of its list only while it drains the list.
DrainInv ==
    \A w \in Worker :
        /\ running[w] # NoTask <=> pc[w] = "task"
        /\ temp_task_list[w] # <<>> => pc[w] \in {"drain", "task"}

\* A worker that was born without a flag, and did not give up waiting for it,
\* is in its loop because the flag was set by start().
FlagInv ==
    \A w \in Worker :
        /\ ~Stopping
        /\ w \notin bornSet \cup expired
        /\ pc[w] \in InLoop
        => m_runFlag[w]

IInv ==
    /\ TypeOK
    /\ OwnerInv
    /\ DrainInv
    /\ FlagInv
    /\ PoolOrder
    /\ StopIsABarrier
    /\ EndsForAReason

-----------------------------------------------------------------------------
(* Sequences. *)

\* Appending to the second of two sequences appends to both.
LEMMA ConcatAppend ==
    ASSUME NEW S, NEW s \in Seq(S), NEW t \in Seq(S), NEW e \in S
    PROVE  s \o Append(t, e) = Append(s \o t, e)
<1>1. /\ s \o t \in Seq(S)
      /\ <<e>> \in Seq(S)
  BY ConcatProperties
<1>2. Append(t, e) = t \o <<e>> /\ Append(s \o t, e) = (s \o t) \o <<e>>
  BY <1>1, AppendIsConcat
<1> QED BY <1>1, <1>2, ConcatAssociative

\* Taking the head of the first takes the head of both.
LEMMA ConcatTail ==
    ASSUME NEW S, NEW s \in Seq(S), NEW t \in Seq(S), s # <<>>
    PROVE  /\ s \o t # <<>>
           /\ Head(s \o t) = Head(s)
           /\ Tail(s \o t) = Tail(s) \o t
<1> DEFINE L == Tail(s \o t)
           R == Tail(s) \o t
<1>1. /\ s \o t \in Seq(S) /\ Len(s \o t) = Len(s) + Len(t)
      /\ \A i \in 1 .. Len(s) + Len(t) :
             (s \o t)[i] = IF i <= Len(s) THEN s[i] ELSE t[i - Len(s)]
  BY ConcatProperties
<1>2. /\ Len(s) \in Nat \ {0} /\ Len(t) \in Nat
  BY EmptySeq, LenProperties
<1>3. s \o t # <<>>
  BY <1>1, <1>2, EmptySeq
<1>4. Head(s \o t) = Head(s)
  BY <1>1, <1>2, <1>3
<1>5. /\ L \in Seq(S) /\ Len(L) = Len(s) + Len(t) - 1
      /\ \A i \in 1 .. Len(L) : L[i] = (s \o t)[i + 1]
  BY <1>1, <1>3, HeadTailProperties
<1>6. /\ Tail(s) \in Seq(S) /\ Len(Tail(s)) = Len(s) - 1
      /\ \A i \in 1 .. Len(s) - 1 : Tail(s)[i] = s[i + 1]
  BY HeadTailProperties
<1>7. /\ R \in Seq(S) /\ Len(R) = Len(s) - 1 + Len(t)
      /\ \A i \in 1 .. Len(s) - 1 + Len(t) :
             R[i] = IF i <= Len(s) - 1 THEN Tail(s)[i] ELSE t[i - (Len(s) - 1)]
  BY <1>6, ConcatProperties
<1> HIDE DEF L, R
<1>8. \A i \in 1 .. Len(L) : L[i] = R[i]
  BY <1>1, <1>2, <1>5, <1>6, <1>7
<1>9. L = R
  BY <1>2, <1>5, <1>7, <1>8, SeqEqual, SMTT(30)
<1> QED BY <1>3, <1>4, <1>9 DEF L, R

\* The head of a sequence may as well stand at the end of the one before.
LEMMA MoveHead ==
    ASSUME NEW S, NEW b \in Seq(S), NEW s \in Seq(S), s # <<>>
    PROVE  Append(b, Head(s)) \o Tail(s) = b \o s
<1>1. Head(s) \in S /\ Tail(s) \in Seq(S) /\ <<Head(s)>> \in Seq(S)
  BY HeadTailProperties
<1>2. <<Head(s)>> \o Tail(s) = s
  <2>1. /\ Len(<<Head(s)>>) = 1 /\ <<Head(s)>>[1] = Head(s)
    OBVIOUS
  <2>2. Len(s) \in Nat \ {0} /\ Len(Tail(s)) = Len(s) - 1
    BY EmptySeq, HeadTailProperties
  <2>3. \A i \in 1 .. Len(Tail(s)) : Tail(s)[i] = s[i + 1]
    BY HeadTailProperties
  <2>4. /\ <<Head(s)>> \o Tail(s) \in Seq(S)
        /\ Len(<<Head(s)>> \o Tail(s)) = 1 + Len(Tail(s))
        /\ \A i \in 1 .. 1 + Len(Tail(s)) :
               (<<Head(s)>> \o Tail(s))[i] =
                   IF i <= 1 THEN <<Head(s)>>[i] ELSE Tail(s)[i - 1]
    BY <1>1, <2>1, ConcatProperties
  <2>5. Head(s) = s[1]
    OBVIOUS
  <2>6. \A i \in 1 .. Len(s) : (<<Head(s)>> \o Tail(s))[i] = s[i]
    BY <2>1, <2>2, <2>3, <2>4, <2>5
  <2> QED BY <2>2, <2>4, <2>6, SeqEqual
<1>3. Append(b, Head(s)) = b \o <<Head(s)>>
  BY <1>1, AppendIsConcat
<1> QED BY <1>1, <1>2, <1>3, ConcatAssociative

-----------------------------------------------------------------------------
(* Types. *)

LEMMA WorkerOfType == \A t \in Task : WorkerOf(t) \in Worker
  BY NumAssumption, TaskAssumption DEF WorkerOf, Worker

LEMMA TypeInit == Init => TypeOK
<1> SUFFICES ASSUME Init PROVE TypeOK
  OBVIOUS
<1>1. /\ <<>> \in Seq(Task) /\ 0 \in Worker
  BY EmptySeq, NumAssumption DEF Worker
<1>2. m_runFlag \in [Worker -> BOOLEAN] /\ m_exec \in SUBSET Worker
  BY DEF Init
<1>3. pc \in [Worker -> Loc] /\ phase \in Phase
  BY DEF Init, Loc, Phase
<1>4. /\ _task_list \in [Worker -> Seq(Task)]
      /\ temp_task_list \in [Worker -> Seq(Task)]
      /\ added \in [Worker -> Seq(Task)]
      /\ begun \in [Worker -> Seq(Task)]
  BY <1>1 DEF Init
<1>5. /\ running \in [Worker -> Task \cup {NoTask}]
      /\ turn \in Worker
      /\ bornSet \in SUBSET Worker
      /\ expired \in SUBSET Worker
  BY <1>1 DEF Init
<1> QED BY <1>2, <1>3, <1>4, <1>5 DEF TypeOK

\* The owner's steps, the steps of a worker that leave the lists alone, and
\* the rest.
LEMMA TypeStep == TypeOK /\ [Next]_vars => TypeOK'
<1> SUFFICES ASSUME TypeOK, [Next]_vars PROVE TypeOK'
  OBVIOUS
<1> USE DEF ownerVars, workerVars, taskVars, birthVars
<1>1. CASE Construct
  BY <1>1 DEF Construct, TypeOK, Loc, Phase
<1>2. CASE SetExec \/ NotifyStart \/ Join
  <2>1. turn' \in Worker
    <3>1. (turn + 1 < Num /\ turn' = turn + 1) \/ turn' = 0
      BY <1>2 DEF SetExec, NotifyStart, Join, NextWorker
    <3>2. turn \in 0 .. Num - 1 /\ Num \in Nat \ {0}
      BY NumAssumption DEF TypeOK, Worker
    <3>3. turn' \in 0 .. Num - 1
      BY <3>1, <3>2
    <3> QED BY <3>3 DEF Worker
  <2>2. phase' \in Phase
    BY <1>2 DEF SetExec, NotifyStart, Join, NextWorker, Phase
  <2>3. pc' \in [Worker -> Loc] /\ m_exec' \in SUBSET Worker
    BY <1>2 DEF SetExec, NotifyStart, Join, Woken, TypeOK, Loc
  <2> QED BY <1>2, <2>1, <2>2, <2>3 DEF SetExec, NotifyStart, Join, TypeOK
<1>3. CASE Start \/ CallStop \/ Stop \/ NotifyStop
  BY <1>3 DEF Start, CallStop, Stop, NotifyStop, SetFlag, Woken, TypeOK, Loc,
              Phase
<1>4. ASSUME NEW t \in Task, AddTask(t) PROVE TypeOK'
  <2>1. \A w \in Worker : /\ Append(_task_list[w], t) \in Seq(Task)
                          /\ Append(added[w], t) \in Seq(Task)
    BY AppendProperties DEF TypeOK
  <2> QED BY <1>4, <2>1, WorkerOfType DEF AddTask, TypeOK
<1>5. ASSUME NEW w \in Worker,
             \/ SeeFlag(w) \/ SeeNoFlag(w) \/ Sleep(w) \/ SpuriousWakeup(w)
             \/ Timeout(w) \/ WhileRun(w) \/ NoExec(w) \/ Drained(w)
      PROVE  TypeOK'
  BY <1>5 DEF SeeFlag, SeeNoFlag, Sleep, SpuriousWakeup, Timeout, WhileRun,
              NoExec, Drained, Goto, TypeOK, Loc
<1>6. ASSUME NEW w \in Worker, Swap(w) PROVE TypeOK'
  BY <1>6, EmptySeq DEF Swap, Goto, TypeOK, Loc
<1>7. ASSUME NEW w \in Worker, BeginTask(w) PROVE TypeOK'
  <2>1. /\ Head(temp_task_list[w]) \in Task
        /\ Tail(temp_task_list[w]) \in Seq(Task)
    BY <1>7, HeadTailProperties DEF BeginTask, TypeOK
  <2>2. Append(begun[w], Head(temp_task_list[w])) \in Seq(Task)
    BY <2>1, AppendProperties DEF TypeOK
  <2> QED BY <1>7, <2>1, <2>2 DEF BeginTask, Goto, TypeOK, Loc
<1>8. ASSUME NEW w \in Worker, EndTask(w) PROVE TypeOK'
  BY <1>8 DEF EndTask, Goto, TypeOK, Loc
<1>9. CASE UNCHANGED vars
  BY <1>9 DEF vars, TypeOK
<1> QED BY <1>1, <1>2, <1>3, <1>4, <1>5, <1>6, <1>7, <1>8, <1>9
        DEF Next, OwnerStep, WorkerStep

-----------------------------------------------------------------------------
(* What the owner's progress says of the workers. *)

LEMMA OwnerStepInv == TypeOK /\ OwnerInv /\ [Next]_vars => OwnerInv'
<1> SUFFICES ASSUME TypeOK, OwnerInv, [Next]_vars PROVE OwnerInv'
  OBVIOUS
<1> USE NumAssumption DEF ownerVars, workerVars, taskVars, birthVars, Building
<1>0. turn \in 0 .. Num - 1 /\ Num \in Nat
  BY DEF TypeOK, Worker
<1>1. CASE Construct
  <2>1. /\ phase = "construct" /\ phase' = "setExec"
        /\ UNCHANGED <<turn, m_exec>>
        /\ \A w \in Worker : w # turn => pc'[w] = pc[w]
        /\ \A w \in Worker : w # turn => m_runFlag'[w] = m_runFlag[w]
        /\ m_runFlag'[turn] => turn \in bornSet'
        /\ bornSet \subseteq bornSet'
    BY <1>1 DEF Construct, TypeOK
  <2>2. \A w \in Worker : w > turn => w # turn
    BY <1>0 DEF Worker
  <2> QED BY <2>1, <2>2 DEF OwnerInv
<1>2. CASE SetExec
  <2>0. m_exec = 0 .. turn - 1 /\ m_exec' = m_exec \cup {turn}
    BY <1>2 DEF SetExec, OwnerInv
  <2>1. CASE turn + 1 < Num
    <3>1. /\ phase = "setExec" /\ phase' = "construct" /\ turn' = turn + 1
          /\ UNCHANGED <<pc, m_runFlag, bornSet>>
      BY <1>2, <2>1 DEF SetExec, NextWorker
    <3>2. m_exec' = 0 .. turn' - 1
      BY <1>0, <2>0, <3>1
    <3>3. turn' \in Worker /\ turn' > turn
      BY <1>0, <2>1, <3>1 DEF Worker
    <3>4. \A w \in Worker : w > turn' => w > turn
      BY <1>0, <3>1 DEF Worker
    <3> QED BY <3>1, <3>2, <3>3, <3>4 DEF OwnerInv
  <2>2. CASE ~(turn + 1 < Num)
    <3>1. phase' = "start" /\ turn' = 0
      BY <1>2, <2>2 DEF SetExec, NextWorker
    <3>2. m_exec' = Worker
      BY <1>0, <2>0, <2>2 DEF Worker
    <3> QED BY <3>1, <3>2 DEF OwnerInv
  <2> QED BY <2>1, <2>2
<1>3. CASE NotifyStart \/ Join
  BY <1>3 DEF NotifyStart, Join, NextWorker, OwnerInv
<1>4. CASE Start \/ CallStop \/ Stop \/ NotifyStop
  BY <1>4 DEF Start, CallStop, Stop, NotifyStop, SetFlag, OwnerInv
<1>5. ASSUME NEW t \in Task, AddTask(t) PROVE OwnerInv'
  BY <1>5 DEF AddTask, OwnerInv
<1>6. ASSUME NEW w \in Worker, WorkerStep(w) \/ SpuriousWakeup(w)
      PROVE  OwnerInv'
  <2>1. /\ UNCHANGED <<phase, turn, m_exec, bornSet>>
        /\ pc[w] # "none"
        /\ \A v \in Worker : v # w => pc'[v] = pc[v]
        /\ \A v \in Worker : m_runFlag'[v] => m_runFlag[v]
    BY <1>6 DEF WorkerStep, SeeFlag, SeeNoFlag, Sleep, SpuriousWakeup, Timeout,
                WhileRun, NoExec, Swap, BeginTask, EndTask, Drained, Goto,
                TypeOK
  <2> QED BY <2>1 DEF OwnerInv, TypeOK
<1>7. CASE UNCHANGED vars
  BY <1>7 DEF vars, OwnerInv
<1> QED BY <1>1, <1>2, <1>3, <1>4, <1>5, <1>6, <1>7 DEF Next, OwnerStep

\* The owner's steps leave every thread where it is, but that they start one
\* and wake one: none of them reaches into the loop or ends a thread.
LEMMA OwnerMoves ==
    ASSUME TypeOK, OwnerInv, OwnerStep \/ CallStop
    PROVE  \A w \in Worker :
               \/ pc'[w] = pc[w]
               \/ pc[w] \in {"none", "blocked"} /\ pc'[w] = "look"
  BY DEF OwnerStep, Construct, SetExec, Start, NotifyStart, CallStop, Stop,
         NotifyStop, Join, SetFlag, Woken, ownerVars, workerVars, OwnerInv,
         Building, TypeOK

-----------------------------------------------------------------------------
(* The rest of the lists. *)

LEMMA DrainStep ==
    TypeOK /\ OwnerInv /\ DrainInv /\ [Next]_vars => DrainInv'
<1> SUFFICES ASSUME TypeOK, OwnerInv, DrainInv, [Next]_vars PROVE DrainInv'
  OBVIOUS
<1> USE DEF ownerVars, workerVars, taskVars, birthVars
<1>1. CASE OwnerStep \/ CallStop
  <2>1. UNCHANGED <<running, temp_task_list>>
    BY <1>1 DEF OwnerStep, Construct, SetExec, Start, NotifyStart, CallStop,
                Stop, NotifyStop, Join, SetFlag
  <2> QED BY <1>1, <2>1, OwnerMoves DEF DrainInv
<1>2. ASSUME NEW t \in Task, AddTask(t) PROVE DrainInv'
  BY <1>2 DEF AddTask, DrainInv
<1>3. ASSUME NEW w \in Worker,
             \/ SeeFlag(w) \/ SeeNoFlag(w) \/ Sleep(w) \/ SpuriousWakeup(w)
             \/ Timeout(w) \/ WhileRun(w) \/ NoExec(w) \/ Drained(w)
      PROVE  DrainInv'
  BY <1>3, SMTT(30) DEF SeeFlag, SeeNoFlag, Sleep, SpuriousWakeup, Timeout, WhileRun,
              NoExec, Drained, Goto, DrainInv, TypeOK
<1>4. ASSUME NEW w \in Worker, Swap(w) PROVE DrainInv'
  BY <1>4 DEF Swap, Goto, DrainInv, TypeOK
<1>5. ASSUME NEW w \in Worker, BeginTask(w) PROVE DrainInv'
  <2>1. Head(temp_task_list[w]) # NoTask
    BY <1>5, HeadTailProperties, TaskAssumption DEF BeginTask, TypeOK
  <2> QED BY <1>5, <2>1 DEF BeginTask, Goto, DrainInv, TypeOK
<1>6. ASSUME NEW w \in Worker, EndTask(w) PROVE DrainInv'
  BY <1>6 DEF EndTask, Goto, DrainInv, TypeOK
<1>7. CASE UNCHANGED vars
  BY <1>7 DEF vars, DrainInv
<1> QED BY <1>1, <1>2, <1>3, <1>4, <1>5, <1>6, <1>7 DEF Next, WorkerStep

-----------------------------------------------------------------------------
(* The order of the tasks. *)

LEMMA OrderStep ==
    TypeOK /\ OwnerInv /\ DrainInv /\ PoolOrder /\ [Next]_vars => PoolOrder'
<1> SUFFICES ASSUME TypeOK, OwnerInv, DrainInv, PoolOrder, [Next]_vars
             PROVE  PoolOrder'
  OBVIOUS
<1>1. ASSUME UNCHANGED <<added, begun, temp_task_list, _task_list>>
      PROVE  PoolOrder'
  BY <1>1 DEF PoolOrder
<1>2. CASE OwnerStep \/ CallStop
  BY <1>1, <1>2
     DEF OwnerStep, Construct, SetExec, Start, NotifyStart, CallStop, Stop,
         NotifyStop, Join, SetFlag, workerVars, taskVars
<1>3. ASSUME NEW t \in Task, AddTask(t) PROVE PoolOrder'
  <2> SUFFICES ASSUME NEW w \in Worker
               PROVE  added'[w] = begun'[w] \o temp_task_list'[w] \o _task_list'[w]
    BY DEF PoolOrder
  <2>1. CASE w = WorkerOf(t)
    <3>1. /\ added'[w] = Append(added[w], t)
          /\ _task_list'[w] = Append(_task_list[w], t)
          /\ UNCHANGED <<begun, temp_task_list>>
      BY <1>3, <2>1 DEF AddTask, TypeOK, workerVars
    <3>2. begun[w] \o temp_task_list[w] \in Seq(Task)
      BY ConcatProperties DEF TypeOK
    <3>3. (begun[w] \o temp_task_list[w]) \o Append(_task_list[w], t)
              = Append((begun[w] \o temp_task_list[w]) \o _task_list[w], t)
      BY <3>2, ConcatAppend, SMTT(30) DEF TypeOK
    <3> QED BY <3>1, <3>3 DEF PoolOrder
  <2>2. CASE w # WorkerOf(t)
    BY <1>3, <2>2 DEF AddTask, TypeOK, PoolOrder, workerVars
  <2> QED BY <2>1, <2>2
<1>4. ASSUME NEW v \in Worker, Swap(v) PROVE PoolOrder'
  <2> SUFFICES ASSUME NEW w \in Worker
               PROVE  added'[w] = begun'[w] \o temp_task_list'[w] \o _task_list'[w]
    BY DEF PoolOrder
  <2>1. CASE w = v
    <3>1. temp_task_list[w] = <<>>
      BY <1>4, <2>1 DEF Swap, Goto, DrainInv
    <3>2. /\ temp_task_list'[w] = _task_list[w]
          /\ _task_list'[w] = <<>>
          /\ UNCHANGED <<begun, added>>
      BY <1>4, <2>1 DEF Swap, TypeOK
    <3>3. /\ begun[w] \o <<>> = begun[w]
          /\ begun[w] \o _task_list[w] \in Seq(Task)
      BY ConcatEmptySeq, ConcatProperties DEF TypeOK
    <3>4. (begun[w] \o _task_list[w]) \o <<>> = begun[w] \o _task_list[w]
      BY <3>3, ConcatEmptySeq
    <3> QED BY <3>1, <3>2, <3>3, <3>4 DEF PoolOrder
  <2>2. CASE w # v
    BY <1>4, <2>2 DEF Swap, TypeOK, PoolOrder
  <2> QED BY <2>1, <2>2
<1>5. ASSUME NEW v \in Worker, BeginTask(v) PROVE PoolOrder'
  <2> SUFFICES ASSUME NEW w \in Worker
               PROVE  added'[w] = begun'[w] \o temp_task_list'[w] \o _task_list'[w]
    BY DEF PoolOrder
  <2>1. CASE w = v
    <3>1. /\ begun'[w] = Append(begun[w], Head(temp_task_list[w]))
          /\ temp_task_list'[w] = Tail(temp_task_list[w])
          /\ temp_task_list[w] # <<>>
          /\ UNCHANGED <<added, _task_list>>
      BY <1>5, <2>1 DEF BeginTask, TypeOK, taskVars
    <3>2. begun[w] \in Seq(Task) /\ temp_task_list[w] \in Seq(Task)
      BY DEF TypeOK
    <3>3. Append(begun[w], Head(temp_task_list[w])) \o Tail(temp_task_list[w])
              = begun[w] \o temp_task_list[w]
      BY <3>1, <3>2, MoveHead
    <3> QED BY <3>1, <3>3 DEF PoolOrder
  <2>2. CASE w # v
    BY <1>5, <2>2 DEF BeginTask, TypeOK, PoolOrder, taskVars
  <2> QED BY <2>1, <2>2
<1>6. ASSUME NEW w \in Worker,
             \/ SeeFlag(w) \/ SeeNoFlag(w) \/ Sleep(w) \/ SpuriousWakeup(w)
             \/ Timeout(w) \/ WhileRun(w) \/ NoExec(w) \/ Drained(w)
             \/ EndTask(w)
      PROVE  PoolOrder'
  BY <1>1, <1>6
     DEF SeeFlag, SeeNoFlag, Sleep, SpuriousWakeup, Timeout, WhileRun, NoExec,
         Drained, EndTask, taskVars
<1>7. CASE UNCHANGED vars
  BY <1>1, <1>7 DEF vars
<1> QED BY <1>2, <1>3, <1>4, <1>5, <1>6, <1>7 DEF Next, WorkerStep

-----------------------------------------------------------------------------
(* Why a thread ends, and what stop() waits for. *)

LEMMA FlagStep ==
    TypeOK /\ OwnerInv /\ FlagInv /\ [Next]_vars => FlagInv'
<1> SUFFICES ASSUME TypeOK, OwnerInv, FlagInv, [Next]_vars PROVE FlagInv'
  OBVIOUS
<1> USE DEF ownerVars, workerVars, taskVars, birthVars, Stopping, InLoop
<1>1. CASE Construct
  BY <1>1 DEF Construct, FlagInv, TypeOK
<1>2. CASE SetExec \/ NotifyStart \/ Join
  BY <1>2, ZenonT(40) DEF SetExec, NotifyStart, Join, NextWorker, Woken, FlagInv, TypeOK
<1>3. CASE Start
  BY <1>3 DEF Start, SetFlag, FlagInv, TypeOK
<1>4. CASE CallStop \/ Stop \/ NotifyStop
  BY <1>4 DEF CallStop, Stop, NotifyStop, SetFlag, FlagInv
<1>5. ASSUME NEW t \in Task, AddTask(t) PROVE FlagInv'
  BY <1>5 DEF AddTask, FlagInv
<1>6. ASSUME NEW w \in Worker,
             \/ SeeFlag(w) \/ SeeNoFlag(w) \/ Sleep(w) \/ SpuriousWakeup(w)
             \/ Timeout(w) \/ WhileRun(w) \/ Swap(w) \/ BeginTask(w)
             \/ EndTask(w) \/ Drained(w)
      PROVE  FlagInv'
  BY <1>6 DEF SeeFlag, SeeNoFlag, Sleep, SpuriousWakeup, Timeout, WhileRun,
              Swap, BeginTask, EndTask, Drained, Goto, FlagInv, TypeOK
<1>7. ASSUME NEW w \in Worker, NoExec(w) PROVE FlagInv'
  BY <1>7 DEF NoExec, Goto, FlagInv, TypeOK
<1>8. CASE UNCHANGED vars
  BY <1>8 DEF vars, FlagInv
<1> QED BY <1>1, <1>2, <1>3, <1>4, <1>5, <1>6, <1>7, <1>8
        DEF Next, OwnerStep, WorkerStep

LEMMA ReasonStep ==
    TypeOK /\ OwnerInv /\ FlagInv /\ EndsForAReason /\ [Next]_vars
        => EndsForAReason'
<1> SUFFICES ASSUME TypeOK, OwnerInv, FlagInv, EndsForAReason, [Next]_vars
             PROVE  EndsForAReason'
  OBVIOUS
<1> USE DEF ownerVars, workerVars, taskVars, birthVars, Stopping, InLoop
<1>1. CASE OwnerStep \/ CallStop
  <2>1. bornSet \subseteq bornSet' /\ UNCHANGED expired
    BY <1>1 DEF OwnerStep, Construct, SetExec, Start, NotifyStart, CallStop,
                Stop, NotifyStop, Join, SetFlag
  <2>2. Stopping => Stopping'
    BY <1>1 DEF OwnerStep, Construct, SetExec, Start, NotifyStart, CallStop,
                Stop, NotifyStop, Join, SetFlag, NextWorker
  <2> QED BY <1>1, <2>1, <2>2, OwnerMoves DEF EndsForAReason
<1>2. ASSUME NEW t \in Task, AddTask(t) PROVE EndsForAReason'
  BY <1>2 DEF AddTask, EndsForAReason
<1>3. ASSUME NEW w \in Worker,
             \/ SeeFlag(w) \/ SeeNoFlag(w) \/ Sleep(w) \/ SpuriousWakeup(w)
             \/ Timeout(w) \/ Swap(w) \/ BeginTask(w) \/ EndTask(w)
             \/ Drained(w)
      PROVE  EndsForAReason'
  BY <1>3 DEF SeeFlag, SeeNoFlag, Sleep, SpuriousWakeup, Timeout, Swap,
              BeginTask, EndTask, Drained, Goto, EndsForAReason, TypeOK
<1>4. ASSUME NEW w \in Worker, WhileRun(w) PROVE EndsForAReason'
  BY <1>4 DEF WhileRun, Goto, EndsForAReason, FlagInv, TypeOK
<1>5. ASSUME NEW w \in Worker, NoExec(w) PROVE EndsForAReason'
  <2>1. pc[w] = "exec" /\ w \notin m_exec /\ UNCHANGED <<phase, bornSet, expired>>
    BY <1>5 DEF NoExec, Goto
  <2>2. Building
    BY <2>1 DEF OwnerInv
  <2>3. w \in bornSet \cup expired
    BY <2>1, <2>2 DEF OwnerInv, FlagInv, Building
  <2> QED BY <1>5, <2>1, <2>3 DEF NoExec, Goto, EndsForAReason, TypeOK
<1>6. CASE UNCHANGED vars
  BY <1>6 DEF vars, EndsForAReason
<1> QED BY <1>1, <1>2, <1>3, <1>4, <1>5, <1>6 DEF Next, WorkerStep

LEMMA BarrierStep ==
    TypeOK /\ OwnerInv /\ DrainInv /\ StopIsABarrier /\ [Next]_vars
        => StopIsABarrier'
<1> SUFFICES ASSUME TypeOK, OwnerInv, DrainInv, StopIsABarrier, [Next]_vars
             PROVE  StopIsABarrier'
  OBVIOUS
<1>1. TypeOK' /\ OwnerInv' /\ DrainInv'
  BY TypeStep, OwnerStepInv, DrainStep
<1>2. ASSUME NEW w \in Worker, pc'[w] = "ended"
      PROVE  running'[w] = NoTask /\ temp_task_list'[w] = <<>>
  BY <1>1, <1>2 DEF DrainInv
<1>3. ASSUME NEW w \in Worker, pc[w] = "ended" PROVE pc'[w] = "ended"
  <2>1. CASE OwnerStep \/ CallStop
    BY <1>3, <2>1, OwnerMoves
  <2>2. CASE \E t \in Task : AddTask(t)
    BY <1>3, <2>2 DEF AddTask, workerVars
  <2>3. CASE \E v \in Worker : WorkerStep(v) \/ SpuriousWakeup(v)
    BY <1>3, <2>3, SMTT(30)
       DEF WorkerStep, SeeFlag, SeeNoFlag, Sleep, SpuriousWakeup, Timeout,
           WhileRun, NoExec, Swap, BeginTask, EndTask, Drained, Goto, TypeOK
  <2>4. CASE UNCHANGED vars
    BY <1>3, <2>4 DEF vars
  <2> QED BY <2>1, <2>2, <2>3, <2>4 DEF Next
<1> DEFINE Joined(p, n, w) ==
        p = "stopped" \/ (p \in {"stop", "notifyStop", "join"} /\ w < n)
<1>4. ASSUME NEW w \in Worker, Joined(phase', turn', w)
      PROVE  pc'[w] = "ended"
  <2>1. CASE Joined(phase, turn, w)
    BY <1>3, <2>1 DEF StopIsABarrier
  <2>2. CASE ~Joined(phase, turn, w)
    <3>1. turn \in 0 .. Num - 1 /\ w \in 0 .. Num - 1 /\ Num \in Nat
      BY NumAssumption DEF TypeOK, Worker
    <3>2. <<phase, turn>>' # <<phase, turn>>
      BY <1>4, <2>2
    <3>3. OwnerStep \/ CallStop
      BY <3>2
         DEF Next, AddTask, WorkerStep, SeeFlag, SeeNoFlag, Sleep,
             SpuriousWakeup, Timeout, WhileRun, NoExec, Swap, BeginTask,
             EndTask, Drained, vars, ownerVars
    <3>4. CASE CallStop
      BY <1>4, <3>1, <3>4 DEF CallStop, OwnerInv
    <3>5. CASE Stop \/ NotifyStop
      BY <1>4, <2>2, <3>5 DEF Stop, SetFlag, NotifyStop
    <3>6. CASE Join
      <4>1. phase = "join" /\ pc[turn] = "ended"
        BY <3>6 DEF Join
      <4>2. w >= turn
        BY <2>2, <3>1, <4>1
      <4>3. (turn' = turn + 1 /\ phase' = "stop") \/ turn + 1 >= Num
        BY <3>1, <3>6 DEF Join, NextWorker
      <4>4. w = turn
        BY <1>4, <3>1, <4>2, <4>3
      <4> QED BY <1>3, <4>1, <4>4
    <3>7. CASE Construct \/ SetExec \/ Start \/ NotifyStart
      BY <1>4, <3>7
         DEF Construct, SetExec, Start, NotifyStart, SetFlag, NextWorker
    <3> QED BY <3>3, <3>4, <3>5, <3>6, <3>7 DEF OwnerStep
  <2> QED BY <2>1, <2>2
<1> QED BY <1>2, <1>4 DEF StopIsABarrier

-----------------------------------------------------------------------------
(* The theorems. *)

LEMMA InvInit == Init => IInv
<1> SUFFICES ASSUME Init PROVE IInv
  OBVIOUS
<1>1. TypeOK
  BY TypeInit
<1>2. 0 .. 0 - 1 = {} /\ 0 \in Worker
  BY NumAssumption DEF Worker
<1>3. OwnerInv /\ DrainInv /\ FlagInv
  BY <1>2 DEF Init, OwnerInv, DrainInv, FlagInv, Building, InLoop
<1>4. PoolOrder
  <2>1. <<>> \o <<>> = <<>>
    BY ConcatEmptySeq, EmptySeq
  <2> QED BY <2>1 DEF Init, PoolOrder
<1>5. StopIsABarrier /\ EndsForAReason
  BY DEF Init, StopIsABarrier, EndsForAReason
<1> QED BY <1>1, <1>3, <1>4, <1>5 DEF IInv

LEMMA Invariance == Spec => []IInv
<1>1. IInv /\ [Next]_vars => IInv'
  BY TypeStep, OwnerStepInv, DrainStep, FlagStep, OrderStep, BarrierStep,
     ReasonStep DEF IInv
<1> QED BY <1>1, InvInit, PTL DEF Spec

\* The variables of the pool keep their types, whatever the memory of a new
\* worker held.
THEOREM TypeCorrect == Spec => []TypeOK
<1>1. IInv => TypeOK
  BY DEF IInv
<1> QED BY <1>1, Invariance, PTL

\* addTask, swap and pop_front neither lose, double nor reorder a task.
THEOREM TasksInOrder == Spec => []PoolOrder
<1>1. IInv => PoolOrder
  BY DEF IInv
<1> QED BY <1>1, Invariance, PTL

\* When stop() has returned for a worker, it runs nothing and leaves no task
\* half done.
THEOREM StopWaits == Spec => []StopIsABarrier
<1>1. IInv => StopIsABarrier
  BY DEF IInv
<1> QED BY <1>1, Invariance, PTL

\* Before stop() a thread ends only for the flag it was born with or for the
\* five seconds it waited.
THEOREM ThreadsEndForAReason == Spec => []EndsForAReason
<1>1. IInv => EndsForAReason
  BY DEF IInv
<1> QED BY <1>1, Invariance, PTL

-----------------------------------------------------------------------------
(* The pool implements TaskPool. *)

Todo(w) == temp_task_list[w] \o _task_list[w]

LEMMA PoolInit == Init => Pool!Init
<1>1. <<>> \o <<>> = <<>>
  BY ConcatEmptySeq, EmptySeq
<1> QED BY <1>1 DEF Init, Pool!Init, Pool!Worker, Worker

LEMMA PoolStep == IInv /\ [Next]_vars => [Pool!Next]_(Pool!vars)
<1> SUFFICES ASSUME IInv, [Next]_vars PROVE [Pool!Next]_(Pool!vars)
  OBVIOUS
<1> USE DEF Pool!vars, Pool!Worker, Worker
<1>0. TypeOK /\ OwnerInv /\ DrainInv
  BY DEF IInv
<1>1. ASSUME UNCHANGED <<temp_task_list, _task_list, running>>,
             \A w \in Worker : (pc'[w] = "ended") <=> (pc[w] = "ended")
      PROVE  UNCHANGED Pool!vars
  BY <1>1
<1>2. CASE OwnerStep \/ CallStop
  <2>1. UNCHANGED <<temp_task_list, _task_list, running>>
    BY <1>2 DEF OwnerStep, Construct, SetExec, Start, NotifyStart, CallStop,
                Stop, NotifyStop, Join, SetFlag, workerVars, taskVars
  <2>2. \A w \in Worker : (pc'[w] = "ended") <=> (pc[w] = "ended")
    BY <1>0, <1>2, OwnerMoves
  <2> QED BY <1>1, <2>1, <2>2
<1>3. ASSUME NEW t \in Task, AddTask(t) PROVE Pool!Next
  <2>1. WorkerOf(t) \in Worker
    BY WorkerOfType
  <2>2. /\ _task_list' = [_task_list EXCEPT ![WorkerOf(t)] = Append(@, t)]
        /\ UNCHANGED <<temp_task_list, running, pc>>
    BY <1>3 DEF AddTask, workerVars
  <2>3. \A w \in Worker :
            temp_task_list[w] \o Append(_task_list[w], t)
                = Append(temp_task_list[w] \o _task_list[w], t)
    BY <1>0, ConcatAppend, SMTT(30) DEF TypeOK
  <2>4. Pool!Add(t)
    BY <1>0, <2>1, <2>2, <2>3 DEF Pool!Add, Pool!WorkerOf, WorkerOf, TypeOK
  <2> QED BY <2>4 DEF Pool!Next
<1>4. ASSUME NEW w \in Worker,
             \/ SeeFlag(w) \/ SeeNoFlag(w) \/ Sleep(w) \/ SpuriousWakeup(w)
             \/ Timeout(w) \/ Drained(w)
      PROVE  UNCHANGED Pool!vars
  <2>1. UNCHANGED <<temp_task_list, _task_list, running>>
    BY <1>4 DEF SeeFlag, SeeNoFlag, Sleep, SpuriousWakeup, Timeout, Drained,
                taskVars
  <2>2. \A v \in Worker : (pc'[v] = "ended") <=> (pc[v] = "ended")
    BY <1>0, <1>4 DEF SeeFlag, SeeNoFlag, Sleep, SpuriousWakeup, Timeout,
                      Drained, Goto, TypeOK
  <2> QED BY <1>1, <2>1, <2>2
<1>5. ASSUME NEW w \in Worker, WhileRun(w) \/ NoExec(w)
      PROVE  [Pool!Next]_(Pool!vars)
  <2>1. UNCHANGED <<temp_task_list, _task_list, running>>
    BY <1>5 DEF WhileRun, NoExec, taskVars
  <2>2. CASE pc'[w] = "ended"
    <3>1. {v \in Worker : pc'[v] = "ended"}
              = {v \in Worker : pc[v] = "ended"} \cup {w}
      BY <1>0, <1>5, <2>2, ZenonT(40) DEF WhileRun, NoExec, Goto, TypeOK
    <3>2. running[w] = NoTask
      BY <1>0, <1>5 DEF DrainInv, WhileRun, NoExec, Goto
    <3>3. Pool!End(w)
      BY <2>1, <3>1, <3>2 DEF Pool!End
    <3> QED BY <3>3 DEF Pool!Next
  <2>3. CASE pc'[w] # "ended"
    <3>1. \A v \in Worker : (pc'[v] = "ended") <=> (pc[v] = "ended")
      BY <1>0, <1>5, <2>3 DEF WhileRun, NoExec, Goto, TypeOK
    <3> QED BY <1>1, <2>1, <3>1
  <2> QED BY <2>2, <2>3
<1>6. ASSUME NEW w \in Worker, Swap(w) PROVE UNCHANGED Pool!vars
  <2>1. temp_task_list[w] = <<>> /\ UNCHANGED running
    BY <1>0, <1>6 DEF Swap, Goto, DrainInv
  <2>2. _task_list[w] \o <<>> = <<>> \o _task_list[w]
    BY <1>0, ConcatEmptySeq DEF TypeOK
  <2>3. \A v \in Worker : temp_task_list'[v] \o _task_list'[v]
                              = temp_task_list[v] \o _task_list[v]
    BY <1>0, <1>6, <2>1, <2>2 DEF Swap, TypeOK
  <2>4. \A v \in Worker : (pc'[v] = "ended") <=> (pc[v] = "ended")
    BY <1>0, <1>6 DEF Swap, Goto, TypeOK
  <2> QED BY <2>1, <2>3, <2>4
<1>7. ASSUME NEW w \in Worker, BeginTask(w) PROVE Pool!Next
  <2>1. /\ pc[w] = "drain"
        /\ temp_task_list[w] # <<>>
        /\ running' = [running EXCEPT ![w] = Head(temp_task_list[w])]
        /\ temp_task_list' = [temp_task_list EXCEPT ![w] = Tail(@)]
        /\ UNCHANGED _task_list
        /\ \A v \in Worker : (pc'[v] = "ended") <=> (pc[v] = "ended")
    BY <1>0, <1>7 DEF BeginTask, Goto, TypeOK, taskVars
  <2>2. running[w] = NoTask
    BY <1>0, <2>1 DEF DrainInv
  <2>3. temp_task_list[w] \in Seq(Task) /\ _task_list[w] \in Seq(Task)
    BY <1>0 DEF TypeOK
  <2>4. /\ Todo(w) # <<>>
        /\ Head(Todo(w)) = Head(temp_task_list[w])
        /\ Tail(Todo(w)) = Tail(temp_task_list[w]) \o _task_list[w]
    BY <2>1, <2>3, ConcatTail DEF Todo
  <2>5. Pool!Begin(w)
    BY <1>0, <2>1, <2>2, <2>4 DEF Pool!Begin, Todo, TypeOK
  <2> QED BY <2>5 DEF Pool!Next
<1>8. ASSUME NEW w \in Worker, EndTask(w) PROVE Pool!Next
  <2>1. running[w] # NoTask
    BY <1>0, <1>8 DEF EndTask, Goto, DrainInv
  <2>2. /\ running' = [running EXCEPT ![w] = NoTask]
        /\ UNCHANGED <<temp_task_list, _task_list>>
        /\ \A v \in Worker : (pc'[v] = "ended") <=> (pc[v] = "ended")
    BY <1>0, <1>8 DEF EndTask, Goto, TypeOK, taskVars
  <2>3. Pool!Finish(w)
    BY <2>1, <2>2 DEF Pool!Finish
  <2> QED BY <2>3 DEF Pool!Next
<1>9. CASE UNCHANGED vars
  BY <1>9 DEF vars
<1> QED BY <1>2, <1>3, <1>4, <1>5, <1>6, <1>7, <1>8, <1>9
        DEF Next, WorkerStep

\* Every behaviour of the pool is one of TaskPool: the swap of the lists, the
\* late start and the lost notifications do not show.
THEOREM Implements == Spec => PoolSpec
<1> QED BY Invariance, PoolInit, PoolStep, PTL DEF Spec, PoolSpec, Pool!Spec
=============================================================================
