----------------------------- MODULE ThreadPool -----------------------------
(***************************************************************************)
(* CThreadPool over CQueueService and common_thread: the pool behind the   *)
(* news forwarding, the HTTP push and the question tasks.                  *)
(*                                                                         *)
(* A worker's thread is started by the constructor of its base class, when *)
(* m_exec is not set yet and m_runFlag has whatever value the memory held. *)
(* The thread waits for m_runFlag, for 5 seconds at most; start() writes   *)
(* the flag and notifies without the mutex, so its notification may fall   *)
(* between the thread's look at the flag and its sleep.  Time is not       *)
(* modelled: a timeout may come whenever the thread waits.                 *)
(*                                                                         *)
(* The owner of the pool calls init, start and stop, in this order; other  *)
(* threads add tasks from the moment start has returned, and may go on     *)
(* after stop.                                                             *)
(***************************************************************************)
EXTENDS Naturals, Sequences, FiniteSets

CONSTANTS Task,    \* the task objects, each added once
          TaskId,  \* the id under which each of them is added
          NoTask,  \* a worker is running nothing
          Num      \* m_num

ASSUME NumAssumption == Num \in Nat \ {0}
ASSUME TaskAssumption == TaskId \in [Task -> Nat] /\ NoTask \notin Task

Worker == 0 .. Num - 1

VARIABLES
    m_runFlag,   \* of each worker
    m_exec,      \* the workers whose m_exec is set
    pc,          \* where each worker's thread is
    _task_list,  \* the tasks added to each worker
    temp_task_list,
    running,     \* the task that each worker is executing, or NoTask
    phase,       \* which call the owner is in
    turn,        \* ... and for which worker
    bornSet,     \* history: the workers whose flag was set in raw memory
    expired,     \* history: the workers whose wait ended by the 5 seconds
    added,       \* history: the tasks added to each worker, in order
    begun        \* history: the tasks each worker has begun, in order

ownerVars == <<phase, turn>>
workerVars == <<pc, temp_task_list, running, expired, begun>>
taskVars == <<_task_list, added>>
birthVars == <<m_exec, bornSet>>
vars == <<m_runFlag, m_exec, pc, _task_list, temp_task_list, running, phase,
          turn, bornSet, expired, added, begun>>

Phase == {"construct", "setExec", "start", "notifyStart", "ready",
          "stop", "notifyStop", "join", "stopped"}
Loc == {"none", "look", "falling", "blocked", "while", "exec", "drain", "task",
        "ended"}

TypeOK ==
    /\ m_runFlag \in [Worker -> BOOLEAN]
    /\ m_exec \in SUBSET Worker
    /\ pc \in [Worker -> Loc]
    /\ _task_list \in [Worker -> Seq(Task)]
    /\ temp_task_list \in [Worker -> Seq(Task)]
    /\ running \in [Worker -> Task \cup {NoTask}]
    /\ phase \in Phase
    /\ turn \in Worker
    /\ bornSet \in SUBSET Worker
    /\ expired \in SUBSET Worker
    /\ added \in [Worker -> Seq(Task)]
    /\ begun \in [Worker -> Seq(Task)]

Init ==
    /\ m_runFlag = [w \in Worker |-> FALSE]
    /\ m_exec = {}
    /\ pc = [w \in Worker |-> "none"]
    /\ _task_list = [w \in Worker |-> <<>>]
    /\ temp_task_list = [w \in Worker |-> <<>>]
    /\ running = [w \in Worker |-> NoTask]
    /\ phase = "construct"
    /\ turn = 0
    /\ bornSet = {}
    /\ expired = {}
    /\ added = [w \in Worker |-> <<>>]
    /\ begun = [w \in Worker |-> <<>>]

-----------------------------------------------------------------------------
(* The owner of the pool. *)

\* The owner's loop over m_threadArr: the same call for the next worker, or
\* the next call for the first one.
NextWorker(again, after) ==
    IF turn + 1 < Num
    THEN phase' = again /\ turn' = turn + 1
    ELSE phase' = after /\ turn' = 0

\* common_thread's constructor: the thread starts, the flag is not written.
Construct ==
    /\ phase = "construct"
    /\ \E garbage \in BOOLEAN :
           /\ m_runFlag' = [m_runFlag EXCEPT ![turn] = garbage]
           /\ bornSet' = IF garbage THEN bornSet \cup {turn} ELSE bornSet
    /\ pc' = [pc EXCEPT ![turn] = "look"]
    /\ phase' = "setExec"
    /\ UNCHANGED <<m_exec, turn, temp_task_list, running, expired, begun,
                   taskVars>>

\* CQueueService's constructor.
SetExec ==
    /\ phase = "setExec"
    /\ m_exec' = m_exec \cup {turn}
    /\ NextWorker("construct", "start")
    /\ UNCHANGED <<m_runFlag, bornSet, workerVars, taskVars>>

SetFlag(from, to, value) ==
    /\ phase = from
    /\ phase' = to
    /\ m_runFlag' = [m_runFlag EXCEPT ![turn] = value]
    /\ UNCHANGED <<turn, birthVars, workerVars, taskVars>>

Start == SetFlag("start", "notifyStart", TRUE)

\* notify_one wakes the thread only if it sleeps at this moment.
Woken == [pc EXCEPT ![turn] = IF @ = "blocked" THEN "look" ELSE @]

NotifyStart ==
    /\ phase = "notifyStart"
    /\ pc' = Woken
    /\ NextWorker("start", "ready")
    /\ UNCHANGED <<m_runFlag, birthVars, temp_task_list, running, expired,
                   begun, taskVars>>

CallStop ==
    /\ phase = "ready"
    /\ phase' = "stop"
    /\ UNCHANGED <<m_runFlag, turn, birthVars, workerVars, taskVars>>

\* stop() notifies, and leaves the flag as it is.
StopWithoutFlag == SetFlag("stop", "notifyStop", m_runFlag[turn])

Stop == SetFlag("stop", "notifyStop", FALSE)

NotifyStop ==
    /\ phase = "notifyStop"
    /\ pc' = Woken
    /\ phase' = "join"
    /\ UNCHANGED <<m_runFlag, turn, birthVars, temp_task_list, running,
                   expired, begun, taskVars>>

\* stop() returns without waiting for the thread.
JoinNobody ==
    /\ phase = "join"
    /\ NextWorker("stop", "stopped")
    /\ UNCHANGED <<m_runFlag, birthVars, workerVars, taskVars>>

Join ==
    /\ phase = "join"
    /\ pc[turn] = "ended"
    /\ NextWorker("stop", "stopped")
    /\ UNCHANGED <<m_runFlag, birthVars, workerVars, taskVars>>

-----------------------------------------------------------------------------
(* Whoever adds tasks. *)

WorkerOf(t) == TaskId[t] % Num

Adding(t) ==
    /\ phase \notin {"construct", "setExec", "start", "notifyStart"}
    /\ \A w \in Worker : \A i \in 1 .. Len(added[w]) : added[w][i] # t

AddTaskInFront(t) ==
    /\ Adding(t)
    /\ LET w == WorkerOf(t) IN
           /\ _task_list' = [_task_list EXCEPT ![w] = <<t>> \o @]
           /\ added' = [added EXCEPT ![w] = Append(@, t)]
    /\ UNCHANGED <<m_runFlag, birthVars, ownerVars, workerVars>>

AddTask(t) ==
    /\ Adding(t)
    /\ LET w == WorkerOf(t) IN
           /\ _task_list' = [_task_list EXCEPT ![w] = Append(@, t)]
           /\ added' = [added EXCEPT ![w] = Append(@, t)]
    /\ UNCHANGED <<m_runFlag, birthVars, ownerVars, workerVars>>

-----------------------------------------------------------------------------
(* A worker's thread. *)

Goto(w, from, to) ==
    /\ pc[w] = from
    /\ pc' = [pc EXCEPT ![w] = to]

\* wait_for looks at its predicate, holding m_cvMutex, before it sleeps and
\* whenever it wakes.
SeeFlag(w) ==
    /\ m_runFlag[w]
    /\ Goto(w, "look", "while")
    /\ UNCHANGED <<m_runFlag, birthVars, ownerVars, taskVars, temp_task_list,
                   running, expired, begun>>

\* One look at the flag, and the thread goes on.
GoOnWithoutFlag(w) ==
    /\ ~m_runFlag[w]
    /\ Goto(w, "look", "while")
    /\ UNCHANGED <<m_runFlag, birthVars, ownerVars, taskVars, temp_task_list,
                   running, expired, begun>>

SeeNoFlag(w) ==
    /\ ~m_runFlag[w]
    /\ Goto(w, "look", "falling")
    /\ UNCHANGED <<m_runFlag, birthVars, ownerVars, taskVars, temp_task_list,
                   running, expired, begun>>

\* From here to its sleep the thread hears no notification: start() does not
\* take m_cvMutex.
Sleep(w) ==
    /\ Goto(w, "falling", "blocked")
    /\ UNCHANGED <<m_runFlag, birthVars, ownerVars, taskVars, temp_task_list,
                   running, expired, begun>>

SpuriousWakeup(w) ==
    /\ Goto(w, "blocked", "look")
    /\ UNCHANGED <<m_runFlag, birthVars, ownerVars, taskVars, temp_task_list,
                   running, expired, begun>>

\* wait() in place of wait_for().
NeverTimeout(w) == FALSE /\ Goto(w, "blocked", "while") /\ UNCHANGED vars

\* Five seconds have passed: the thread goes on whatever the flag says.
Timeout(w) ==
    /\ Goto(w, "blocked", "while")
    /\ expired' = expired \cup {w}
    /\ UNCHANGED <<m_runFlag, birthVars, ownerVars, taskVars, temp_task_list,
                   running, begun>>

WhileRun(w) ==
    /\ Goto(w, "while", IF m_runFlag[w] THEN "exec" ELSE "ended")
    /\ UNCHANGED <<m_runFlag, birthVars, ownerVars, taskVars, temp_task_list,
                   running, expired, begun>>

\* m_exec is empty: the thread clears the flag and ends.
NoExec(w) ==
    /\ w \notin m_exec
    /\ Goto(w, "exec", "ended")
    /\ m_runFlag' = [m_runFlag EXCEPT ![w] = FALSE]
    /\ UNCHANGED <<birthVars, ownerVars, taskVars, temp_task_list, running,
                   expired, begun>>

\* The list is copied and not cleared.
Copy(w) ==
    /\ w \in m_exec
    /\ Goto(w, "exec", "drain")
    /\ temp_task_list' = [temp_task_list EXCEPT ![w] = _task_list[w]]
    /\ UNCHANGED <<_task_list, added, m_runFlag, birthVars, ownerVars, running,
                   expired, begun>>

\* execute(): temp_task_list is a fresh, empty local.
Swap(w) ==
    /\ w \in m_exec
    /\ Goto(w, "exec", "drain")
    /\ temp_task_list' = [temp_task_list EXCEPT ![w] = _task_list[w]]
    /\ _task_list' = [_task_list EXCEPT ![w] = <<>>]
    /\ UNCHANGED <<added, m_runFlag, birthVars, ownerVars, running, expired,
                   begun>>

BeginTask(w) ==
    /\ temp_task_list[w] # <<>>
    /\ Goto(w, "drain", "task")
    /\ running' = [running EXCEPT ![w] = Head(temp_task_list[w])]
    /\ temp_task_list' = [temp_task_list EXCEPT ![w] = Tail(@)]
    /\ begun' = [begun EXCEPT ![w] = Append(@, Head(temp_task_list[w]))]
    /\ UNCHANGED <<m_runFlag, birthVars, ownerVars, taskVars, expired>>

\* execute returns after one task, and temp_task_list goes out of scope.
EndTaskAndDrop(w) ==
    /\ Goto(w, "task", "while")
    /\ running' = [running EXCEPT ![w] = NoTask]
    /\ temp_task_list' = [temp_task_list EXCEPT ![w] = <<>>]
    /\ UNCHANGED <<m_runFlag, birthVars, ownerVars, taskVars, expired, begun>>

\* The task returns and is deleted.
EndTask(w) ==
    /\ Goto(w, "task", "drain")
    /\ running' = [running EXCEPT ![w] = NoTask]
    /\ UNCHANGED <<m_runFlag, birthVars, ownerVars, taskVars, temp_task_list,
                   expired, begun>>

\* The local list is empty: execute sleeps 10 ms and returns.
Drained(w) ==
    /\ temp_task_list[w] = <<>>
    /\ Goto(w, "drain", "while")
    /\ UNCHANGED <<m_runFlag, birthVars, ownerVars, taskVars, temp_task_list,
                   running, expired, begun>>

WorkerStep(w) ==
    \/ SeeFlag(w)
    \/ SeeNoFlag(w)
    \/ Sleep(w)
    \/ Timeout(w)
    \/ WhileRun(w)
    \/ NoExec(w)
    \/ Swap(w)
    \/ BeginTask(w)
    \/ EndTask(w)
    \/ Drained(w)

OwnerStep ==
    \/ Construct
    \/ SetExec
    \/ Start
    \/ NotifyStart
    \/ Stop
    \/ NotifyStop
    \/ Join

Next ==
    \/ OwnerStep
    \/ CallStop
    \/ \E t \in Task : AddTask(t)
    \/ \E w \in Worker : WorkerStep(w) \/ SpuriousWakeup(w)

Spec == Init /\ [][Next]_vars

\* The owner and every thread go on when they can, tasks return, and a wait of
\* five seconds ends: its deadline does not move when the thread wakes early,
\* hence the stronger fairness.  Nobody has to add a task or to stop the pool.
Fairness ==
    /\ WF_vars(OwnerStep)
    /\ \A w \in Worker : WF_vars(WorkerStep(w)) /\ SF_vars(Timeout(w))

FairSpec == Spec /\ Fairness

-----------------------------------------------------------------------------
(* Properties. *)

\* Every task added is run at most once, in the order in which its worker's
\* tasks were added, and is never dropped while it waits: addTask, swap and
\* pop_front together keep one sequence.
PoolOrder ==
    \A w \in Worker :
        added[w] = begun[w] \o temp_task_list[w] \o _task_list[w]

\* Once stop() has returned for a worker it runs nothing, however many tasks
\* are added to it later; and it never leaves a task half done.
StopIsABarrier ==
    \A w \in Worker :
        /\ phase = "stopped" \/ (phase \in {"stop", "notifyStop", "join"} /\ w < turn)
               => pc[w] = "ended"
        /\ pc[w] = "ended" => running[w] = NoTask /\ temp_task_list[w] = <<>>

\* A thread ends before stop() is called for it only if the memory it was
\* born in held a set flag, or if its first five seconds ended unnoticed.
EndsForAReason ==
    \A w \in Worker :
        pc[w] = "ended" =>
            \/ phase \in {"stop", "notifyStop", "join", "stopped"}
            \/ w \in bornSet \cup expired

\* A start() whose notification is lost is still seen: the thread leaves the
\* wait (wait_for has a timeout).
StartIsSeen ==
    \A w \in Worker : (pc[w] = "blocked" /\ m_runFlag[w]) ~> (pc[w] # "blocked")

\* A task that is added is begun, unless its worker has ended.
TaskIsRun ==
    \A w \in Worker : \A n \in 1 .. Cardinality(Task) :
        (Len(added[w]) >= n) ~> (Len(begun[w]) >= n \/ pc[w] = "ended")

\* stop() returns: the flag it clears reaches every thread, those that still
\* wait to be started among them.
StopReturns == (phase = "stop") ~> (phase = "stopped")

\* The pool implements the task pool it promises.
Pool == INSTANCE TaskPool WITH
    todo <- [w \in Worker |-> temp_task_list[w] \o _task_list[w]],
    ended <- {w \in Worker : pc[w] = "ended"}

PoolSpec == Pool!Spec
=============================================================================
