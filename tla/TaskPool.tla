------------------------------ MODULE TaskPool ------------------------------
(***************************************************************************)
(* What CThreadPool promises to the code that adds tasks: a task goes to   *)
(* the worker that its id selects, a worker runs its tasks one at a time   *)
(* in the order in which they were added, and a worker that is not running *)
(* a task may end, after which its tasks stay where they are.  Module      *)
(* ThreadPool is shown to implement this one, and module AutoForward       *)
(* builds on it.                                                           *)
(***************************************************************************)
EXTENDS Naturals, Sequences

CONSTANTS Task,    \* the task objects
          TaskId,  \* the id under which each of them is added
          NoTask,  \* a worker is running nothing
          Num      \* m_num: how many workers the pool has

Worker == 0 .. Num - 1

\* taskID % m_threadArr.size()
WorkerOf(t) == TaskId[t] % Num

VARIABLES todo,    \* the tasks added to each worker and not begun
          running, \* the task that each worker is running, or NoTask
          ended    \* the workers that have ended

vars == <<todo, running, ended>>

Init ==
    /\ todo = [w \in Worker |-> <<>>]
    /\ running = [w \in Worker |-> NoTask]
    /\ ended = {}

Add(t) ==
    /\ todo' = [todo EXCEPT ![WorkerOf(t)] = Append(@, t)]
    /\ UNCHANGED <<running, ended>>

Begin(w) ==
    /\ w \notin ended
    /\ running[w] = NoTask
    /\ todo[w] # <<>>
    /\ running' = [running EXCEPT ![w] = Head(todo[w])]
    /\ todo' = [todo EXCEPT ![w] = Tail(@)]
    /\ UNCHANGED ended

Finish(w) ==
    /\ running[w] # NoTask
    /\ running' = [running EXCEPT ![w] = NoTask]
    /\ UNCHANGED <<todo, ended>>

End(w) ==
    /\ running[w] = NoTask
    /\ ended' = ended \cup {w}
    /\ UNCHANGED <<todo, running>>

Next ==
    \/ \E t \in Task : Add(t)
    \/ \E w \in Worker : Begin(w) \/ Finish(w) \/ End(w)

Spec == Init /\ [][Next]_vars
=============================================================================
