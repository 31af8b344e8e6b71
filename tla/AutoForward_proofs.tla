------------------------- MODULE AutoForward_proofs -------------------------
(***************************************************************************)
(* Proofs about AutoForward, for any groups and configurations, any number *)
(* of workers, news and calls.                                             *)
(*                                                                         *)
(* The forwarder and the question handler, drawing on one limit, are still *)
(* a behaviour of TrafficControl, so its theorems hold of them together.   *)
(* The interval between news follows from the agreement of the two clocks  *)
(* while nobody sets one back.  The send rate follows from the place of    *)
(* the tasks: two tasks sent within the sleep are with two workers, and    *)
(* there are no more workers than Num.  That every target is served once   *)
(* follows from what the loop of onBoradcastAsync has left: the last       *)
(* targets of the list (SuffixInv), one for each task not yet added.       *)
(***************************************************************************)
EXTENDS AutoForward, TrafficControl_proofs, FiniteSetTheorems

Worker == Pool!Worker
WorkerOf(t) == Pool!WorkerOf(t)

\* The bounds leave room for the tasks of the news that is being handed over.
LoopInv ==
    /\ Len(news) <= MaxNews
    /\ loop # <<>> => news # <<>>
    /\ task_id_ + Len(loop) <= MaxTasks

\* What StartAutoForward leaves behind, and that nothing happens before it.
StartInv ==
    /\ ~is_init_ => ~registered /\ loop = <<>> /\ task_id_ = 0 /\ news = <<>>
    /\ is_init_ => config \in ConfigForward
    /\ registered /\ config.vecFromGroup # {} /\ config.vecToGroup # <<>>
           => hasPool

\* Until somebody sets the wall clock back it runs with the steady clock, and
\* last_send_time_ is the time of the last news.
ClocksInv ==
    /\ ~setBack =>
           /\ now = StartTime + up
           /\ news # <<>> => last_send_time_ = StartTime + news[Len(news)]
    /\ \A i \in 1 .. Len(news) : news[i] <= up
    /\ \A i, j \in 1 .. Len(news) : i < j => news[i] <= news[j]

\* Tasks are with their worker, and a worker that is free has slept after all
\* that it sent.
SleepInv ==
    /\ \A w \in Worker :
           /\ \A i \in 1 .. Len(todo[w]) : WorkerOf(todo[w][i]) = w
           /\ running[w] = NoTask => wakeAt[w] <= up
    /\ \A i \in 1 .. Len(sent) :
           /\ sent[i].at <= up
           /\ sent[i].at + kSleep <= wakeAt[WorkerOf(sent[i].task)]

\* What is sent is sent in time order, and by one worker in two seconds' steps.
SentInv ==
    \A i, j \in 1 .. Len(sent) :
        i < j => /\ sent[i].at <= sent[j].at
                 /\ WorkerOf(sent[i].task) = WorkerOf(sent[j].task)
                        => sent[i].at + kSleep <= sent[j].at

-----------------------------------------------------------------------------
(* The limit is shared. *)

LEMMA LimitStep == [Next]_vars => [TrafficNext]_trafficVars
<1> SUFFICES ASSUME [Next]_vars PROVE [TrafficNext]_trafficVars
  OBVIOUS
<1>1. {"forward", "helper"} \subseteq Caller
  BY PoolAssumption
<1>2. CASE UNCHANGED vars
  BY <1>2 DEF vars
<1>3. ASSUME NEW i \in ConfigInterval, NEW l \in ConfigLimit, ConfigureTraffic(i, l)
      PROVE  TrafficNext
  BY <1>3 DEF ConfigureTraffic, TrafficNext
<1>4. ASSUME NEW from \in Group, NEW kind \in Kind, RefuseNews(from, kind)
      PROVE  TrafficNext
  BY <1>1, <1>4 DEF RefuseNews, TrafficNext
<1>5. CASE HelperAsks
  BY <1>1, <1>5 DEF HelperAsks, TrafficNext
<1>6. CASE Second \/ TurnClockBack
  BY <1>6 DEF Second, TurnClockBack, TrafficNext
<1>7. ASSUME NEW w \in Worker, Send(w) \/ Wake(w) \/ Die(w)
      PROVE  UNCHANGED trafficVars
  BY <1>7 DEF Send, Wake, Die
<1>8. CASE AddTask
  BY <1>8 DEF AddTask
<1>9. ASSUME NEW c \in ConfigForward, StartAutoForward(c)
      PROVE  UNCHANGED trafficVars
  BY <1>9 DEF StartAutoForward
<1>10. ASSUME NEW from \in Group, NEW kind \in Kind, Broadcast(from, kind)
       PROVE  UNCHANGED trafficVars
  BY <1>10 DEF Broadcast
<1> QED
  BY <1>2, <1>3, <1>4, <1>5, <1>6, <1>7, <1>8, <1>9, <1>10 DEF Next, Worker

\* Seen from the limit, the forwarder and the question handler are two callers.
THEOREM LimitImplemented == Spec => TrafficSpec
<1>1. Init => TrafficInit
  BY DEF Init
<1> QED BY <1>1, LimitStep, PTL DEF Spec, TrafficSpec

\* The quota of a window is kept by both handlers together: news refused and
\* questions answered in one window count as one (CMsgTrafficControl::Grant).
THEOREM SharedQuota == Spec => []WindowQuota
BY LimitImplemented, QuotaKept, PTL

-----------------------------------------------------------------------------
(* Types. *)

LEMMA WorkerFacts ==
    /\ Worker = 0 .. Num - 1 /\ 0 \in Worker
    /\ NoTask \notin 1 .. MaxTasks
    /\ \A t \in 1 .. MaxTasks : WorkerOf(t) \in Worker
  BY PoolAssumption DEF Worker, WorkerOf, Pool!Worker, Pool!WorkerOf

LEMMA ForwardTypeInit == Init => TypeOK
<1> SUFFICES ASSUME Init PROVE TypeOK
  OBVIOUS
<1>1. TrafficTypeOK
  BY TypeInit DEF Init
<1>2. /\ loop \in Seq(Group) /\ news \in Seq(Nat)
      /\ parcel \in Seq([of : 1 .. MaxNews, to : Group])
      /\ sent \in Seq([task : 1 .. MaxTasks, at : Nat])
      /\ Len(parcel) = task_id_ /\ task_id_ \in 0 .. MaxTasks
  BY PoolAssumption DEF Init
<1>3. /\ todo \in [Pool!Worker -> Seq(1 .. MaxTasks)]
      /\ running \in [Pool!Worker -> 1 .. MaxTasks \cup {NoTask}]
      /\ ended \in SUBSET Pool!Worker
  <2>1. <<>> \in Seq(1 .. MaxTasks)
    BY EmptySeq
  <2>2. /\ todo = [w \in Pool!Worker |-> <<>>]
        /\ running = [w \in Pool!Worker |-> NoTask]
        /\ ended = {}
    BY DEF Init, Pool!Init
  <2>3. todo \in [Pool!Worker -> Seq(1 .. MaxTasks)]
    BY <2>1, <2>2
  <2>4. running \in [Pool!Worker -> 1 .. MaxTasks \cup {NoTask}]
    BY <2>2
  <2>5. ended \in SUBSET Pool!Worker
    BY <2>2
  <2> QED BY <2>3, <2>4, <2>5
<1>4. /\ wakeAt \in [Pool!Worker -> Nat] /\ up \in Nat
      /\ last_send_time_ \in Int /\ config \in ConfigForward \cup {NoConfig}
  BY DEF Init
<1>5. {is_init_, registered, hasPool} \subseteq BOOLEAN
  BY Zenon DEF Init
<1> QED BY <1>1, <1>2, <1>3, <1>4, <1>5 DEF TypeOK

\* What the handler takes from the configuration.
LEMMA ConfigTypes ==
    ASSUME TypeOK, StartInv, is_init_
    PROVE  /\ config.vecToGroup \in Seq(Group)
           /\ config.transferInterval \in Int
  BY ConfigForwardAssumption DEF StartInv

LEMMA ForwardTypeStep == TypeOK /\ LoopInv /\ StartInv /\ [Next]_vars => TypeOK'
<1> SUFFICES ASSUME TypeOK, LoopInv, StartInv, [Next]_vars PROVE TypeOK'
  OBVIOUS
<1> USE DEF forwardVars, poolVars, startVars, workerVars
<1>0. TrafficTypeOK'
  BY LimitStep, TypeStep DEF TypeOK
<1>1. ASSUME UNCHANGED <<up, startVars, forwardVars, poolVars, workerVars>>
      PROVE  TypeOK'
  BY <1>0, <1>1 DEF TypeOK
<1>2. ASSUME NEW c \in ConfigForward, StartAutoForward(c) PROVE TypeOK'
  BY <1>0, <1>2, ConfigForwardAssumption DEF StartAutoForward, TypeOK
<1>3. ASSUME NEW from \in Group, NEW kind \in Kind, Broadcast(from, kind)
      PROVE  TypeOK'
  <2>1. loop' \in Seq(Group) /\ news' \in Seq(Nat) /\ last_send_time_' \in Int
    BY <1>3, ConfigTypes DEF Broadcast, Idle, TypeOK, TrafficTypeOK
  <2> QED BY <1>0, <1>3, <2>1 DEF Broadcast, TypeOK
<1>4. CASE AddTask
  <2>1. loop \in Seq(Group) /\ loop # <<>> /\ news \in Seq(Nat)
    BY <1>4 DEF AddTask, TypeOK
  <2>2. /\ Head(loop) \in Group /\ Tail(loop) \in Seq(Group)
        /\ Len(loop) \in Nat \ {0} /\ Len(news) \in 1 .. MaxNews
    BY <2>1, PoolAssumption DEF LoopInv
  <2>3. task_id_ + 1 \in 1 .. MaxTasks
    BY <2>2, PoolAssumption DEF LoopInv, TypeOK
  <2>4. todo' \in [Worker -> Seq(1 .. MaxTasks)]
    <3>1. /\ todo' = [todo EXCEPT ![WorkerOf(task_id_ + 1)] =
                         Append(@, task_id_ + 1)]
          /\ WorkerOf(task_id_ + 1) \in Worker
      BY <1>4, <2>3, WorkerFacts DEF AddTask, Pool!Add, WorkerOf
    <3> QED BY <2>3, <3>1 DEF TypeOK, Worker
  <2>5. /\ parcel' \in Seq([of : 1 .. MaxNews, to : Group])
        /\ Len(parcel') = task_id_'
    <3> DEFINE p == [of |-> Len(news), to |-> Head(loop)]
    <3>1. p \in [of : 1 .. MaxNews, to : Group]
      BY <2>2
    <3>2. parcel' = Append(parcel, p) /\ task_id_' = task_id_ + 1
      BY <1>4 DEF AddTask
    <3> HIDE DEF p
    <3> QED BY <3>1, <3>2 DEF TypeOK
  <2>6. /\ task_id_' \in 0 .. MaxTasks /\ loop' \in Seq(Group)
        /\ UNCHANGED <<up, startVars, last_send_time_, news, running, ended,
                       workerVars>>
    BY <1>4, <2>2, <2>3 DEF AddTask, Pool!Add
  <2> QED BY <1>0, <2>4, <2>5, <2>6 DEF TypeOK, Worker
<1>5. ASSUME NEW w \in Worker, Send(w) PROVE TypeOK'
  <2>1. /\ todo[w] \in Seq(1 .. MaxTasks) /\ todo[w] # <<>>
        /\ todo' = [todo EXCEPT ![w] = Tail(@)]
        /\ running' = [running EXCEPT ![w] = Head(todo[w])]
        /\ wakeAt' = [wakeAt EXCEPT ![w] = up + kSleep]
        /\ UNCHANGED <<ended, up, startVars, forwardVars>>
    BY <1>5 DEF Send, Pool!Begin, TypeOK, Worker
  <2>2. Head(todo[w]) \in 1 .. MaxTasks /\ Tail(todo[w]) \in Seq(1 .. MaxTasks)
    BY <2>1, HeadTailProperties
  <2>3. sent' \in Seq([task : 1 .. MaxTasks, at : Nat])
    <3> DEFINE s == [task |-> Head(todo[w]), at |-> up]
    <3>1. s \in [task : 1 .. MaxTasks, at : Nat]
      BY <2>2 DEF TypeOK
    <3>2. sent' = Append(sent, s)
      BY <1>5, <2>1 DEF Send, TypeOK, Worker
    <3> HIDE DEF s
    <3> QED BY <3>1, <3>2 DEF TypeOK
  <2>4. wakeAt' \in [Worker -> Nat]
    BY <2>1 DEF TypeOK, Worker, kSleep
  <2> QED BY <1>0, <2>1, <2>2, <2>3, <2>4 DEF TypeOK, Worker
<1>6. ASSUME NEW w \in Worker, Wake(w) \/ Die(w) PROVE TypeOK'
  BY <1>0, <1>6 DEF Wake, Die, Pool!Finish, Pool!End, TypeOK, Worker
<1>7. CASE Second
  BY <1>0, <1>7 DEF Second, TypeOK
<1> QED
  BY <1>1, <1>2, <1>3, <1>4, <1>5, <1>6, <1>7
     DEF Next, ConfigureTraffic, RefuseNews, HelperAsks, TurnClockBack, vars,
         Worker

-----------------------------------------------------------------------------
(* Start-up, the loop and the pool. *)

StartPart == LoopInv /\ StartInv /\ NullPoolNeverUsed

LEMMA StartInit == Init => StartPart
<1> SUFFICES ASSUME Init PROVE StartPart
  OBVIOUS
<1>1. Len(<<>>) = 0
  OBVIOUS
<1>2. /\ news = <<>> /\ loop = <<>> /\ task_id_ = 0
      /\ ~is_init_ /\ ~registered
  BY DEF Init
<1> QED
  BY <1>1, <1>2, PoolAssumption DEF StartPart, LoopInv, StartInv, NullPoolNeverUsed

LEMMA StartStep == TypeOK /\ StartPart /\ [Next]_vars => StartPart'
<1> SUFFICES ASSUME TypeOK, LoopInv, StartInv, NullPoolNeverUsed, [Next]_vars
             PROVE  (LoopInv /\ StartInv /\ NullPoolNeverUsed)'
  BY DEF StartPart
<1> USE DEF forwardVars, poolVars, startVars, workerVars
<1>1. ASSUME UNCHANGED <<startVars, forwardVars>>
      PROVE  (LoopInv /\ StartInv /\ NullPoolNeverUsed)'
  BY <1>1 DEF LoopInv, StartInv, NullPoolNeverUsed
<1>2. ASSUME NEW c \in ConfigForward, StartAutoForward(c)
      PROVE  (LoopInv /\ StartInv /\ NullPoolNeverUsed)'
  <2>1. /\ is_init_' = TRUE /\ config' = c
        /\ hasPool' <=> c.transferFlag /\ ~NothingToDo(c)
        /\ registered' <=> c.transferFlag
        /\ UNCHANGED forwardVars
        /\ loop = <<>> /\ task_id_ = 0
    BY <1>2 DEF StartAutoForward, StartInv
  <2> QED BY <2>1 DEF LoopInv, StartInv, NullPoolNeverUsed, NothingToDo
<1>3. ASSUME NEW from \in Group, NEW kind \in Kind, Broadcast(from, kind)
      PROVE  (LoopInv /\ StartInv /\ NullPoolNeverUsed)'
  <2>1. /\ is_init_ /\ registered /\ config.vecFromGroup # {}
        /\ loop' = config.vecToGroup
        /\ news' = Append(news, up) /\ Len(news) < MaxNews
        /\ task_id_ + Len(config.vecToGroup) <= MaxTasks
        /\ UNCHANGED <<startVars, task_id_>>
    BY <1>3 DEF Broadcast, Idle
  <2>2. Len(news') = Len(news) + 1 /\ news' # <<>> /\ Len(news) \in Nat
    <3>1. news \in Seq(Nat) /\ up \in Nat
      BY DEF TypeOK
    <3> QED BY <2>1, <3>1, AppendProperties, LenProperties
  <2>3. LoopInv'
    BY <2>1, <2>2, PoolAssumption DEF LoopInv
  <2>4. (StartInv /\ NullPoolNeverUsed)'
    BY <2>1 DEF StartInv, NullPoolNeverUsed
  <2> QED BY <2>3, <2>4
<1>4. CASE AddTask
  <2>1. /\ loop \in Seq(Group) /\ loop # <<>> /\ loop' = Tail(loop)
        /\ task_id_' = task_id_ + 1
        /\ UNCHANGED <<startVars, news>>
    BY <1>4 DEF AddTask, TypeOK
  <2>2. Len(Tail(loop)) = Len(loop) - 1
    BY <2>1, HeadTailProperties
  <2>3. LoopInv'
    BY <2>1, <2>2 DEF LoopInv, TypeOK
  <2>4. (StartInv /\ NullPoolNeverUsed)'
    BY <2>1 DEF StartInv, NullPoolNeverUsed
  <2> QED BY <2>3, <2>4
<1>5. ASSUME NEW w \in Worker, Send(w) \/ Wake(w) \/ Die(w)
      PROVE  UNCHANGED <<startVars, forwardVars>>
  BY <1>5 DEF Send, Wake, Die
<1> QED
  BY <1>1, <1>2, <1>3, <1>4, <1>5
     DEF Next, ConfigureTraffic, RefuseNews, HelperAsks, Second, TurnClockBack,
         vars, Worker

-----------------------------------------------------------------------------
(* The two clocks and the interval between news. *)

ClockPart == ClocksInv /\ NewsSpacing

LEMMA ClockInit == Init => ClockPart
<1> SUFFICES ASSUME Init PROVE ClockPart
  OBVIOUS
<1>1. news = <<>> /\ now = StartTime /\ up = 0
  BY DEF Init, TrafficInit
<1>2. 1 .. Len(news) = {}
  BY <1>1
<1> QED BY <1>1, <1>2, Constants DEF ClockPart, ClocksInv, NewsSpacing

LEMMA ClockStep ==
    TypeOK /\ StartPart /\ ClockPart /\ [Next]_vars => ClockPart'
<1> SUFFICES ASSUME TypeOK, StartPart, ClocksInv, NewsSpacing, [Next]_vars
             PROVE  (ClocksInv /\ NewsSpacing)'
  BY DEF ClockPart
<1> USE DEF forwardVars, poolVars, startVars, workerVars
<1>0. /\ now \in Int /\ up \in Nat /\ StartTime \in Nat /\ news \in Seq(Nat)
      /\ Len(news) \in Nat /\ \A i \in 1 .. Len(news) : news[i] \in Nat
      /\ news # <<>> => Len(news) \in 1 .. Len(news)
  BY Constants DEF TypeOK, TrafficTypeOK
<1>1. ASSUME UNCHANGED <<now, setBack, up, news, last_send_time_, config>>
      PROVE  (ClocksInv /\ NewsSpacing)'
  BY <1>1 DEF ClocksInv, NewsSpacing
<1>2. ASSUME NEW c \in ConfigForward, StartAutoForward(c)
      PROVE  (ClocksInv /\ NewsSpacing)'
  <2>1. /\ UNCHANGED <<now, setBack, up, news, last_send_time_>>
        /\ news = <<>>
    BY <1>2 DEF StartAutoForward, StartPart, StartInv, trafficVars
  <2>2. 1 .. Len(news) = {}
    BY <2>1
  <2> QED BY <2>1, <2>2 DEF ClocksInv, NewsSpacing
<1>3. ASSUME NEW from \in Group, NEW kind \in Kind, Broadcast(from, kind)
      PROVE  (ClocksInv /\ NewsSpacing)'
  <2>1. /\ news' = Append(news, up) /\ last_send_time_' = now /\ ~TooSoon
        /\ UNCHANGED <<now, setBack, up, config>>
    BY <1>3 DEF Broadcast, trafficVars
  <2>2. config.transferInterval \in Int
    BY <1>3, ConfigTypes DEF Broadcast, Idle, StartPart
  <2>3. /\ Len(news') = Len(news) + 1
        /\ news'[Len(news) + 1] = up
        /\ \A i \in 1 .. Len(news) : news'[i] = news[i]
        /\ news' # <<>>
    BY <1>0, <2>1
  <2>4. ClocksInv'
    BY <1>0, <2>1, <2>3 DEF ClocksInv
  <2>5. ~setBack => \A i \in 1 .. Len(news) :
                        up - news[i] >= config.transferInterval
    <3> SUFFICES ASSUME ~setBack, NEW i \in 1 .. Len(news)
                 PROVE  up - news[i] >= config.transferInterval
      OBVIOUS
    <3>1. /\ last_send_time_ = StartTime + news[Len(news)]
          /\ now = StartTime + up
          /\ news[i] <= news[Len(news)] /\ news[Len(news)] <= up
      BY <1>0 DEF ClocksInv
    <3>2. up - news[Len(news)] >= config.transferInterval
      BY <1>0, <2>1, <2>2, <3>1, SMTT(30) DEF TooSoon, AbsDiff
    <3> QED BY <1>0, <2>2, <3>1, <3>2, SMTT(30)
  <2>6. NewsSpacing'
    BY <1>0, <2>1, <2>3, <2>5, SMTT(30) DEF NewsSpacing
  <2> QED BY <2>4, <2>6
<1>4. CASE Second
  <2>1. /\ now' = now + 1 /\ up' = up + 1
        /\ UNCHANGED <<setBack, news, last_send_time_, config>>
    BY <1>4 DEF Second, Tick
  <2> QED BY <1>0, <2>1 DEF ClocksInv, NewsSpacing
<1>5. CASE TurnClockBack
  <2>1. setBack' /\ UNCHANGED <<up, news, config>>
    BY <1>5 DEF TurnClockBack, SetClockBack
  <2> QED BY <2>1 DEF ClocksInv, NewsSpacing
<1>6. ASSUME NEW i \in ConfigInterval, NEW l \in ConfigLimit, ConfigureTraffic(i, l)
      PROVE  (ClocksInv /\ NewsSpacing)'
  BY <1>1, <1>6 DEF ConfigureTraffic, SetLimit
<1>7. ASSUME NEW c \in Caller, Grant(c), UNCHANGED <<up, startVars, forwardVars>>
      PROVE  (ClocksInv /\ NewsSpacing)'
  BY <1>1, <1>7 DEF Grant
<1>8. ASSUME NEW w \in Worker, Send(w) \/ Wake(w) \/ Die(w)
      PROVE  (ClocksInv /\ NewsSpacing)'
  BY <1>1, <1>8 DEF Send, Wake, Die, trafficVars
<1>9. CASE AddTask
  BY <1>1, <1>9 DEF AddTask, trafficVars
<1>10. CASE UNCHANGED vars
  BY <1>1, <1>10 DEF vars, trafficVars
<1>11. {"forward", "helper"} \subseteq Caller
  BY PoolAssumption
<1>12. ASSUME NEW from \in Group, NEW kind \in Kind, RefuseNews(from, kind)
       PROVE  (ClocksInv /\ NewsSpacing)'
  BY <1>7, <1>11, <1>12 DEF RefuseNews
<1>13. CASE HelperAsks
  BY <1>7, <1>11, <1>13 DEF HelperAsks
<1> QED
  BY <1>2, <1>3, <1>4, <1>5, <1>6, <1>8, <1>9, <1>10, <1>12, <1>13
     DEF Next, Worker

-----------------------------------------------------------------------------
(* The workers' sleep and the send rate. *)

SendPart == SleepInv /\ SentInv

LEMMA SendInit == Init => SendPart
<1> SUFFICES ASSUME Init PROVE SendPart
  OBVIOUS
<1>1. /\ sent = <<>> /\ up = 0
      /\ \A w \in Worker : todo[w] = <<>> /\ wakeAt[w] = 0
  BY DEF Init, Pool!Init, Worker
<1>2. 1 .. Len(<<>>) = {}
  OBVIOUS
<1> QED BY <1>1, <1>2 DEF SendPart, SleepInv, SentInv

LEMMA SentTypes ==
    ASSUME TypeOK
    PROVE  /\ Len(sent) \in Nat
           /\ \A i \in 1 .. Len(sent) : /\ sent[i].at \in Nat
                                      /\ WorkerOf(sent[i].task) \in Worker
<1> DEFINE R == [task : 1 .. MaxTasks, at : Nat]
<1>1. sent \in Seq(R)
  BY DEF TypeOK
<1>2. \A r \in R : r.at \in Nat /\ r.task \in 1 .. MaxTasks
  OBVIOUS
<1> HIDE DEF R
<1>3. Len(sent) \in Nat /\ \A i \in 1 .. Len(sent) : sent[i] \in R
  BY <1>1, LenProperties, ElementOfSeq
<1> QED BY <1>2, <1>3, WorkerFacts

LEMMA SendStep == TypeOK /\ StartPart /\ SendPart /\ [Next]_vars => SendPart'
<1> SUFFICES ASSUME TypeOK, StartPart, SleepInv, SentInv, [Next]_vars
             PROVE  (SleepInv /\ SentInv)'
  BY DEF SendPart
<1> USE DEF forwardVars, poolVars, startVars, workerVars
<1>0. /\ up \in Nat
      /\ \A w \in Worker : wakeAt[w] \in Nat
      /\ Len(sent) \in Nat
      /\ \A i \in 1 .. Len(sent) : /\ sent[i].at \in Nat
                                 /\ WorkerOf(sent[i].task) \in Worker
  BY SentTypes DEF TypeOK, Worker
<1>1. ASSUME UNCHANGED <<todo, running, wakeAt, sent, up>>
      PROVE  (SleepInv /\ SentInv)'
  BY <1>1 DEF SleepInv, SentInv
<1>2. CASE AddTask
  <2> DEFINE t == task_id_ + 1
  <2>1. t \in 1 .. MaxTasks
    <3>1. loop \in Seq(Group) /\ loop # <<>>
      BY <1>2 DEF AddTask, TypeOK
    <3>2. Len(loop) \in Nat \ {0}
      BY <3>1, EmptySeq
    <3> QED BY <3>2, PoolAssumption DEF StartPart, LoopInv, TypeOK
  <2> HIDE DEF t
  <2>2. /\ todo' = [todo EXCEPT ![WorkerOf(t)] = Append(@, t)]
        /\ UNCHANGED <<running, wakeAt, sent, up>>
    BY <1>2 DEF AddTask, Pool!Add, WorkerOf, t
  <2>3. ASSUME NEW w \in Worker, NEW i \in 1 .. Len(todo'[w])
        PROVE  WorkerOf(todo'[w][i]) = w
    <3>1. todo[w] \in Seq(1 .. MaxTasks) /\ w \in DOMAIN todo
      BY DEF TypeOK, Worker
    <3>2. CASE w = WorkerOf(t)
      <4>1. todo'[w] = Append(todo[w], t)
        BY <2>2, <3>1, <3>2
      <4>2. \/ i \in 1 .. Len(todo[w]) /\ todo'[w][i] = todo[w][i]
            \/ todo'[w][i] = t
        BY <2>1, <2>3, <3>1, <4>1
      <4> QED BY <3>2, <4>2 DEF SleepInv
    <3>3. CASE w # WorkerOf(t)
      BY <2>2, <2>3, <3>1, <3>3 DEF SleepInv
    <3> QED BY <3>2, <3>3
  <2> QED BY <2>2, <2>3 DEF SleepInv, SentInv
<1>3. ASSUME NEW w \in Worker, Send(w) PROVE (SleepInv /\ SentInv)'
  <2> DEFINE t == Head(todo[w])
  <2>1. /\ todo[w] \in Seq(1 .. MaxTasks) /\ todo[w] # <<>>
        /\ running[w] = NoTask
        /\ todo' = [todo EXCEPT ![w] = Tail(@)]
        /\ running' = [running EXCEPT ![w] = t]
        /\ wakeAt' = [wakeAt EXCEPT ![w] = up + kSleep]
        /\ up' = up
    BY <1>3 DEF Send, Pool!Begin, TypeOK, Worker
  <2>2. /\ t \in 1 .. MaxTasks /\ t = todo[w][1] /\ 1 \in 1 .. Len(todo[w])
        /\ \A i \in 1 .. Len(Tail(todo[w])) :
               /\ Tail(todo[w])[i] = todo[w][i + 1]
               /\ i + 1 \in 1 .. Len(todo[w])
    <3>1. Len(todo[w]) \in Nat \ {0}
      BY <2>1, EmptySeq
    <3>2. /\ Len(Tail(todo[w])) = Len(todo[w]) - 1
          /\ \A i \in 1 .. Len(Tail(todo[w])) : Tail(todo[w])[i] = todo[w][i + 1]
      BY <2>1, HeadTailProperties
    <3>3. 1 \in 1 .. Len(todo[w])
      BY <3>1
    <3>4. todo[w][1] \in 1 .. MaxTasks
      BY <2>1, <3>3, ElementOfSeq
    <3>5. t = todo[w][1]
      BY <2>1
    <3>6. \A i \in 1 .. Len(Tail(todo[w])) : i + 1 \in 1 .. Len(todo[w])
      BY <3>1, <3>2
    <3> QED BY <3>2, <3>3, <3>4, <3>5, <3>6
  <2>3. /\ sent' = Append(sent, [task |-> t, at |-> up])
        /\ t # NoTask /\ WorkerOf(t) = w
    BY <1>3, <2>1, <2>2, WorkerFacts DEF Send, TypeOK, Worker, SleepInv
  <2> HIDE DEF t
  <2>4. /\ Len(sent') = Len(sent) + 1
        /\ \A i \in 1 .. Len(sent) : sent'[i] = sent[i]
        /\ sent'[Len(sent) + 1].at = up
        /\ WorkerOf(sent'[Len(sent) + 1].task) = w
    BY <1>0, <2>3
  <2>5. /\ wakeAt[w] <= up
        /\ wakeAt'[w] = up + kSleep
        /\ \A v \in Worker \ {w} : wakeAt'[v] = wakeAt[v]
    BY <2>1 DEF SleepInv, TypeOK, Worker
  <2>6. ASSUME NEW v \in Worker
        PROVE  /\ \A i \in 1 .. Len(todo'[v]) : WorkerOf(todo'[v][i]) = v
               /\ running'[v] = NoTask => wakeAt'[v] <= up'
    <3>1. CASE v = w
      BY <2>1, <2>2, <2>3, <3>1 DEF SleepInv, TypeOK, Worker
    <3>2. CASE v # w
      BY <2>1, <3>2 DEF SleepInv, TypeOK, Worker
    <3> QED BY <3>1, <3>2
  <2>7. ASSUME NEW i \in 1 .. Len(sent')
        PROVE  /\ sent'[i].at <= up'
               /\ sent'[i].at + kSleep <= wakeAt'[WorkerOf(sent'[i].task)]
    <3>1. CASE i \in 1 .. Len(sent)
      <4>1. sent'[i] = sent[i] /\ WorkerOf(sent[i].task) \in Worker
        BY <1>0, <2>4, <3>1
      <4>2. wakeAt[WorkerOf(sent[i].task)] <= wakeAt'[WorkerOf(sent[i].task)]
        BY <1>0, <2>5, <4>1 DEF kSleep
      <4>3. /\ sent[i].at <= up
            /\ sent[i].at + kSleep <= wakeAt[WorkerOf(sent[i].task)]
        BY <3>1 DEF SleepInv
      <4>4. wakeAt'[WorkerOf(sent[i].task)] \in Nat
        BY <1>0, <2>5, <4>1, SMTT(30) DEF kSleep
      <4> QED BY <1>0, <2>1, <3>1, <4>1, <4>2, <4>3, <4>4 DEF kSleep
    <3>2. CASE i = Len(sent) + 1
      BY <1>0, <2>1, <2>4, <2>5, <3>2 DEF kSleep
    <3> QED BY <1>0, <2>4, <3>1, <3>2
  <2>8. SentInv'
    <3> SUFFICES ASSUME NEW i \in 1 .. Len(sent'), NEW j \in 1 .. Len(sent'), i < j
                 PROVE  /\ sent'[i].at <= sent'[j].at
                        /\ WorkerOf(sent'[i].task) = WorkerOf(sent'[j].task)
                               => sent'[i].at + kSleep <= sent'[j].at
      BY DEF SentInv
    <3>1. i \in 1 .. Len(sent) /\ sent'[i] = sent[i]
      BY <1>0, <2>4
    <3>2. CASE j \in 1 .. Len(sent)
      <4>1. sent'[j] = sent[j]
        BY <2>4, <3>2
      <4> QED BY <3>1, <3>2, <4>1 DEF SentInv
    <3>3. CASE j = Len(sent) + 1
      <4>1. /\ sent[i].at <= up
            /\ WorkerOf(sent[i].task) = w => sent[i].at + kSleep <= wakeAt[w]
        BY <3>1 DEF SleepInv
      <4>2. sent[i].at \in Nat /\ wakeAt[w] \in Nat
        BY <1>0, <3>1
      <4> QED BY <1>0, <2>4, <2>5, <3>1, <3>3, <4>1, <4>2, SMTT(30) DEF kSleep
    <3> QED BY <1>0, <2>4, <3>2, <3>3
  <2> QED BY <2>6, <2>7, <2>8 DEF SleepInv
<1>4. ASSUME NEW w \in Worker, Wake(w) PROVE (SleepInv /\ SentInv)'
  <2>1. /\ running' = [running EXCEPT ![w] = NoTask] /\ wakeAt[w] <= up
        /\ UNCHANGED <<todo, wakeAt, sent, up>>
    BY <1>0, <1>4 DEF Wake, Pool!Finish
  <2> QED BY <2>1 DEF SleepInv, SentInv, TypeOK, Worker
<1>5. ASSUME NEW w \in Worker, Die(w) PROVE (SleepInv /\ SentInv)'
  BY <1>1, <1>5 DEF Die, Pool!End
<1>6. CASE Second
  <2>1. up' = up + 1 /\ UNCHANGED <<todo, running, wakeAt, sent>>
    BY <1>6 DEF Second
  <2>2. /\ \A w \in Worker : wakeAt[w] <= up => wakeAt[w] <= up'
        /\ \A i \in 1 .. Len(sent) : sent[i].at <= up => sent[i].at <= up'
    BY <1>0, <2>1
  <2>3. SleepInv'
    BY <2>1, <2>2 DEF SleepInv
  <2>4. SentInv'
    BY <2>1 DEF SentInv
  <2> QED BY <2>3, <2>4
<1> QED
  BY <1>1, <1>2, <1>3, <1>4, <1>5, <1>6
     DEF Next, ConfigureTraffic, StartAutoForward, Broadcast, RefuseNews,
         HelperAsks, TurnClockBack, vars, Worker

\* The tasks sent within one sleep after the i-th are with different workers.
LEMMA RateHolds == TypeOK /\ SentInv => SendRate
<1> SUFFICES ASSUME TypeOK, SentInv, NEW i \in 1 .. Len(sent)
             PROVE  Cardinality({ j \in i .. Len(sent) :
                                      sent[j].at < sent[i].at + kSleep }) <= Num
  BY DEF SendRate
<1> DEFINE S == { j \in i .. Len(sent) : sent[j].at < sent[i].at + kSleep }
           f == [j \in S |-> WorkerOf(sent[j].task)]
<1>1. /\ Len(sent) \in Nat
      /\ \A j \in 1 .. Len(sent) : /\ sent[j].at \in Nat
                                 /\ WorkerOf(sent[j].task) \in Worker
  BY SentTypes
<1>2. ASSUME NEW j \in S, NEW k \in S, j < k PROVE f[j] # f[k]
  <2>1. sent[i].at <= sent[j].at
    BY <1>1 DEF SentInv
  <2>2. sent[k].at < sent[j].at + kSleep
    BY <1>1, <2>1, SMTT(30) DEF kSleep
  <2> QED BY <1>1, <1>2, <2>2 DEF SentInv, kSleep
<1>3. f \in [S -> Worker]
  BY <1>1
<1>4. f \in Injection(S, Worker)
  <2>1. \A j, k \in S : f[j] = f[k] => j = k
    <3> SUFFICES ASSUME NEW j \in S, NEW k \in S, f[j] = f[k] PROVE j = k
      OBVIOUS
    <3>1. j \in Int /\ k \in Int
      BY <1>1
    <3>2. ~(j < k) /\ ~(k < j)
      BY <1>2
    <3> QED BY <3>1, <3>2
  <2> HIDE DEF f, S
  <2> QED BY <1>3, <2>1 DEF Injection, IsInjective
<1>5. IsFiniteSet(Worker) /\ Cardinality(Worker) = Num
  BY FS_Interval, WorkerFacts, PoolAssumption
<1> HIDE DEF f, S
<1>6. Cardinality(S) <= Cardinality(Worker)
  BY <1>4, <1>5, FS_Injection
<1> QED BY <1>5, <1>6 DEF S

-----------------------------------------------------------------------------
(* The tasks of each news. *)

\* What the loop has yet to serve are the last targets.
SuffixInv ==
    /\ \A t \in 1 .. task_id_ : parcel[t].of \in 1 .. Len(news)
    /\ Len(loop) <= Len(config.vecToGroup)
    /\ \A i \in 1 .. Len(loop) :
           loop[i] = config.vecToGroup[Len(config.vecToGroup) - Len(loop) + i]

\* Every news has a task for each target, in their order.
AllHanded ==
    \A k \in 1 .. Len(news) :
        HandedOf(k, task_id_) + (IF k = Len(news) THEN Len(loop) ELSE 0)
            = Len(config.vecToGroup)
InTargetOrder ==
    \A t \in 1 .. task_id_ :
        parcel[t].to = config.vecToGroup[HandedOf(parcel[t].of, t)]

\* A task waits once, and until it is sent.
TaskInv ==
    /\ \A w \in Worker :
           /\ \A i \in 1 .. Len(todo[w]) : todo[w][i] <= task_id_
           /\ \A i, j \in 1 .. Len(todo[w]) : todo[w][i] = todo[w][j] => i = j
    /\ \A i \in 1 .. Len(sent) : sent[i].task <= task_id_
SentOnce ==
    /\ \A i, j \in 1 .. Len(sent) : i # j => sent[i].task # sent[j].task
    /\ \A i \in 1 .. Len(sent), w \in Worker : ~Contains(todo[w], sent[i].task)

TargetPart == SuffixInv /\ AllHanded /\ InTargetOrder
TaskPart == TaskInv /\ SentOnce

LEMMA TargetsOnce == TargetPart /\ TaskPart => EveryTargetOnce
  BY DEF TargetPart, TaskPart, AllHanded, InTargetOrder, SentOnce,
         EveryTargetOnce, Worker

\* The tasks for news k among the first t, the parcels being p.
For(p, k, t) == { s \in 1 .. t : p[s].of = k }

LEMMA ForTypes ==
    ASSUME NEW p, NEW k, NEW t \in Nat
    PROVE  IsFiniteSet(For(p, k, t)) /\ Cardinality(For(p, k, t)) \in Nat
<1>1. IsFiniteSet(1 .. t)
  BY FS_Interval
<1>2. For(p, k, t) \in SUBSET (1 .. t)
  BY DEF For
<1> QED BY <1>1, <1>2, FS_Subset, FS_CardinalityType

LEMMA HandedType ==
    ASSUME NEW k, NEW t \in Nat
    PROVE  HandedOf(k, t) = Cardinality(For(parcel, k, t)) /\ HandedOf(k, t) \in Nat
<1>1. HandedOf(k, t) = Cardinality(For(parcel, k, t))
  BY DEF HandedOf, For
<1> QED BY <1>1, ForTypes

\* A task counts for its own news and for no other.
LEMMA ForNext ==
    ASSUME NEW p, NEW k, NEW t \in Nat
    PROVE  Cardinality(For(p, k, t + 1)) =
               Cardinality(For(p, k, t)) + (IF p[t + 1].of = k THEN 1 ELSE 0)
<1>1. For(p, k, t + 1) =
          IF p[t + 1].of = k THEN For(p, k, t) \cup {t + 1} ELSE For(p, k, t)
  <2>1. 1 .. t + 1 = (1 .. t) \cup {t + 1}
    OBVIOUS
  <2> QED BY <2>1 DEF For
<1>2. t + 1 \notin For(p, k, t)
  BY DEF For
<1>3. IsFiniteSet(For(p, k, t)) /\ Cardinality(For(p, k, t)) \in Nat
  BY ForTypes
<1>4. Cardinality(For(p, k, t) \cup {t + 1}) = Cardinality(For(p, k, t)) + 1
  BY <1>2, <1>3, FS_AddElement
<1> QED BY <1>1, <1>3, <1>4

LEMMA LoopTypes ==
    ASSUME TypeOK
    PROVE  /\ config.vecToGroup \in Seq(Group) /\ loop \in Seq(Group)
           /\ Len(config.vecToGroup) \in Nat /\ Len(loop) \in Nat
           /\ task_id_ \in Nat /\ Len(news) \in Nat
<1>1. config.vecToGroup \in Seq(Group)
  <2>1. NoConfig.vecToGroup = <<>>
    BY DEF NoConfig
  <2> QED BY <2>1, EmptySeq, ConfigForwardAssumption DEF TypeOK
<1> QED BY <1>1, LenProperties, PoolAssumption DEF TypeOK

LEMMA TargetInit == Init => TargetPart /\ TaskPart
<1> SUFFICES ASSUME Init PROVE TargetPart /\ TaskPart
  OBVIOUS
<1>1. /\ task_id_ = 0 /\ loop = <<>> /\ news = <<>> /\ sent = <<>>
      /\ \A w \in Worker : todo[w] = <<>>
      /\ Len(config.vecToGroup) = 0
  BY DEF Init, Pool!Init, Worker, NoConfig
<1>2. Len(<<>>) = 0 /\ 1 .. 0 = {}
  OBVIOUS
<1> QED
  BY <1>1, <1>2 DEF TargetPart, SuffixInv, AllHanded, InTargetOrder, TaskPart,
                    TaskInv, SentOnce

LEMMA TargetStep ==
    TypeOK /\ StartPart /\ TargetPart /\ [Next]_vars => TargetPart'
<1> SUFFICES ASSUME TypeOK, StartPart, SuffixInv, AllHanded, InTargetOrder, [Next]_vars
             PROVE  (SuffixInv /\ AllHanded /\ InTargetOrder)'
  BY DEF TargetPart
<1> USE DEF forwardVars, poolVars, startVars, workerVars
<1> DEFINE L == Len(config.vecToGroup)
<1>0. /\ config.vecToGroup \in Seq(Group) /\ loop \in Seq(Group)
      /\ L \in Nat /\ Len(loop) \in Nat /\ task_id_ \in Nat /\ Len(news) \in Nat
  BY LoopTypes
<1>1. ASSUME UNCHANGED <<config, forwardVars>>
      PROVE  (SuffixInv /\ AllHanded /\ InTargetOrder)'
  BY <1>1 DEF SuffixInv, AllHanded, InTargetOrder, HandedOf
<1>2. ASSUME NEW c \in ConfigForward, StartAutoForward(c)
      PROVE  (SuffixInv /\ AllHanded /\ InTargetOrder)'
  <2>1. /\ task_id_' = 0 /\ loop' = <<>> /\ news' = <<>> /\ config' = c
    BY <1>2 DEF StartAutoForward, StartPart, StartInv
  <2>2. Len(c.vecToGroup) \in Nat
    BY ConfigForwardAssumption, LenProperties
  <2>3. Len(<<>>) = 0 /\ 1 .. 0 = {}
    OBVIOUS
  <2> QED BY <2>1, <2>2, <2>3 DEF SuffixInv, AllHanded, InTargetOrder
<1>3. ASSUME NEW from \in Group, NEW kind \in Kind, Broadcast(from, kind)
      PROVE  (SuffixInv /\ AllHanded /\ InTargetOrder)'
  <2>1. /\ loop = <<>> /\ loop' = config.vecToGroup
        /\ news' = Append(news, up) /\ Len(news') = Len(news) + 1
        /\ UNCHANGED <<config, task_id_, parcel>>
    <3>1. news \in Seq(Nat) /\ up \in Nat
      BY DEF TypeOK
    <3> QED BY <1>3, <3>1 DEF Broadcast, Idle
  <2>2. SuffixInv'
    BY <1>0, <2>1 DEF SuffixInv
  <2>3. HandedOf(Len(news) + 1, task_id_) = 0
    <3>1. { s \in 1 .. task_id_ : parcel[s].of = Len(news) + 1 } = {}
      BY <1>0 DEF SuffixInv
    <3> QED BY <3>1, FS_EmptySet DEF HandedOf
  <2>4. ASSUME NEW k \in 1 .. Len(news) PROVE HandedOf(k, task_id_) = L
    <3>1. Len(loop) = 0 /\ HandedOf(k, task_id_) \in Nat
      BY <1>0, <2>1, HandedType
    <3>2. HandedOf(k, task_id_) + (IF k = Len(news) THEN Len(loop) ELSE 0) = L
      BY DEF AllHanded
    <3> QED BY <3>1, <3>2
  <2>5. AllHanded'
    <3>1. \A k : HandedOf(k, task_id_)' = HandedOf(k, task_id_)
      BY <2>1 DEF HandedOf
    <3> HIDE DEF L
    <3>2. ASSUME NEW k \in 1 .. Len(news)'
          PROVE  HandedOf(k, task_id_) + (IF k = Len(news) + 1 THEN L ELSE 0) = L
      <4>1. k \in 1 .. Len(news) \/ k = Len(news) + 1
        BY <1>0, <2>1, <3>2
      <4> QED BY <1>0, <2>3, <2>4, <4>1
    <3> QED BY <2>1, <3>1, <3>2 DEF AllHanded, L
  <2>6. InTargetOrder'
    BY <2>1 DEF InTargetOrder, HandedOf
  <2> QED BY <2>2, <2>5, <2>6
<1>4. CASE AddTask
  <2> DEFINE n == task_id_ + 1
             k0 == Len(news)
  <2>1. /\ loop # <<>> /\ loop' = Tail(loop) /\ task_id_' = n
        /\ Len(parcel) = task_id_ /\ k0 \in 1 .. Len(news)
        /\ UNCHANGED <<config, news>>
    BY <1>0, <1>4 DEF AddTask, TypeOK, StartPart, LoopInv
  <2>2. /\ parcel'[n] = [of |-> k0, to |-> Head(loop)]
        /\ \A t \in 1 .. task_id_ : parcel'[t] = parcel[t]
    <3> DEFINE p == [of |-> Len(news), to |-> Head(loop)]
    <3>1. parcel' = Append(parcel, p) /\ parcel \in Seq([of : 1 .. MaxNews, to : Group])
      BY <1>4 DEF AddTask, TypeOK
    <3> HIDE DEF p
    <3>2. parcel'[n] = p /\ \A t \in 1 .. task_id_ : parcel'[t] = parcel[t]
      BY <2>1, <3>1
    <3> QED BY <3>2 DEF p
  <2>3. parcel'[n].of = k0 /\ parcel'[n].to = Head(loop)
    BY <2>2
  <2>4. /\ Len(Tail(loop)) = Len(loop) - 1 /\ Len(loop) \in Nat \ {0}
        /\ Head(loop) = loop[1]
        /\ \A i \in 1 .. Len(loop) - 1 : Tail(loop)[i] = loop[i + 1]
    BY <1>0, <2>1
  <2>a. /\ task_id_ \in Nat /\ Len(news) \in Nat /\ L \in Nat
        /\ n = task_id_ + 1 /\ k0 \in Nat
        /\ \A t \in 1 .. n : t \in 1 .. task_id_ \/ t = n
        /\ \A t \in 1 .. task_id_ : t # n
    BY <1>0
  <2> HIDE DEF L, n, k0
  <2>5. SuffixInv'
    <3>1. ASSUME NEW t \in 1 .. n PROVE parcel'[t].of \in 1 .. Len(news)
      <4>1. CASE t \in 1 .. task_id_
        BY <2>2, <4>1 DEF SuffixInv
      <4>2. CASE t = n
        BY <2>1, <2>3, <4>2
      <4> QED BY <2>a, <4>1, <4>2
    <3>2. ASSUME NEW i \in 1 .. Len(Tail(loop))
          PROVE  Tail(loop)[i] = config.vecToGroup[L - Len(Tail(loop)) + i]
      <4>1. i + 1 \in 1 .. Len(loop) /\ Tail(loop)[i] = loop[i + 1]
        BY <2>4
      <4>2. L - Len(loop) + (i + 1) = L - Len(Tail(loop)) + i
        BY <2>4, <2>a
      <4>3. loop[i + 1] = config.vecToGroup[L - Len(loop) + (i + 1)]
        BY <4>1 DEF SuffixInv, L
      <4> QED BY <4>1, <4>2, <4>3
    <3>3. Len(Tail(loop)) <= L
      BY <2>4, <2>a DEF SuffixInv, L
    <3> QED BY <2>1, <3>1, <3>2, <3>3 DEF SuffixInv, L
  <2>6. ASSUME NEW k, NEW t \in 0 .. task_id_ PROVE For(parcel', k, t) = For(parcel, k, t)
    <3>1. 1 .. t \subseteq 1 .. task_id_
      BY <2>a
    <3> QED BY <2>2, <3>1 DEF For
  <2>8. ASSUME NEW k
        PROVE  Cardinality(For(parcel', k, n)) =
                   HandedOf(k, task_id_) + (IF k = k0 THEN 1 ELSE 0)
    <3>1. For(parcel', k, task_id_) = For(parcel, k, task_id_)
      BY <2>6, <2>a
    <3>2. Cardinality(For(parcel', k, task_id_)) = HandedOf(k, task_id_)
      BY <3>1, <2>a, HandedType
    <3>3. Cardinality(For(parcel', k, task_id_ + 1)) =
              Cardinality(For(parcel', k, task_id_))
                  + (IF parcel'[task_id_ + 1].of = k THEN 1 ELSE 0)
      BY <2>a, ForNext
    <3> QED BY <2>3, <2>a, <3>2, <3>3
  <2>7. \A k : HandedOf(k, task_id_)' = Cardinality(For(parcel', k, n))
    BY <2>1 DEF HandedOf, For
  <2>9. AllHanded'
    <3>1. ASSUME NEW k \in 1 .. Len(news)
          PROVE  Cardinality(For(parcel', k, n))
                     + (IF k = k0 THEN Len(loop) - 1 ELSE 0) = L
      <4>1. HandedOf(k, task_id_) + (IF k = k0 THEN Len(loop) ELSE 0) = L
        BY DEF AllHanded, L, k0
      <4>2. HandedOf(k, task_id_) \in Nat
        BY <2>a, HandedType
      <4> QED BY <2>4, <2>8, <2>a, <4>1, <4>2
    <3> QED BY <2>1, <2>4, <2>7, <3>1 DEF AllHanded, L, k0
  <2>10. HandedOf(k0, task_id_) + 1 = L - Len(loop) + 1
    <3>1. HandedOf(k0, task_id_) + Len(loop) = L
      BY <2>1 DEF AllHanded, L, k0
    <3>2. HandedOf(k0, task_id_) \in Nat
      BY <2>a, HandedType
    <3> QED BY <2>4, <2>a, <3>1, <3>2
  <2>11. InTargetOrder'
    <3>1. ASSUME NEW t \in 1 .. n
          PROVE  parcel'[t].to =
                     config.vecToGroup[Cardinality(For(parcel', parcel'[t].of, t))]
      <4>1. CASE t \in 1 .. task_id_
        <5>1. For(parcel', parcel'[t].of, t) = For(parcel, parcel[t].of, t)
          BY <2>2, <2>6, <2>a, <4>1
        <5>2. HandedOf(parcel[t].of, t) = Cardinality(For(parcel, parcel[t].of, t))
          BY <2>a, <4>1, HandedType
        <5> QED BY <2>2, <4>1, <5>1, <5>2 DEF InTargetOrder
      <4>2. CASE t = n
        <5>1. parcel'[t].to = config.vecToGroup[L - Len(loop) + 1]
          BY <2>3, <2>4, <4>2 DEF SuffixInv, L
        <5>2. Cardinality(For(parcel', parcel'[t].of, t)) =
                  HandedOf(k0, task_id_) + 1
          BY <2>3, <2>8, <4>2
        <5> QED BY <2>10, <5>1, <5>2
      <4> QED BY <2>a, <3>1, <4>1, <4>2
    <3> QED BY <2>1, <3>1 DEF InTargetOrder, HandedOf, For
  <2> QED BY <2>5, <2>9, <2>11
<1>5. ASSUME NEW w \in Worker, Send(w) \/ Wake(w) \/ Die(w)
      PROVE  (SuffixInv /\ AllHanded /\ InTargetOrder)'
  BY <1>1, <1>5 DEF Send, Wake, Die
<1> QED
  BY <1>1, <1>2, <1>3, <1>4, <1>5
     DEF Next, ConfigureTraffic, RefuseNews, HelperAsks, Second, TurnClockBack,
         vars, Worker

LEMMA TaskStep ==
    TypeOK /\ StartPart /\ SendPart /\ TaskPart /\ [Next]_vars => TaskPart'
<1> SUFFICES ASSUME TypeOK, StartPart, SleepInv, TaskInv, SentOnce, [Next]_vars
             PROVE  (TaskInv /\ SentOnce)'
  BY DEF TaskPart, SendPart
<1> USE DEF forwardVars, poolVars, startVars, workerVars
<1>0. /\ task_id_ \in Nat /\ Len(sent) \in Nat
      /\ \A w \in Worker : todo[w] \in Seq(1 .. MaxTasks)
      /\ \A i \in 1 .. Len(sent) : /\ sent[i].task <= task_id_
                                 /\ WorkerOf(sent[i].task) \in Worker
  BY LoopTypes, SentTypes DEF TypeOK, Worker, TaskInv
<1>1. ASSUME UNCHANGED <<todo, sent, task_id_>>
      PROVE  (TaskInv /\ SentOnce)'
  BY <1>1 DEF TaskInv, SentOnce
<1>2. CASE AddTask
  <2> DEFINE t == task_id_ + 1
             v == WorkerOf(t)
  <2>1. t \in 1 .. MaxTasks
    <3>1. loop \in Seq(Group) /\ loop # <<>>
      BY <1>2 DEF AddTask, TypeOK
    <3>2. Len(loop) \in Nat \ {0}
      BY <3>1, EmptySeq
    <3> QED BY <3>2, PoolAssumption DEF StartPart, LoopInv, TypeOK
  <2>2. /\ v \in Worker /\ todo'[v] = Append(todo[v], t)
        /\ \A w \in Worker \ {v} : todo'[w] = todo[w]
        /\ task_id_' = t /\ UNCHANGED sent
    BY <1>2, <2>1, WorkerFacts DEF AddTask, Pool!Add, WorkerOf, TypeOK, Worker
  <2>3. /\ Len(todo'[v]) = Len(todo[v]) + 1 /\ Len(todo[v]) \in Nat
        /\ todo'[v][Len(todo[v]) + 1] = t
        /\ \A i \in 1 .. Len(todo[v]) :
               /\ todo'[v][i] = todo[v][i]
               /\ todo[v][i] \in 1 .. MaxTasks
    <3>1. todo[v] \in Seq(1 .. MaxTasks)
      BY <1>0, <2>2
    <3>2. Len(todo[v]) \in Nat /\ \A i \in 1 .. Len(todo[v]) : todo[v][i] \in 1 .. MaxTasks
      BY <3>1, LenProperties, ElementOfSeq
    <3>3. todo'[v] = Append(todo[v], t)
      BY <2>2
    <3> HIDE DEF t, v
    <3>4. /\ Len(todo'[v]) = Len(todo[v]) + 1
          /\ todo'[v][Len(todo[v]) + 1] = t
          /\ \A i \in 1 .. Len(todo[v]) : todo'[v][i] = todo[v][i]
      BY <2>1, <3>1, <3>3, AppendProperties
    <3> QED BY <3>2, <3>4
  <2>4. \A i \in 1 .. Len(todo'[v]) : i \in 1 .. Len(todo[v]) \/ i = Len(todo[v]) + 1
    BY <2>3
  <2>5. /\ \A i \in 1 .. Len(todo[v]) : todo[v][i] <= task_id_
        /\ \A i, j \in 1 .. Len(todo[v]) : todo[v][i] = todo[v][j] => i = j
    BY <2>2 DEF TaskInv
  <2>6. t = task_id_ + 1
    OBVIOUS
  <2> HIDE DEF t, v
  <2>7. \A i \in 1 .. Len(todo[v]) : todo[v][i] # t
    BY <1>0, <2>3, <2>5, <2>6
  <2>8. ASSUME NEW w \in Worker
        PROVE  /\ \A i \in 1 .. Len(todo'[w]) : todo'[w][i] <= t
               /\ \A i, j \in 1 .. Len(todo'[w]) : todo'[w][i] = todo'[w][j] => i = j
    <3>1. CASE w = v
      <4>1. ASSUME NEW i \in 1 .. Len(todo'[v]) PROVE todo'[v][i] <= t
        <5>1. CASE i \in 1 .. Len(todo[v])
          <6>1. /\ todo'[v][i] = todo[v][i] /\ todo[v][i] \in 1 .. MaxTasks
                /\ todo[v][i] <= task_id_
            BY <2>3, <2>5, <5>1
          <6> QED BY <1>0, <2>6, <6>1
        <5>2. CASE i = Len(todo[v]) + 1
          BY <2>1, <2>3, <5>2
        <5> QED BY <2>4, <4>1, <5>1, <5>2
      <4>2. \A i, j \in 1 .. Len(todo'[v]) : todo'[v][i] = todo'[v][j] => i = j
        BY <2>3, <2>4, <2>5, <2>7
      <4> QED BY <3>1, <4>1, <4>2
    <3>2. CASE w # v
      <4>1. /\ todo'[w] = todo[w]
            /\ \A i \in 1 .. Len(todo[w]) : todo[w][i] \in 1 .. MaxTasks
        BY <1>0, <2>2, <3>2, ElementOfSeq
      <4>2. \A i \in 1 .. Len(todo[w]) : todo[w][i] <= task_id_
        BY DEF TaskInv
      <4>3. \A i \in 1 .. Len(todo[w]) : todo[w][i] <= t
        BY <1>0, <2>6, <4>1, <4>2
      <4> QED BY <4>1, <4>3 DEF TaskInv
    <3> QED BY <3>1, <3>2
  <2>9. \A i \in 1 .. Len(sent) : sent[i].task <= t /\ sent[i].task # t
    <3>1. ASSUME NEW i \in 1 .. Len(sent)
          PROVE  sent[i].task <= t /\ sent[i].task # t
      <4>1. sent[i].task \in Nat
        <5> DEFINE R == [task : 1 .. MaxTasks, at : Nat]
        <5>1. \A r \in R : r.task \in Nat
          OBVIOUS
        <5>2. sent \in Seq(R)
          BY DEF TypeOK
        <5> HIDE DEF R
        <5> QED BY <3>1, <5>1, <5>2, ElementOfSeq
      <4> QED BY <1>0, <2>6, <4>1
    <3> QED BY <3>1
  <2>10. ASSUME NEW i \in 1 .. Len(sent), NEW w \in Worker
         PROVE  ~Contains(todo'[w], sent[i].task)
    <3>1. CASE w = v
      <4>1. ~Contains(todo[v], sent[i].task) /\ sent[i].task # t
        BY <2>2, <2>9, <2>10 DEF SentOnce
      <4> QED BY <2>3, <2>4, <3>1, <4>1 DEF Contains
    <3>2. CASE w # v
      BY <2>2, <3>2 DEF SentOnce
    <3> QED BY <3>1, <3>2
  <2> QED BY <2>2, <2>8, <2>9, <2>10 DEF TaskInv, SentOnce
<1>3. ASSUME NEW v \in Worker, Send(v) PROVE (TaskInv /\ SentOnce)'
  <2> DEFINE t == Head(todo[v])
  <2>1. /\ todo[v] \in Seq(1 .. MaxTasks) /\ todo[v] # <<>>
        /\ todo'[v] = Tail(todo[v])
        /\ \A w \in Worker \ {v} : todo'[w] = todo[w]
        /\ sent' = Append(sent, [task |-> t, at |-> up])
        /\ task_id_' = task_id_
    BY <1>3 DEF Send, Pool!Begin, TypeOK, Worker
  <2>2. /\ t = todo[v][1] /\ 1 \in 1 .. Len(todo[v])
        /\ \A i \in 1 .. Len(Tail(todo[v])) :
               /\ Tail(todo[v])[i] = todo[v][i + 1]
               /\ i + 1 \in 1 .. Len(todo[v]) /\ i + 1 # 1 /\ i \in Nat
    BY <2>1
  <2> HIDE DEF t
  <2>3. /\ Len(sent') = Len(sent) + 1 /\ Len(sent) \in Nat
        /\ \A i \in 1 .. Len(sent) : sent'[i] = sent[i]
        /\ sent'[Len(sent) + 1].task = t
    BY <1>0, <2>1
  <2>4. \A i \in 1 .. Len(sent') : i \in 1 .. Len(sent) \/ i = Len(sent) + 1
    BY <2>3
  <2>5. \A i \in 1 .. Len(sent) : sent[i].task # t
    BY <2>2 DEF SentOnce, Contains
  <2>6. t <= task_id_
    BY <2>2 DEF TaskInv
  <2>7. ~Contains(Tail(todo[v]), t)
    BY <2>2 DEF TaskInv, Contains
  <2>8. ASSUME NEW w \in Worker
        PROVE  /\ \A a : Contains(todo'[w], a) => Contains(todo[w], a)
               /\ ~Contains(todo'[w], t)
               /\ \A i \in 1 .. Len(todo'[w]) : todo'[w][i] <= task_id_
               /\ \A i, j \in 1 .. Len(todo'[w]) : todo'[w][i] = todo'[w][j] => i = j
    <3>1. CASE w = v
      <4>1. \A a : Contains(todo'[v], a) => Contains(todo[v], a)
        BY <2>1, <2>2 DEF Contains
      <4>2. \A i \in 1 .. Len(todo'[v]) : todo'[v][i] <= task_id_
        BY <2>1, <2>2 DEF TaskInv
      <4>3. ASSUME NEW i \in 1 .. Len(todo'[v]), NEW j \in 1 .. Len(todo'[v]),
                   todo'[v][i] = todo'[v][j]
            PROVE  i = j
        <5>1. i + 1 = j + 1
          BY <2>1, <2>2, <4>3 DEF TaskInv
        <5> QED BY <5>1
      <4> QED BY <2>1, <2>7, <3>1, <4>1, <4>2, <4>3
    <3>2. CASE w # v
      <4>1. WorkerOf(t) = v
        BY <2>2 DEF SleepInv
      <4>2. ~Contains(todo[w], t)
        BY <3>2, <4>1 DEF SleepInv, Contains
      <4> QED BY <2>1, <3>2, <4>2 DEF TaskInv
    <3> QED BY <3>1, <3>2
  <2>9. TaskInv'
    BY <1>0, <2>1, <2>3, <2>4, <2>6, <2>8 DEF TaskInv
  <2>10. ASSUME NEW i \in 1 .. Len(sent'), NEW j \in 1 .. Len(sent'), i # j
         PROVE  sent'[i].task # sent'[j].task
    BY <2>3, <2>4, <2>5, <2>10 DEF SentOnce
  <2>11. ASSUME NEW i \in 1 .. Len(sent'), NEW w \in Worker
         PROVE  ~Contains(todo'[w], sent'[i].task)
    BY <2>3, <2>4, <2>8, <2>11 DEF SentOnce
  <2> QED BY <2>9, <2>10, <2>11 DEF SentOnce
<1>4. ASSUME NEW w \in Worker, Wake(w) \/ Die(w) PROVE (TaskInv /\ SentOnce)'
  BY <1>1, <1>4 DEF Wake, Die, Pool!Finish, Pool!End
<1>5. ASSUME NEW c \in ConfigForward, StartAutoForward(c)
      PROVE  (TaskInv /\ SentOnce)'
  BY <1>1, <1>5 DEF StartAutoForward
<1>6. ASSUME NEW from \in Group, NEW kind \in Kind, Broadcast(from, kind)
      PROVE  (TaskInv /\ SentOnce)'
  BY <1>1, <1>6 DEF Broadcast
<1> QED
  BY <1>1, <1>2, <1>3, <1>4, <1>5, <1>6
     DEF Next, ConfigureTraffic, RefuseNews, HelperAsks, Second, TurnClockBack,
         vars, Worker

-----------------------------------------------------------------------------
(* Theorems. *)

ForwardInv ==
    TypeOK /\ StartPart /\ ClockPart /\ SendPart /\ TargetPart /\ TaskPart

LEMMA ForwardInvariance == Spec => []ForwardInv
<1>1. Init => ForwardInv
  BY ForwardTypeInit, StartInit, ClockInit, SendInit, TargetInit DEF ForwardInv
<1>2. ForwardInv /\ [Next]_vars => ForwardInv'
  BY ForwardTypeStep, StartStep, ClockStep, SendStep, TargetStep, TaskStep
     DEF ForwardInv, StartPart
<1> QED BY <1>1, <1>2, PTL DEF Spec

\* Limit, handler, loop and workers keep their types.
THEOREM ForwardTypeCorrect == Spec => []TypeOK
<1>1. ForwardInv => TypeOK
  BY DEF ForwardInv
<1> QED BY <1>1, ForwardInvariance, PTL

\* No task is added to thread_pool_ while it is null.
THEOREM PoolExists == Spec => []NullPoolNeverUsed
<1>1. ForwardInv => NullPoolNeverUsed
  BY DEF ForwardInv, StartPart
<1> QED BY <1>1, ForwardInvariance, PTL

\* Two news are forward_interval_ seconds apart unless the clock was set back.
THEOREM NewsApart == Spec => []NewsSpacing
<1>1. ForwardInv => NewsSpacing
  BY DEF ForwardInv, ClockPart
<1> QED BY <1>1, ForwardInvariance, PTL

\* However many news and targets there are, and whichever workers have ended,
\* the pool sends at most Num messages in any two seconds.
THEOREM RateKept == Spec => []SendRate
<1>1. ForwardInv => SendRate
  BY RateHolds DEF ForwardInv, SendPart
<1> QED BY <1>1, ForwardInvariance, PTL

\* Every news goes to each target once and in the order of the list, whichever
\* tasks the workers have sent in the meantime, and no task is sent twice.
THEOREM TargetsServedOnce == Spec => []EveryTargetOnce
<1>1. ForwardInv => EveryTargetOnce
  BY TargetsOnce DEF ForwardInv
<1> QED BY <1>1, ForwardInvariance, PTL
=============================================================================
