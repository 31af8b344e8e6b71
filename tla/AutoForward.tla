----------------------------- MODULE AutoForward -----------------------------
(***************************************************************************)
(* CMsgAutoForward: news posted in one of the listened groups is sent to   *)
(* every target group, one news per forward_interval_ seconds, by a pool   *)
(* of workers each of which sleeps two seconds after a message.            *)
(*                                                                         *)
(* The handler runs on the consumer thread of CMsgReceive.  It shares the  *)
(* traffic limit (module TrafficControl) with the question handler, which  *)
(* runs on the same thread, and hands its tasks to a CThreadPool (module   *)
(* TaskPool, which ThreadPool implements): while it adds the tasks of one  *)
(* news, workers already send the first of them.                           *)
(*                                                                         *)
(* A task is its id: ++task_id_ gives each task a new one.  The spacing of *)
(* the news is measured on the wall clock, the sleep on the steady clock.  *)
(***************************************************************************)
EXTENDS TrafficControl, SequencesExt

CONSTANTS Group,         \* chat groups
          ConfigForward, \* the TRANSFER sections of the configuration file
          Num,           \* the argument of thread_pool_->init
          MaxNews,       \* bound: how many news are broadcast
          MaxTasks,      \* bound: their tasks
          NoTask         \* a worker is running nothing

ASSUME PoolAssumption ==
    /\ Num \in Nat \ {0}
    /\ MaxTasks \in Nat /\ MaxNews \in Nat
    /\ NoTask \notin Nat
    /\ {"forward", "helper"} \subseteq Caller
\* ConfigParser reads the sections: two sets of groups, the second in order.
ASSUME ConfigForwardAssumption ==
    \A c \in ConfigForward :
        /\ c.transferFlag \in BOOLEAN /\ c.imageFlag \in BOOLEAN
        /\ c.transferInterval \in Int
        /\ c.vecFromGroup \subseteq Group /\ c.vecToGroup \in Seq(Group)

kSleep == 2   \* the sleep after each message, in seconds
NoConfig == [transferFlag |-> FALSE, imageFlag |-> FALSE,
             transferInterval |-> 0, vecFromGroup |-> {}, vecToGroup |-> <<>>]

VARIABLES
    up,            \* the steady clock
    config,        \* the configuration that StartAutoForward found
    is_init_,
    registered,    \* onReceiveMsg is registered
    hasPool,       \* thread_pool_ is not null
    last_send_time_,
    task_id_,
    loop,          \* the targets that onBoradcastAsync has yet to serve
    todo, running, ended, \* the pool, as in TaskPool
    wakeAt,        \* when each worker's sleep ends
    parcel,        \* what each task carries: the news, and the group it is for
    news,          \* history: when each news was broadcast, in steady time
    sent           \* history: the tasks sent, with the steady time

poolVars == <<todo, running, ended>>
forwardVars == <<last_send_time_, task_id_, loop, parcel, news>>
startVars == <<config, is_init_, registered, hasPool>>
workerVars == <<wakeAt, sent>>
vars == <<trafficVars, up, startVars, forwardVars, poolVars, workerVars>>

Pool == INSTANCE TaskPool WITH
    Task <- 1 .. MaxTasks, TaskId <- [t \in 1 .. MaxTasks |-> t]

TypeOK ==
    /\ TrafficTypeOK
    /\ up \in Nat
    /\ config \in ConfigForward \cup {NoConfig}
    /\ {is_init_, registered, hasPool} \subseteq BOOLEAN
    /\ last_send_time_ \in Int
    /\ task_id_ \in 0 .. MaxTasks
    /\ loop \in Seq(Group)
    /\ todo \in [Pool!Worker -> Seq(1 .. MaxTasks)]
    /\ running \in [Pool!Worker -> 1 .. MaxTasks \cup {NoTask}]
    /\ ended \in SUBSET Pool!Worker
    /\ wakeAt \in [Pool!Worker -> Nat]
    /\ parcel \in Seq([of : 1 .. MaxNews, to : Group])
    /\ Len(parcel) = task_id_
    /\ news \in Seq(Nat)
    /\ sent \in Seq([task : 1 .. MaxTasks, at : Nat])

Init ==
    /\ TrafficInit
    /\ up = 0
    /\ config = NoConfig
    /\ is_init_ = FALSE
    /\ registered = FALSE
    /\ hasPool = FALSE
    /\ last_send_time_ = 0
    /\ task_id_ = 0
    /\ loop = <<>>
    /\ Pool!Init
    /\ wakeAt = [w \in Pool!Worker |-> 0]
    /\ parcel = <<>>
    /\ news = <<>>
    /\ sent = <<>>

-----------------------------------------------------------------------------
(* InitInstance. *)

ConfigureTraffic(i, l) ==
    /\ SetLimit(i, l)
    /\ UNCHANGED <<up, startVars, forwardVars, poolVars, workerVars>>

\* The handler is registered before the lists are looked at.
NothingToDo(c) == c.vecFromGroup = {} \/ c.vecToGroup = <<>>

\* A single target is taken for none.
StartForOneTarget(c) ==
    /\ configured
    /\ ~is_init_
    /\ is_init_' = TRUE
    /\ config' = c
    /\ registered' = c.transferFlag
    /\ hasPool' = (c.transferFlag /\ ~NothingToDo(c) /\ Len(c.vecToGroup) > 1)
    /\ UNCHANGED <<trafficVars, up, forwardVars, poolVars, workerVars>>

StartAutoForward(c) ==
    /\ configured
    /\ ~is_init_
    /\ is_init_' = TRUE
    /\ config' = c
    /\ registered' = c.transferFlag
    /\ hasPool' = (c.transferFlag /\ ~NothingToDo(c))
    /\ UNCHANGED <<trafficVars, up, forwardVars, poolVars, workerVars>>

-----------------------------------------------------------------------------
(* The consumer thread: one handler at a time. *)

\* The handlers are idle: onBoradcastAsync is not in the middle of its loop.
Idle == is_init_ /\ loop = <<>>

\* onForwardText and onForwardImage let these through from a listened group;
\* all the others are dropped, or answered that they are too long.
Forwarded(kind) ==
    \/ kind = "news"
    \/ kind = "image" /\ config.imageFlag

TooSoon == AbsDiff(now, last_send_time_) < config.transferInterval

\* The time of the news is not remembered.
BroadcastForgettingTime(from, kind) ==
    /\ Idle /\ registered /\ from \in config.vecFromGroup
    /\ Forwarded(kind) /\ ~TooSoon
    /\ Len(news) < MaxNews
    /\ task_id_ + Len(config.vecToGroup) <= MaxTasks
    /\ loop' = config.vecToGroup
    /\ news' = Append(news, up)
    /\ UNCHANGED <<trafficVars, up, startVars, poolVars, workerVars,
                   last_send_time_, task_id_,
                   parcel>>

\* onBoradcastAsync, up to its loop.
Broadcast(from, kind) ==
    /\ Idle /\ registered /\ from \in config.vecFromGroup
    /\ Forwarded(kind) /\ ~TooSoon
    /\ Len(news) < MaxNews
    /\ task_id_ + Len(config.vecToGroup) <= MaxTasks
    /\ last_send_time_' = now
    /\ loop' = config.vecToGroup
    /\ news' = Append(news, up)
    /\ UNCHANGED <<trafficVars, up, startVars, poolVars, workerVars, task_id_,
                   parcel>>

\* The news comes too soon: its poster is told to wait, if Grant lets the
\* handler answer.  The tip that Grant may hand out is not sent.
RefuseNews(from, kind) ==
    /\ Idle /\ registered /\ from \in config.vecFromGroup
    /\ Forwarded(kind) /\ TooSoon
    /\ Grant("forward")
    /\ UNCHANGED <<up, startVars, forwardVars, poolVars, workerVars>>

\* CMsgHelper asks for its own answer.
HelperAsks ==
    /\ Idle
    /\ Grant("helper")
    /\ UNCHANGED <<up, startVars, forwardVars, poolVars, workerVars>>

\* The loop goes over the targets without their last.
AddTaskButLast ==
    /\ loop # <<>>
    /\ task_id_' = task_id_ + 1
    /\ parcel' = Append(parcel, [of |-> Len(news), to |-> Head(loop)])
    /\ Pool!Add(task_id_')
    /\ loop' = IF Len(loop) = 2 THEN <<>> ELSE Tail(loop)
    /\ UNCHANGED <<trafficVars, up, startVars, last_send_time_, news,
                   workerVars>>

\* One iteration of the loop over set_to_group_.
AddTask ==
    /\ loop # <<>>
    /\ task_id_' = task_id_ + 1
    /\ parcel' = Append(parcel, [of |-> Len(news), to |-> Head(loop)])
    /\ Pool!Add(task_id_')
    /\ loop' = Tail(loop)
    /\ UNCHANGED <<trafficVars, up, startVars, last_send_time_, news,
                   workerVars>>

-----------------------------------------------------------------------------
(* The workers of the pool. *)

\* The sleep is left out.
SendAndGoOn(w) ==
    /\ hasPool
    /\ Pool!Begin(w)
    /\ sent' = Append(sent, [task |-> running'[w], at |-> up])
    /\ wakeAt' = [wakeAt EXCEPT ![w] = up]
    /\ UNCHANGED <<trafficVars, up, startVars, forwardVars>>

\* The task sends its message and goes to sleep.
Send(w) ==
    /\ hasPool
    /\ Pool!Begin(w)
    /\ sent' = Append(sent, [task |-> running'[w], at |-> up])
    /\ wakeAt' = [wakeAt EXCEPT ![w] = up + kSleep]
    /\ UNCHANGED <<trafficVars, up, startVars, forwardVars>>

\* The sleep is over: it lasts two seconds or longer.
Wake(w) ==
    /\ Pool!Finish(w)
    /\ up >= wakeAt[w]
    /\ UNCHANGED <<trafficVars, up, startVars, forwardVars, workerVars>>

\* The worker's thread ends, for one of the reasons of ThreadPool's
\* EndsForAReason: its tasks stay where they are.
Die(w) ==
    /\ hasPool
    /\ Pool!End(w)
    /\ w \notin ended
    /\ UNCHANGED <<trafficVars, up, startVars, forwardVars, workerVars>>

-----------------------------------------------------------------------------
(* Time. *)

Second ==
    /\ Tick
    /\ up' = up + 1
    /\ UNCHANGED <<startVars, forwardVars, poolVars, workerVars>>

TurnClockBack ==
    /\ SetClockBack
    /\ UNCHANGED <<up, startVars, forwardVars, poolVars, workerVars>>

Kind == {"news", "image"}

Next ==
    \/ \E i \in ConfigInterval, l \in ConfigLimit : ConfigureTraffic(i, l)
    \/ \E c \in ConfigForward : StartAutoForward(c)
    \/ \E from \in Group, kind \in Kind : Broadcast(from, kind)
    \/ \E from \in Group, kind \in Kind : RefuseNews(from, kind)
    \/ HelperAsks
    \/ AddTask
    \/ \E w \in Pool!Worker : Send(w) \/ Wake(w) \/ Die(w)
    \/ Second
    \/ TurnClockBack

Spec == Init /\ [][Next]_vars

-----------------------------------------------------------------------------
(* Properties. *)

\* "资讯前后需间隔" (TODO.md): two news are at least the configured interval
\* apart in true time, unless the wall clock was set back in between.
NewsSpacing ==
    ~setBack => \A i, j \in 1 .. Len(news) :
        i < j => news[j] - news[i] >= config.transferInterval

\* "每2秒4个群" (TODO.md): in any two seconds the pool sends to at most as many
\* groups as it has workers, however many news are queued.
SendRate ==
    \A i \in 1 .. Len(sent) :
        Cardinality({ j \in i .. Len(sent) : sent[j].at < sent[i].at + kSleep })
            <= Num

\* Tasks are only added to a pool that exists: the handler is registered before
\* the lists are looked at, and thread_pool_ stays null when one is empty.
NullPoolNeverUsed == loop # <<>> \/ task_id_ > 0 => hasPool

\* How many of the first t tasks are for news k.
HandedOf(k, t) == Cardinality({ s \in 1 .. t : parcel[s].of = k })

\* When the loop is over, each news has been handed over once for each target,
\* its n-th task for the n-th target, and no task has been sent twice: what was
\* sent, what is being sent and what waits are different tasks.
EveryTargetOnce ==
    /\ \A k \in 1 .. Len(news) :
           HandedOf(k, task_id_) + (IF k = Len(news) THEN Len(loop) ELSE 0)
               = Len(config.vecToGroup)
    /\ \A t \in 1 .. task_id_ :
           parcel[t].to = config.vecToGroup[HandedOf(parcel[t].of, t)]
    /\ \A i, j \in 1 .. Len(sent) : i # j => sent[i].task # sent[j].task
    /\ \A i \in 1 .. Len(sent), w \in Pool!Worker :
           ~Contains(todo[w], sent[i].task)

=============================================================================
