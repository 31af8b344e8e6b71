--------------------------- MODULE TrafficControl ---------------------------
(***************************************************************************)
(* CMsgTrafficControl: one counter shared by all chats that limits how     *)
(* many messages the robot answers in a window of g_traffic_interval_      *)
(* seconds.  A window is opened by the first message that comes when the   *)
(* last one is over.  Grant is only called from handlers, on the consumer  *)
(* thread of CMsgReceive, so a call is one step.                           *)
(*                                                                         *)
(* Time is the wall clock in seconds.  It may be set back: Grant takes the *)
(* absolute value of the difference for that reason.                       *)
(***************************************************************************)
EXTENDS Integers, Sequences, FiniteSets

CONSTANTS
    Caller,           \* the handlers that call Grant
    ConfigInterval,   \* the values of trafficInterval in the configuration
    ConfigLimit,      \* the values of trafficLimit in the configuration
    StartTime,        \* time(nullptr) when the program starts
    MaxTime,          \* bound: the clock stops there
    MaxCalls,         \* bound: how often Grant is called
    MaxSetBack        \* bound: by how many seconds the clock is set back

kLimitMax == 5
kLimitIntervalMax == 10 * 1000

ASSUME ConfigAssumption == ConfigInterval \subseteq Int /\ ConfigLimit \subseteq Int
ASSUME BoundsAssumption == MaxTime \in Nat /\ MaxCalls \in Nat /\ MaxSetBack \in Nat
\* The clock is never near the epoch, where g_last_limit_time_ starts.
ASSUME StartAssumption ==
    StartTime \in Nat /\ StartTime > kLimitIntervalMax + MaxSetBack

VARIABLES
    now,                 \* time(nullptr)
    g_traffic_limit_,
    g_traffic_interval_,
    g_count_,
    g_last_limit_time_,
    g_can_i_need_reply_,
    configured,          \* InitInstance has called SetLimit
    log,                 \* history: what each call of Grant returned, and when
    used,                \* history: calls granted since the window opened
    setBack              \* history: the clock has been set back

limitVars == <<g_traffic_limit_, g_traffic_interval_, configured>>
windowVars == <<g_count_, g_last_limit_time_, g_can_i_need_reply_>>
historyVars == <<log, used>>
trafficVars == <<now, limitVars, windowVars, historyVars, setBack>>

\* What Grant tells its caller: granted, by opening a window or within one;
\* or refused, with the tip to send or without.
Verdict == {"opened", "granted", "tipped", "refused"}
Entry == [at : Int, by : Caller, verdict : Verdict]

\* The limits in force are within the maxima whatever the configuration says.
TrafficTypeOK ==
    /\ now \in Int
    /\ g_traffic_limit_ \in Int /\ g_traffic_limit_ <= kLimitMax
    /\ g_traffic_interval_ \in Int /\ g_traffic_interval_ <= kLimitIntervalMax
    /\ g_count_ \in Nat
    /\ g_last_limit_time_ \in Int
    /\ g_can_i_need_reply_ \in BOOLEAN
    /\ configured \in BOOLEAN
    /\ log \in Seq(Entry)
    /\ used \in Nat
    /\ setBack \in BOOLEAN

TrafficInit ==
    /\ now = StartTime
    /\ g_traffic_limit_ = 2
    /\ g_traffic_interval_ = 3
    /\ g_count_ = 0
    /\ g_last_limit_time_ = 0
    /\ g_can_i_need_reply_ = FALSE
    /\ configured = FALSE
    /\ log = <<>>
    /\ used = 0
    /\ setBack = FALSE

-----------------------------------------------------------------------------
AbsDiff(a, b) == IF a >= b THEN a - b ELSE b - a
AtMost(a, b) == IF a <= b THEN a ELSE b

\* InitInstance calls SetLimit with the configured values before it starts
\* anything that handles messages.
SetLimit(interval, limit) ==
    /\ ~configured
    /\ configured' = TRUE
    /\ g_traffic_limit_' = AtMost(limit, kLimitMax)
    /\ g_traffic_interval_' = AtMost(interval, kLimitIntervalMax)
    /\ UNCHANGED <<now, windowVars, historyVars, setBack>>

InWindow == AbsDiff(now, g_last_limit_time_) < g_traffic_interval_

ExceededLate == g_count_ + 1 > g_traffic_limit_

\* The counter is incremented first and compared afterwards.
Exceeded == g_count_ + 1 >= g_traffic_limit_

Record(c, verdict) ==
    log' = Append(log, [at |-> now, by |-> c, verdict |-> verdict])

\* The window's start is not moved.
OpenWindowKeepingStart(c) ==
    /\ ~InWindow
    /\ g_count_' = 0
    /\ g_can_i_need_reply_' = FALSE
    /\ used' = 1
    /\ Record(c, "opened")
    /\ UNCHANGED g_last_limit_time_

\* The message that finds the window over opens the next one: it is granted
\* and not counted.
OpenWindow(c) ==
    /\ ~InWindow
    /\ g_count_' = 0
    /\ g_last_limit_time_' = now
    /\ g_can_i_need_reply_' = FALSE
    /\ used' = 1
    /\ Record(c, "opened")

GrantInWindow(c) ==
    /\ InWindow
    /\ ~Exceeded
    /\ g_count_' = g_count_ + 1
    /\ used' = used + 1
    /\ Record(c, "granted")
    /\ UNCHANGED <<g_last_limit_time_, g_can_i_need_reply_>>

\* The tip is not remembered.
RefuseForgetting(c) ==
    /\ InWindow
    /\ Exceeded
    /\ g_count_' = g_count_ + 1
    /\ Record(c, IF g_can_i_need_reply_ THEN "refused" ELSE "tipped")
    /\ UNCHANGED <<g_last_limit_time_, g_can_i_need_reply_, used>>

\* A refused message starts the window again.
RefuseAndProlong(c) ==
    /\ InWindow
    /\ Exceeded
    /\ g_count_' = g_count_ + 1
    /\ g_can_i_need_reply_' = TRUE
    /\ g_last_limit_time_' = now
    /\ Record(c, IF g_can_i_need_reply_ THEN "refused" ELSE "tipped")
    /\ UNCHANGED used

\* Only the first message refused in a window gets the random tip.
Refuse(c) ==
    /\ InWindow
    /\ Exceeded
    /\ g_count_' = g_count_ + 1
    /\ g_can_i_need_reply_' = TRUE
    /\ Record(c, IF g_can_i_need_reply_ THEN "refused" ELSE "tipped")
    /\ UNCHANGED <<g_last_limit_time_, used>>

Grant(c) ==
    /\ configured
    /\ Len(log) < MaxCalls
    /\ OpenWindow(c) \/ GrantInWindow(c) \/ Refuse(c)
    /\ UNCHANGED <<now, limitVars, setBack>>

Tick ==
    /\ now < MaxTime
    /\ now' = now + 1
    /\ UNCHANGED <<limitVars, windowVars, historyVars, setBack>>

\* Somebody sets the clock of the machine back, once.
SetClockBack ==
    /\ ~setBack
    /\ setBack' = TRUE
    /\ \E d \in 1 .. MaxSetBack : now' = now - d
    /\ UNCHANGED <<limitVars, windowVars, historyVars>>

TrafficNext ==
    \/ \E i \in ConfigInterval, l \in ConfigLimit : SetLimit(i, l)
    \/ \E c \in Caller : Grant(c)
    \/ Tick
    \/ SetClockBack

TrafficSpec == TrafficInit /\ [][TrafficNext]_trafficVars

-----------------------------------------------------------------------------
(* Properties. *)

\* What one window lets through: its opener and limit - 1 more, and the opener
\* even under a limit of zero or less.
Quota == IF g_traffic_limit_ > 1 THEN g_traffic_limit_ ELSE 1

\* A window never grants more than its quota, and it refuses only when the
\* quota is spent (Grant counts from the message after the opener).
WindowQuota ==
    /\ used <= Quota
    /\ log # <<>> /\ log[Len(log)].verdict \in {"tipped", "refused"}
           => used = Quota

\* Within one window the first refused call gets the tip and no other does:
\* between two tips a window was opened, and a bare refusal comes after a tip
\* of the same window (g_can_i_need_reply_).
OneTipPerWindow ==
    \A j \in 1 .. Len(log) :
        /\ log[j].verdict = "tipped" =>
               \A i \in 1 .. j - 1 :
                   log[i].verdict = "tipped" =>
                       \E k \in i .. j : log[k].verdict = "opened"
        /\ log[j].verdict = "refused" =>
               \E i \in 1 .. j - 1 :
                   /\ log[i].verdict = "tipped"
                   /\ \A k \in i .. j : log[k].verdict # "opened"

\* The calls granted at times t to t + interval - 1.
GrantsFrom(t) ==
    { i \in 1 .. Len(log) :
        /\ log[i].verdict \in {"opened", "granted"}
        /\ log[i].at \in t .. t + g_traffic_interval_ - 1 }

\* The weakness that the comment in Grant admits is bounded: wherever it
\* starts, a span as long as a window sees less than two quotas granted, as
\* long as the clock is not set back.
SlidingBound ==
    ~setBack => \A i \in 1 .. Len(log) :
        Cardinality(GrantsFrom(log[i].at)) <= 2 * Quota - 1

\* Traffic never locks a chat out: a call is refused only if a whole quota was
\* granted in the interval that ends with it (a refusal does not move
\* g_last_limit_time_).
RefusalsJustified ==
    ~setBack => \A i \in 1 .. Len(log) :
        log[i].verdict \in {"tipped", "refused"} =>
            Cardinality(GrantsFrom(log[i].at - g_traffic_interval_ + 1))
                >= Quota
=============================================================================
