------------------------ MODULE TrafficControl_proofs ------------------------
(***************************************************************************)
(* Proofs about TrafficControl, for every configuration, any number of     *)
(* callers and calls and any clock that stays away from the epoch.  The    *)
(* quota and the single tip are not inductive by themselves: one needs     *)
(* what used is in terms of the counter, the other what                    *)
(* g_can_i_need_reply_ says of the calls since the window was opened.      *)
(***************************************************************************)
EXTENDS TrafficControl, SequenceTheorems, FiniteSetTheorems, TLAPS

\* What the history and the counter say of each other.  Before the first call
\* the window is the one of the epoch, which is over.
QuotaInv ==
    /\ now >= StartTime - MaxSetBack
    /\ ~setBack => now >= StartTime
    /\ ~configured => log = <<>>
    /\ log = <<>> => g_last_limit_time_ = 0 /\ used = 0 /\ g_count_ = 0
    /\ log # <<>> =>
           used = IF g_count_ < g_traffic_limit_ THEN g_count_ + 1 ELSE Quota
    /\ log # <<>> /\ log[Len(log)].verdict \in {"tipped", "refused"}
           => g_count_ >= g_traffic_limit_

\* A tip was handed out and no window has been opened since.
TippedSinceOpened ==
    \E i \in 1 .. Len(log) :
        /\ log[i].verdict = "tipped"
        /\ \A k \in i .. Len(log) : log[k].verdict # "opened"

\* What g_can_i_need_reply_ says of the log.
TipInv ==
    IF g_can_i_need_reply_
    THEN TippedSinceOpened
    ELSE \A i \in 1 .. Len(log) :
             log[i].verdict = "tipped" =>
                 \E k \in i .. Len(log) : log[k].verdict = "opened"

-----------------------------------------------------------------------------
(* Arithmetic and the log. *)

LEMMA Constants ==
    /\ kLimitMax = 5
    /\ kLimitIntervalMax = 10000
    /\ StartTime \in Nat
    /\ MaxSetBack \in Nat
    /\ StartTime - MaxSetBack > kLimitIntervalMax
  BY BoundsAssumption, StartAssumption DEF kLimitMax, kLimitIntervalMax

\* What a call of Grant adds to the log is its last entry.
LEMMA LogGrows ==
    ASSUME TrafficTypeOK, NEW c \in Caller, NEW v \in Verdict, Record(c, v)
    PROVE  /\ log' \in Seq(Entry)
           /\ Len(log') = Len(log) + 1
           /\ \A i \in 1 .. Len(log) : log'[i] = log[i]
           /\ log'[Len(log) + 1].verdict = v /\ log'[Len(log) + 1].at = now
<1> DEFINE e == [at |-> now, by |-> c, verdict |-> v]
<1>1. e \in Entry /\ e.verdict = v /\ e.at = now
  BY DEF TrafficTypeOK, Entry
<1>2. log \in Seq(Entry)
  BY DEF TrafficTypeOK
<1>3. log' = Append(log, e)
  BY DEF Record
<1> HIDE DEF e
<1> QED BY <1>1, <1>2, <1>3, AppendProperties

-----------------------------------------------------------------------------
(* Types. *)

LEMMA TypeInit == TrafficInit => TrafficTypeOK
<1> SUFFICES ASSUME TrafficInit PROVE TrafficTypeOK
  OBVIOUS
<1>1. log \in Seq(Entry) /\ {setBack, configured, g_can_i_need_reply_} \subseteq BOOLEAN
  BY EmptySeq DEF TrafficInit
<1>2. 2 <= kLimitMax /\ 3 <= kLimitIntervalMax
  BY Constants
<1>3. now \in Int
  BY Constants DEF TrafficInit
<1> QED BY <1>1, <1>2, <1>3 DEF TrafficInit, TrafficTypeOK

LEMMA TipForgotten == \A c : OpenWindow(c) => g_can_i_need_reply_' \in BOOLEAN
  BY DEF OpenWindow

LEMMA TypeStep == TrafficTypeOK /\ [TrafficNext]_trafficVars => TrafficTypeOK'
<1> SUFFICES ASSUME TrafficTypeOK, [TrafficNext]_trafficVars
             PROVE  TrafficTypeOK'
  OBVIOUS
<1> USE Constants
<1>1. ASSUME NEW i \in ConfigInterval, NEW l \in ConfigLimit, SetLimit(i, l)
      PROVE  TrafficTypeOK'
  BY <1>1, ConfigAssumption
     DEF SetLimit, TrafficTypeOK, AtMost, windowVars, historyVars
<1>2. ASSUME NEW c \in Caller, Grant(c) PROVE TrafficTypeOK'
  <2>1. CASE OpenWindow(c)
    <3>1. log' \in Seq(Entry)
      BY <2>1, LogGrows DEF OpenWindow, Verdict
    <3>2. g_count_' \in Nat /\ g_last_limit_time_' \in Int /\ used' \in Nat
      BY <2>1 DEF OpenWindow, TrafficTypeOK
    <3>3. g_can_i_need_reply_' \in BOOLEAN
      BY <2>1, TipForgotten
    <3>4. UNCHANGED <<now, g_traffic_limit_, g_traffic_interval_, configured, setBack>>
      BY <1>2 DEF Grant, limitVars
    <3> QED BY <3>1, <3>2, <3>3, <3>4 DEF TrafficTypeOK
  <2>2. CASE GrantInWindow(c)
    <3>1. log' \in Seq(Entry)
      BY <2>2, LogGrows DEF GrantInWindow, Verdict
    <3> QED BY <1>2, <2>2, <3>1
            DEF Grant, GrantInWindow, TrafficTypeOK, limitVars
  <2>3. CASE Refuse(c)
    <3>1. log' \in Seq(Entry)
      BY <2>3, LogGrows DEF Refuse, Verdict
    <3> QED BY <1>2, <2>3, <3>1
            DEF Grant, Refuse, TrafficTypeOK, limitVars
  <2> QED BY <1>2, <2>1, <2>2, <2>3 DEF Grant
<1>3. CASE Tick
  BY <1>3 DEF Tick, TrafficTypeOK, limitVars, windowVars, historyVars
<1>4. CASE SetClockBack
  BY <1>4, BoundsAssumption
     DEF SetClockBack, TrafficTypeOK, limitVars, windowVars, historyVars
<1>5. CASE UNCHANGED trafficVars
  BY <1>5
     DEF TrafficTypeOK, trafficVars, limitVars, windowVars, historyVars
<1> QED BY <1>1, <1>2, <1>3, <1>4, <1>5 DEF TrafficNext

-----------------------------------------------------------------------------
(* The quota. *)

LEMMA QuotaInit == TrafficInit => QuotaInv
  BY Constants DEF TrafficInit, QuotaInv

\* The first call of all finds the window of the epoch over.
LEMMA FirstCallOpens ==
    ASSUME TrafficTypeOK, QuotaInv, InWindow PROVE log # <<>>
  BY Constants DEF QuotaInv, TrafficTypeOK, InWindow, AbsDiff

LEMMA QuotaStep ==
    TrafficTypeOK /\ QuotaInv /\ [TrafficNext]_trafficVars => QuotaInv'
<1> SUFFICES ASSUME TrafficTypeOK, QuotaInv, [TrafficNext]_trafficVars
             PROVE  QuotaInv'
  OBVIOUS
<1> USE Constants
<1>1. ASSUME NEW i \in ConfigInterval, NEW l \in ConfigLimit, SetLimit(i, l)
      PROVE  QuotaInv'
  BY <1>1 DEF SetLimit, QuotaInv, windowVars, historyVars
<1>2. ASSUME NEW c \in Caller, Grant(c) PROVE QuotaInv'
  <2>0. /\ configured' /\ now' = now /\ setBack' = setBack
        /\ g_traffic_limit_' = g_traffic_limit_
    BY <1>2 DEF Grant, limitVars
  <2>1. CASE OpenWindow(c)
    <3>1. Len(log') = Len(log) + 1 /\ log'[Len(log) + 1].verdict = "opened"
      BY <2>1, LogGrows DEF OpenWindow, Verdict
    <3>2. log \in Seq(Entry) /\ log' # <<>>
      BY <3>1 DEF TrafficTypeOK
    <3>3. log'[Len(log')].verdict \notin {"tipped", "refused"}
      BY <3>1
    <3> QED BY <2>0, <2>1, <3>2, <3>3
            DEF OpenWindow, QuotaInv, TrafficTypeOK, Quota
  <2>2. CASE GrantInWindow(c)
    <3>1. Len(log') = Len(log) + 1 /\ log'[Len(log) + 1].verdict = "granted"
      BY <2>2, LogGrows DEF GrantInWindow, Verdict
    <3>2. log \in Seq(Entry) /\ log' # <<>> /\ log # <<>>
      BY <2>2, <3>1, FirstCallOpens DEF TrafficTypeOK, GrantInWindow
    <3>3. log'[Len(log')].verdict \notin {"tipped", "refused"}
      BY <3>1
    <3> QED BY <2>0, <2>2, <3>2, <3>3
            DEF GrantInWindow, QuotaInv, TrafficTypeOK, Exceeded, Quota
  <2>3. CASE Refuse(c)
    <3>1. Len(log') = Len(log) + 1
      BY <2>3, LogGrows DEF Refuse, Verdict
    <3>2. log \in Seq(Entry) /\ log' # <<>> /\ log # <<>>
      BY <2>3, <3>1, FirstCallOpens DEF TrafficTypeOK, Refuse
    <3> QED BY <2>0, <2>3, <3>2
            DEF Refuse, QuotaInv, TrafficTypeOK, Exceeded, Quota
  <2> QED BY <1>2, <2>1, <2>2, <2>3 DEF Grant
<1>3. CASE Tick
  BY <1>3
     DEF Tick, QuotaInv, TrafficTypeOK, limitVars, windowVars, historyVars, Quota
<1>4. CASE SetClockBack
  BY <1>4 DEF SetClockBack, QuotaInv, TrafficTypeOK, limitVars, windowVars,
              historyVars, Quota
<1>5. CASE UNCHANGED trafficVars
  BY <1>5 DEF QuotaInv, trafficVars, limitVars, windowVars, historyVars, Quota
<1> QED BY <1>1, <1>2, <1>3, <1>4, <1>5 DEF TrafficNext

LEMMA QuotaHolds == TrafficTypeOK /\ QuotaInv => WindowQuota
  BY DEF TrafficTypeOK, QuotaInv, WindowQuota, Quota

-----------------------------------------------------------------------------
(* The tip. *)

TipPart == OneTipPerWindow /\ TipInv

LEMMA TipInit == TrafficInit => TipPart
  BY DEF TrafficInit, TipPart, OneTipPerWindow, TipInv, TippedSinceOpened

\* A call keeps the property if its own verdict fits the log before it.
LEMMA OneTipGrows ==
    ASSUME TrafficTypeOK, OneTipPerWindow,
           Len(log') = Len(log) + 1,
           \A i \in 1 .. Len(log) : log'[i] = log[i],
           log'[Len(log) + 1].verdict = "tipped" =>
               \A i \in 1 .. Len(log) :
                   log[i].verdict = "tipped" =>
                       \E k \in i .. Len(log) : log[k].verdict = "opened",
           log'[Len(log) + 1].verdict = "refused" => TippedSinceOpened
    PROVE  OneTipPerWindow'
<1> DEFINE First(l, j) ==
               \A i \in 1 .. j - 1 :
                   l[i].verdict = "tipped" =>
                       \E k \in i .. j : l[k].verdict = "opened"
           After(l, j) ==
               \E i \in 1 .. j - 1 :
                   /\ l[i].verdict = "tipped"
                   /\ \A k \in i .. j : l[k].verdict # "opened"
<1>0. Len(log) \in Nat
  BY LenProperties DEF TrafficTypeOK
<1>1. SUFFICES ASSUME NEW j \in 1 .. Len(log')
               PROVE  /\ log'[j].verdict = "tipped" => First(log', j)
                      /\ log'[j].verdict = "refused" => After(log', j)
  BY <1>1 DEF OneTipPerWindow
<1>2. CASE j \in 1 .. Len(log)
  <2>1. \A i \in 1 .. j : log'[i] = log[i]
    BY <1>0, <1>2
  <2>2. /\ log[j].verdict = "tipped" => First(log, j)
        /\ log[j].verdict = "refused" => After(log, j)
    BY <1>2 DEF OneTipPerWindow
  <2>3. First(log, j) => First(log', j)
    BY <1>2, <2>1
  <2>4. After(log, j) => After(log', j)
    BY <1>2, <2>1
  <2> QED BY <1>2, <2>1, <2>2, <2>3, <2>4
<1>3. CASE j = Len(log) + 1
  <2>1. ASSUME log'[j].verdict = "tipped" PROVE First(log', j)
    BY <1>0, <1>3, <2>1
  <2>2. ASSUME log'[j].verdict = "refused" PROVE After(log', j)
    <3>1. PICK i \in 1 .. Len(log) :
              /\ log[i].verdict = "tipped"
              /\ \A k \in i .. Len(log) : log[k].verdict # "opened"
      BY <1>3, <2>2 DEF TippedSinceOpened
    <3>2. \A k \in i .. j : log'[k].verdict # "opened"
      BY <1>0, <1>3, <2>2, <3>1
    <3> QED BY <1>0, <1>3, <3>1, <3>2, SMTT(30)
  <2> QED BY <2>1, <2>2
<1> QED BY <1>0, <1>2, <1>3

LEMMA TipStep ==
    TrafficTypeOK /\ TipPart /\ [TrafficNext]_trafficVars => TipPart'
<1> SUFFICES ASSUME TrafficTypeOK, TipPart, [TrafficNext]_trafficVars
             PROVE  TipPart'
  OBVIOUS
<1>0. Len(log) \in Nat
  BY LenProperties DEF TrafficTypeOK
<1>1. ASSUME log' = log, g_can_i_need_reply_' = g_can_i_need_reply_
      PROVE  TipPart'
  BY <1>1 DEF TipPart, OneTipPerWindow, TipInv, TippedSinceOpened
<1>2. ASSUME NEW c \in Caller, Grant(c) PROVE TipPart'
  <2>1. CASE OpenWindow(c)
    <3>1. /\ Len(log') = Len(log) + 1
          /\ \A i \in 1 .. Len(log) : log'[i] = log[i]
          /\ log'[Len(log) + 1].verdict = "opened"
      BY <2>1, LogGrows DEF OpenWindow, Verdict
    <3>2. ~g_can_i_need_reply_'
      BY <2>1 DEF OpenWindow
    <3>3. OneTipPerWindow'
      BY <3>1, OneTipGrows DEF TipPart
    <3>4. TipInv'
      BY <1>0, <3>1, <3>2 DEF TipInv
    <3> QED BY <3>3, <3>4 DEF TipPart
  <2>2. CASE GrantInWindow(c)
    <3>1. /\ Len(log') = Len(log) + 1
          /\ \A i \in 1 .. Len(log) : log'[i] = log[i]
          /\ log'[Len(log) + 1].verdict = "granted"
      BY <2>2, LogGrows DEF GrantInWindow, Verdict
    <3>2. g_can_i_need_reply_' = g_can_i_need_reply_
      BY <2>2 DEF GrantInWindow
    <3>3. OneTipPerWindow'
      BY <3>1, OneTipGrows DEF TipPart
    <3>4. TipInv'
      BY <1>0, <3>1, <3>2 DEF TipPart, TipInv, TippedSinceOpened
    <3> QED BY <3>3, <3>4 DEF TipPart
  <2>3. CASE Refuse(c) /\ g_can_i_need_reply_
    <3>1. /\ Len(log') = Len(log) + 1
          /\ \A i \in 1 .. Len(log) : log'[i] = log[i]
          /\ log'[Len(log) + 1].verdict = "refused"
      BY <2>3, LogGrows DEF Refuse, Verdict
    <3>2. g_can_i_need_reply_'
      BY <2>3 DEF Refuse
    <3>3. PICK t \in 1 .. Len(log) :
              /\ log[t].verdict = "tipped"
              /\ \A k \in t .. Len(log) : log[k].verdict # "opened"
      BY <2>3 DEF TipPart, TipInv, TippedSinceOpened
    <3>4. /\ t \in 1 .. Len(log')
          /\ log'[t].verdict = "tipped"
          /\ \A k \in t .. Len(log') : log'[k].verdict # "opened"
      BY <1>0, <3>1, <3>3
    <3>5. OneTipPerWindow'
      BY <2>3, <3>1, OneTipGrows DEF TipPart, TipInv
    <3>6. TipInv'
      BY <3>2, <3>4 DEF TipInv, TippedSinceOpened
    <3> QED BY <3>5, <3>6 DEF TipPart
  <2>4. CASE Refuse(c) /\ ~g_can_i_need_reply_
    <3>1. /\ Len(log') = Len(log) + 1
          /\ \A i \in 1 .. Len(log) : log'[i] = log[i]
          /\ log'[Len(log) + 1].verdict = "tipped"
      BY <2>4, LogGrows DEF Refuse, Verdict
    <3>2. g_can_i_need_reply_'
      BY <2>4 DEF Refuse
    <3>3. \A i \in 1 .. Len(log) :
              log[i].verdict = "tipped" =>
                  \E k \in i .. Len(log) : log[k].verdict = "opened"
      BY <2>4 DEF TipPart, TipInv
    <3>4. OneTipPerWindow'
      BY <3>1, <3>3, OneTipGrows DEF TipPart
    <3>5. TipInv'
      BY <1>0, <3>1, <3>2 DEF TipInv, TippedSinceOpened
    <3> QED BY <3>4, <3>5 DEF TipPart
  <2> QED BY <1>2, <2>1, <2>2, <2>3, <2>4 DEF Grant
<1>3. ASSUME NEW i \in ConfigInterval, NEW l \in ConfigLimit, SetLimit(i, l)
      PROVE  TipPart'
  BY <1>1, <1>3 DEF SetLimit, windowVars, historyVars
<1>4. CASE Tick \/ SetClockBack \/ UNCHANGED trafficVars
  BY <1>1, <1>4
     DEF Tick, SetClockBack, trafficVars, windowVars, historyVars
<1> QED BY <1>2, <1>3, <1>4 DEF TrafficNext

-----------------------------------------------------------------------------
(* Windows: the calls of the log belong to the window that was opened last *)
(* before them.                                                            *)

Opens(p) == log[p].verdict = "opened"
Refused(i) == log[i].verdict \in {"tipped", "refused"}
NoneOpened(p, j) == \A k \in p + 1 .. j : log[k].verdict # "opened"
InWindowOf(p, j) == Opens(p) /\ NoneOpened(p, j)

\* The calls granted by the window that call p has opened.
Window(p) ==
    { j \in p .. Len(log) : log[j].verdict \in {"opened", "granted"} /\ NoneOpened(p, j) }

\* Every call belongs to a window, which has granted a quota at most; the last
\* one has granted what used says.
WindowsInv ==
    /\ \A j \in 1 .. Len(log) : \E p \in 1 .. j : InWindowOf(p, j)
    /\ \A p \in 1 .. Len(log) : Opens(p) => Cardinality(Window(p)) <= Quota
    /\ \A p \in 1 .. Len(log) :
           InWindowOf(p, Len(log)) => Cardinality(Window(p)) = used

\* A window that has refused a call has granted its quota before, and grants
\* nothing any more.
SpentBefore(p, i) ==
    /\ InWindowOf(p, i)
    /\ Cardinality(Window(p)) = Quota
    /\ \A y \in Window(p) : y < i
    /\ NoneOpened(p, Len(log)) => g_count_ >= g_traffic_limit_
    /\ ~setBack => log[i].at - log[p].at < g_traffic_interval_
RefusedInv ==
    \A i \in 1 .. Len(log) : Refused(i) => \E p \in 1 .. i : SpentBefore(p, i)

\* The log is in the order of the clock, and windows are an interval apart.
ClockInv ==
    ~setBack =>
        /\ \A i \in 1 .. Len(log) : log[i].at <= now
        /\ \A i, j \in 1 .. Len(log) : i <= j => log[i].at <= log[j].at
        /\ \A p, q \in 1 .. Len(log) :
               Opens(p) /\ Opens(q) /\ p < q => log[q].at - log[p].at >= g_traffic_interval_
        /\ \A p \in 1 .. Len(log) : Opens(p) => log[p].at <= g_last_limit_time_
        /\ \A p \in 1 .. Len(log) :
               InWindowOf(p, Len(log)) => log[p].at = g_last_limit_time_
        /\ g_last_limit_time_ <= now

LEMMA WindowFinite ==
    ASSUME log \in Seq(Entry), NEW p \in 1 .. Len(log)
    PROVE  /\ Window(p) \subseteq 1 .. Len(log)
           /\ IsFiniteSet(Window(p)) /\ Cardinality(Window(p)) \in Nat
<1>1. Len(log) \in Nat
  OBVIOUS
<1>2. Window(p) \subseteq 1 .. Len(log)
  BY <1>1 DEF Window
<1>3. IsFiniteSet(1 .. Len(log))
  BY <1>1, FS_Interval
<1>4. IsFiniteSet(Window(p))
  BY <1>2, <1>3, FS_Subset
<1> QED
  BY <1>2, <1>4, FS_CardinalityType

\* The log grows from n calls by one with verdict v.
Grows(n, v) ==
    /\ log \in Seq(Entry) /\ log' \in Seq(Entry) /\ n = Len(log)
    /\ Len(log') = n + 1
    /\ \A i \in 1 .. n : log'[i] = log[i]
    /\ log'[n + 1].verdict = v /\ log'[n + 1].at = now

LEMMA CallGrows ==
    ASSUME TrafficTypeOK, NEW c \in Caller, NEW v \in Verdict, Record(c, v)
    PROVE  \E n \in Nat : Grows(n, v)
<1>1. log \in Seq(Entry) /\ Len(log) \in Nat
  BY LenProperties DEF TrafficTypeOK
<1>2. Grows(Len(log), v)
  BY <1>1, LogGrows DEF Grows
<1> QED
  BY <1>1, <1>2

\* What the windows of the earlier calls become.
LEMMA WindowGrows ==
    ASSUME NEW v, NEW n \in Nat, Grows(n, v), NEW p \in 1 .. n
    PROVE  /\ Opens(p)' <=> Opens(p)
           /\ \A j \in 1 .. n : NoneOpened(p, j)' <=> NoneOpened(p, j)
           /\ NoneOpened(p, n + 1)' <=> (NoneOpened(p, n) /\ v # "opened")
           /\ Window(p)' = IF v = "granted" /\ NoneOpened(p, n)
                           THEN Window(p) \cup {n + 1} ELSE Window(p)
<1>1. n = Len(log) /\ Len(log') = n + 1
  BY DEF Grows
<1>2. \A i \in 1 .. n : log'[i] = log[i]
  BY DEF Grows
<1>3. log'[n + 1].verdict = v
  BY DEF Grows
<1>4. Opens(p)' <=> Opens(p)
  BY <1>2 DEF Opens
<1>5. ASSUME NEW j \in 1 .. n PROVE NoneOpened(p, j)' <=> NoneOpened(p, j)
  <2>1. p + 1 .. j \subseteq 1 .. n
    OBVIOUS
  <2> QED
    BY <1>2, <2>1 DEF NoneOpened
<1>6. NoneOpened(p, n + 1)' <=> (NoneOpened(p, n) /\ v # "opened")
  <2>1. p + 1 .. n + 1 = (p + 1 .. n) \cup {n + 1} /\ p + 1 .. n \subseteq 1 .. n
    OBVIOUS
  <2> QED
    BY <1>2, <1>3, <2>1 DEF NoneOpened
<1>7. p .. n + 1 = (p .. n) \cup {n + 1} /\ p .. n \subseteq 1 .. n /\ n + 1 \notin p .. n
  OBVIOUS
<1>8. \A j \in p .. n : j \in Window(p)' <=> j \in Window(p)
  BY <1>1, <1>2, <1>5, <1>7 DEF Window
<1>9. n + 1 \in Window(p)' <=> (v = "granted" /\ NoneOpened(p, n))
  BY <1>1, <1>3, <1>6, <1>7 DEF Window
<1>10. Window(p)' \subseteq p .. n + 1 /\ Window(p) \subseteq p .. n
  BY <1>1 DEF Window
<1>11. Window(p)' = IF v = "granted" /\ NoneOpened(p, n)
                    THEN Window(p) \cup {n + 1} ELSE Window(p)
  BY <1>7, <1>8, <1>9, <1>10
<1> QED
  BY <1>4, <1>5, <1>6, <1>11

\* The window that a call opens.
LEMMA NewWindow ==
    ASSUME NEW n \in Nat, Grows(n, "opened")
    PROVE  /\ Opens(n + 1)' /\ NoneOpened(n + 1, n + 1)'
           /\ Window(n + 1)' = {n + 1}
<1>1. Len(log') = n + 1 /\ log'[n + 1].verdict = "opened"
  BY DEF Grows
<1>2. n + 1 + 1 .. n + 1 = {} /\ n + 1 .. n + 1 = {n + 1}
  OBVIOUS
<1> QED
  BY <1>1, <1>2 DEF Opens, NoneOpened, Window

\* The call that follows belongs to the same window unless it opens one.
LEMMA CallOfWindow ==
    ASSUME NEW v \in Verdict, NEW n \in Nat, Grows(n, v), v # "opened" => log # <<>>,
           \A j \in 1 .. Len(log) : \E p \in 1 .. j : InWindowOf(p, j)
    PROVE  \A j \in 1 .. n + 1 : \E p \in 1 .. j : InWindowOf(p, j)'
<1>1. n = Len(log) /\ (log # <<>> => n \in 1 .. n)
  BY DEF Grows
<1>2. ASSUME NEW j \in 1 .. n PROVE \E p \in 1 .. j : InWindowOf(p, j)'
  <2>1. PICK p \in 1 .. j : InWindowOf(p, j)
    BY <1>1
  <2>2. p \in 1 .. n
    OBVIOUS
  <2> QED
    BY <2>1, <2>2, WindowGrows DEF InWindowOf
<1>3. CASE v = "opened"
  <2>1. InWindowOf(n + 1, n + 1)'
    BY <1>3, NewWindow DEF InWindowOf
  <2>2. n + 1 \in 1 .. n + 1
    OBVIOUS
  <2>3. \A j \in 1 .. n + 1 : j \in 1 .. n \/ j = n + 1
    OBVIOUS
  <2> QED
    BY <1>2, <2>1, <2>2, <2>3
<1>4. CASE v # "opened"
  <2>1. PICK p \in 1 .. n : InWindowOf(p, n)
    BY <1>1, <1>4
  <2>2. InWindowOf(p, n + 1)'
    BY <1>4, <2>1, WindowGrows DEF InWindowOf
  <2>3. \A j \in 1 .. n + 1 : j \in 1 .. n \/ j = n + 1
    OBVIOUS
  <2>4. p \in 1 .. n + 1
    OBVIOUS
  <2> QED
    BY <1>2, <2>2, <2>3, <2>4
<1> QED
  BY <1>3, <1>4

LEMMA QuotaPositive ==
    ASSUME TrafficTypeOK PROVE Quota \in Nat /\ Quota >= 1
  BY DEF TrafficTypeOK, Quota

LEMMA WindowsGrow ==
    ASSUME TrafficTypeOK, WindowsInv, NEW v \in Verdict, NEW n \in Nat, Grows(n, v),
           v # "opened" => log # <<>>,
           Quota' = Quota, used' <= Quota,
           used' = CASE v = "opened" -> 1
                     [] v = "granted" -> used + 1
                     [] OTHER -> used
    PROVE  WindowsInv'
<1>1. n = Len(log) /\ Len(log') = n + 1 /\ log \in Seq(Entry) /\ used \in Nat
  BY DEF Grows, TrafficTypeOK
<1>2. \A j \in 1 .. n + 1 : \E p \in 1 .. j : InWindowOf(p, j)'
  BY CallOfWindow DEF WindowsInv
<1>3. ASSUME NEW p \in 1 .. n
      PROVE  /\ Opens(p)' => Cardinality(Window(p)') <= Quota
             /\ InWindowOf(p, n + 1)' => Cardinality(Window(p)') = used'
  <2>1. IsFiniteSet(Window(p)) /\ Window(p) \subseteq 1 .. n /\ Cardinality(Window(p)) \in Nat
    BY <1>1, WindowFinite
  <2>2. /\ Opens(p) => Cardinality(Window(p)) <= Quota
        /\ Opens(p) /\ NoneOpened(p, n) => Cardinality(Window(p)) = used
    BY <1>1 DEF WindowsInv, InWindowOf
  <2>3. CASE v = "granted" /\ NoneOpened(p, n)
    <3>1. Cardinality(Window(p)') = Cardinality(Window(p)) + 1
      <4>1. n + 1 \notin Window(p)
        BY <2>1
      <4>2. Window(p)' = Window(p) \cup {n + 1}
        BY <2>3, WindowGrows
      <4> QED
        BY <2>1, <4>1, <4>2, FS_AddElement
    <3>2. Opens(p)' <=> Opens(p)
      BY WindowGrows
    <3> QED
      BY <2>2, <2>3, <3>1, <3>2 DEF InWindowOf
  <2>4. CASE ~(v = "granted" /\ NoneOpened(p, n))
    <3>1. Window(p)' = Window(p) /\ (Opens(p)' <=> Opens(p))
      BY <2>4, WindowGrows
    <3>2. NoneOpened(p, n + 1)' => NoneOpened(p, n) /\ v # "opened"
      BY WindowGrows
    <3> QED
      BY <2>2, <2>4, <3>1, <3>2 DEF InWindowOf
  <2> QED
    BY <2>3, <2>4
<1>4. /\ Opens(n + 1)' => Cardinality(Window(n + 1)') <= Quota
      /\ InWindowOf(n + 1, n + 1)' => Cardinality(Window(n + 1)') = used'
  <2>1. CASE v = "opened"
    BY <2>1, NewWindow, QuotaPositive, FS_Singleton
  <2>2. CASE v # "opened"
    BY <2>2 DEF Grows, Opens, InWindowOf
  <2> QED
    BY <2>1, <2>2
<1>5. \A p \in 1 .. n + 1 : p \in 1 .. n \/ p = n + 1
  OBVIOUS
<1>6. \A p \in 1 .. n + 1 :
          /\ Opens(p)' => Cardinality(Window(p)') <= Quota'
          /\ InWindowOf(p, n + 1)' => Cardinality(Window(p)') = used'
  BY <1>3, <1>4, <1>5
<1> QED
  BY <1>1, <1>2, <1>6 DEF WindowsInv

LEMMA RefusedGrow ==
    ASSUME TrafficTypeOK, WindowsInv, RefusedInv, ClockInv,
           NEW v \in Verdict, NEW n \in Nat, Grows(n, v),
           v # "opened" => log # <<>>,
           Quota' = Quota, g_count_' \in Nat,
           UNCHANGED <<g_traffic_limit_, g_traffic_interval_, setBack>>,
           v = "granted" => g_count_ < g_traffic_limit_,
           v # "opened" => g_count_' >= g_count_,
           v \in {"tipped", "refused"} =>
               /\ g_count_' >= g_traffic_limit_ /\ used = Quota
               /\ ~setBack => now - g_last_limit_time_ < g_traffic_interval_
    PROVE  RefusedInv'
<1>1. /\ n = Len(log) /\ Len(log') = n + 1 /\ log \in Seq(Entry)
      /\ \A i \in 1 .. n : log'[i] = log[i]
      /\ log'[n + 1].verdict = v /\ log'[n + 1].at = now
  BY DEF Grows
<1>2. g_count_ \in Nat /\ g_traffic_limit_ \in Int
  BY DEF TrafficTypeOK
<1>3. ASSUME NEW i \in 1 .. n, Refused(i)'
      PROVE  \E p \in 1 .. i : SpentBefore(p, i)'
  <2>1. Refused(i)
    BY <1>1, <1>3 DEF Refused
  <2>2. PICK p \in 1 .. i : SpentBefore(p, i)
    BY <1>1, <2>1 DEF RefusedInv
  <2>3. p \in 1 .. n
    OBVIOUS
  <2>4. v = "granted" => ~NoneOpened(p, n)
    BY <1>1, <1>2, <2>2 DEF SpentBefore
  <2>5. Window(p)' = Window(p)
    BY <2>3, <2>4, WindowGrows
  <2>6. InWindowOf(p, i)'
    BY <2>2, <2>3, WindowGrows DEF SpentBefore, InWindowOf
  <2>7. NoneOpened(p, n + 1)' => g_count_' >= g_traffic_limit_'
    <3>1. NoneOpened(p, n + 1)' => NoneOpened(p, n) /\ v # "opened"
      BY <2>3, WindowGrows
    <3> QED
      BY <1>1, <1>2, <2>2, <3>1 DEF SpentBefore
  <2>8. log'[i] = log[i] /\ log'[p] = log[p]
    BY <1>1, <2>3
  <2>9. SpentBefore(p, i)'
    BY <1>1, <2>2, <2>5, <2>6, <2>7, <2>8 DEF SpentBefore
  <2> QED
    BY <2>9
<1>4. ASSUME v \in {"tipped", "refused"}
      PROVE  \E p \in 1 .. n + 1 : SpentBefore(p, n + 1)'
  <2>1. n \in 1 .. n
    BY <1>1, <1>4
  <2>2. PICK p \in 1 .. n : InWindowOf(p, n)
    BY <1>1, <2>1 DEF WindowsInv
  <2>3. Window(p)' = Window(p) /\ InWindowOf(p, n + 1)'
    BY <1>4, <2>2, WindowGrows DEF InWindowOf
  <2>4. Cardinality(Window(p)) = Quota
    BY <1>1, <1>4, <2>2 DEF WindowsInv
  <2>5. \A y \in Window(p) : y < n + 1
    BY <1>1 DEF Window
  <2>6. ~setBack => log'[n + 1].at - log'[p].at < g_traffic_interval_
    BY <1>1, <1>4, <2>2 DEF ClockInv
  <2>7. SpentBefore(p, n + 1)'
    BY <1>4, <2>3, <2>4, <2>5, <2>6 DEF SpentBefore
  <2> QED
    BY <2>7
<1>5. Refused(n + 1)' => v \in {"tipped", "refused"}
  BY <1>1 DEF Refused
<1>6. \A i \in 1 .. n + 1 : i \in 1 .. n \/ i = n + 1
  OBVIOUS
<1>7. \A i \in 1 .. n + 1 : Refused(i)' => \E p \in 1 .. i : SpentBefore(p, i)'
  BY <1>3, <1>4, <1>5, <1>6
<1> QED
  BY <1>1, <1>7 DEF RefusedInv

LEMMA EntryTyped ==
    ASSUME log \in Seq(Entry), NEW i \in 1 .. Len(log)
    PROVE  log[i].at \in Int
<1>1. log[i] \in Entry
  OBVIOUS
<1> QED
  BY <1>1 DEF Entry

LEMMA ClockGrows ==
    ASSUME TrafficTypeOK, ClockInv, NEW v \in Verdict, NEW n \in Nat, Grows(n, v),
           UNCHANGED <<now, g_traffic_interval_, setBack>>,
           IF v = "opened"
           THEN /\ g_last_limit_time_' = now
                /\ ~setBack => now - g_last_limit_time_ >= g_traffic_interval_
           ELSE g_last_limit_time_' = g_last_limit_time_
    PROVE  ClockInv'
<1> SUFFICES ASSUME ~setBack PROVE ClockInv'
  BY DEF ClockInv
<1>1. /\ n = Len(log) /\ Len(log') = n + 1
      /\ \A i \in 1 .. n : log'[i] = log[i]
      /\ log'[n + 1].verdict = v /\ log'[n + 1].at = now
  BY DEF Grows
<1>2. now \in Int /\ g_traffic_interval_ \in Int /\ g_last_limit_time_ \in Int
  BY DEF TrafficTypeOK
<1>3. /\ \A i \in 1 .. n : log[i].at \in Int /\ log[i].at <= now
      /\ \A i, j \in 1 .. n : i <= j => log[i].at <= log[j].at
      /\ \A p, q \in 1 .. n :
             Opens(p) /\ Opens(q) /\ p < q => log[q].at - log[p].at >= g_traffic_interval_
      /\ \A p \in 1 .. n : Opens(p) => log[p].at <= g_last_limit_time_
      /\ \A p \in 1 .. n : Opens(p) /\ NoneOpened(p, n) => log[p].at = g_last_limit_time_
      /\ g_last_limit_time_ <= now
  BY <1>1, EntryTyped DEF ClockInv, InWindowOf, Grows
<1>4. \A i \in 1 .. n + 1 : i \in 1 .. n \/ i = n + 1
  OBVIOUS
<1>5. \A i \in 1 .. n + 1 : log'[i].at <= now
  BY <1>1, <1>2, <1>3, <1>4, SMTT(30)
<1>6. \A i, j \in 1 .. n + 1 : i <= j => log'[i].at <= log'[j].at
  <2> SUFFICES ASSUME NEW i \in 1 .. n + 1, NEW j \in 1 .. n + 1, i <= j
               PROVE  log'[i].at <= log'[j].at
    OBVIOUS
  <2>1. CASE j \in 1 .. n
    BY <1>1, <1>3, <2>1
  <2>2. CASE j = n + 1
    BY <1>1, <1>5, <2>2
  <2> QED
    BY <1>4, <2>1, <2>2
<1>7. \A p \in 1 .. n : Opens(p)' <=> Opens(p)
  BY WindowGrows
<1>8. Opens(n + 1)' <=> v = "opened"
  BY <1>1 DEF Opens
<1>9. \A p, q \in 1 .. n + 1 :
          Opens(p)' /\ Opens(q)' /\ p < q => log'[q].at - log'[p].at >= g_traffic_interval_
  <2> SUFFICES ASSUME NEW p \in 1 .. n + 1, NEW q \in 1 .. n + 1, Opens(p)', Opens(q)', p < q
               PROVE  log'[q].at - log'[p].at >= g_traffic_interval_
    OBVIOUS
  <2>1. p \in 1 .. n /\ Opens(p) /\ log'[p] = log[p] /\ log[p].at \in Int
    BY <1>1, <1>3, <1>7
  <2>2. CASE q \in 1 .. n
    BY <1>1, <1>3, <1>7, <2>1, <2>2
  <2>3. CASE q = n + 1
    <3>1. log[p].at <= g_last_limit_time_ /\ now - g_last_limit_time_ >= g_traffic_interval_
      BY <1>3, <1>8, <2>1, <2>3
    <3> QED
      BY <1>1, <1>2, <2>1, <2>3, <3>1
  <2> QED
    BY <1>4, <2>2, <2>3
<1>10. \A p \in 1 .. n + 1 : Opens(p)' => log'[p].at <= g_last_limit_time_'
  <2> SUFFICES ASSUME NEW p \in 1 .. n + 1, Opens(p)' PROVE log'[p].at <= g_last_limit_time_'
    OBVIOUS
  <2>1. CASE p \in 1 .. n
    BY <1>1, <1>3, <1>7, <2>1
  <2>2. CASE p = n + 1
    BY <1>1, <1>2, <1>8, <2>2
  <2> QED
    BY <1>4, <2>1, <2>2
<1>11. \A p \in 1 .. n + 1 : Opens(p)' /\ NoneOpened(p, n + 1)'
           => log'[p].at = g_last_limit_time_'
  <2> SUFFICES ASSUME NEW p \in 1 .. n + 1, Opens(p)', NoneOpened(p, n + 1)'
               PROVE  log'[p].at = g_last_limit_time_'
    OBVIOUS
  <2>1. CASE p \in 1 .. n
    <3>1. NoneOpened(p, n) /\ v # "opened"
      BY <2>1, WindowGrows
    <3> QED
      BY <1>1, <1>3, <1>7, <2>1, <3>1
  <2>2. CASE p = n + 1
    BY <1>1, <1>8, <2>2
  <2> QED
    BY <1>4, <2>1, <2>2
<1>12. g_last_limit_time_' <= now
  BY <1>2, <1>3
<1> QED
  BY <1>1, <1>5, <1>6, <1>9, <1>10, <1>11, <1>12 DEF ClockInv, InWindowOf

SpanInv == WindowsInv /\ RefusedInv /\ ClockInv

LEMMA SpanInit == TrafficInit => SpanInv
  BY Constants DEF TrafficInit, SpanInv, WindowsInv, RefusedInv, ClockInv

LEMMA SpanStep ==
    TrafficTypeOK /\ QuotaInv /\ SpanInv /\ [TrafficNext]_trafficVars => SpanInv'
<1> SUFFICES ASSUME TrafficTypeOK, QuotaInv, SpanInv, [TrafficNext]_trafficVars
             PROVE  SpanInv'
  OBVIOUS
<1>0. /\ now \in Int /\ g_traffic_limit_ \in Int /\ g_traffic_interval_ \in Int
      /\ g_count_ \in Nat /\ g_last_limit_time_ \in Int /\ used \in Nat
      /\ log \in Seq(Entry)
  BY DEF TrafficTypeOK
<1>1. ASSUME NEW i \in ConfigInterval, NEW l \in ConfigLimit, SetLimit(i, l)
      PROVE  SpanInv'
  <2>1. log = <<>> /\ log' = <<>> /\ UNCHANGED <<now, setBack, g_last_limit_time_>>
    BY <1>1 DEF SetLimit, QuotaInv, windowVars, historyVars
  <2>2. g_last_limit_time_ <= now \/ setBack
    BY DEF SpanInv, ClockInv
  <2> QED
    BY <2>1, <2>2 DEF SpanInv, WindowsInv, RefusedInv, ClockInv
<1>2. ASSUME NEW c \in Caller, Grant(c) PROVE SpanInv'
  <2>1. /\ UNCHANGED <<now, setBack, g_traffic_limit_, g_traffic_interval_>>
        /\ Quota' = Quota
    BY <1>2 DEF Grant, limitVars, Quota
  <2>2. TrafficTypeOK' /\ QuotaInv'
    BY TypeStep, QuotaStep
  <2>3. used' <= Quota' /\ g_count_' \in Nat
    <3>1. g_traffic_limit_' \in Int /\ g_count_' \in Nat
      BY <2>2 DEF TrafficTypeOK
    <3>2. /\ log' = <<>> => used' = 0
          /\ log' # <<>> =>
                 used' = IF g_count_' < g_traffic_limit_' THEN g_count_' + 1 ELSE Quota'
      BY <2>2 DEF QuotaInv
    <3> QED
      BY <3>1, <3>2 DEF Quota
  <2>4. CASE OpenWindow(c)
    <3>1. PICK n \in Nat : Grows(n, "opened")
      BY <2>4, CallGrows DEF OpenWindow, Verdict
    <3>2. WindowsInv'
      BY <2>1, <2>3, <2>4, <3>1, WindowsGrow DEF OpenWindow, SpanInv, Verdict
    <3>3. RefusedInv'
      BY <2>1, <2>3, <2>4, <3>1, RefusedGrow DEF OpenWindow, SpanInv, Verdict
    <3>4. ~setBack => now - g_last_limit_time_ >= g_traffic_interval_
      BY <1>0, <2>4 DEF OpenWindow, InWindow, AbsDiff, SpanInv, ClockInv
    <3>5. ClockInv'
      BY <2>1, <2>4, <3>1, <3>4, ClockGrows DEF OpenWindow, SpanInv, Verdict
    <3> QED
      BY <3>2, <3>3, <3>5 DEF SpanInv
  <2>5. CASE GrantInWindow(c)
    <3>1. PICK n \in Nat : Grows(n, "granted")
      BY <2>5, CallGrows DEF GrantInWindow, Verdict
    <3>2. log # <<>>
      BY <2>5, FirstCallOpens DEF GrantInWindow
    <3>3. WindowsInv'
      BY <2>1, <2>3, <2>5, <3>1, <3>2, WindowsGrow DEF GrantInWindow, SpanInv, Verdict
    <3>4. g_count_ < g_traffic_limit_ /\ g_count_' >= g_count_
      BY <1>0, <2>5 DEF GrantInWindow, Exceeded
    <3>5. RefusedInv'
      BY <2>1, <2>3, <3>1, <3>2, <3>4, RefusedGrow DEF SpanInv, Verdict
    <3>6. ClockInv'
      BY <2>1, <2>5, <3>1, ClockGrows DEF GrantInWindow, SpanInv, Verdict
    <3> QED
      BY <3>3, <3>5, <3>6 DEF SpanInv
  <2>6. CASE Refuse(c)
    <3> DEFINE v == IF g_can_i_need_reply_ THEN "refused" ELSE "tipped"
    <3>1. v \in {"tipped", "refused"} /\ v \in Verdict
      BY DEF Verdict
    <3>2. Record(c, v)
      BY <2>6 DEF Refuse
    <3> HIDE DEF v
    <3>3. PICK n \in Nat : Grows(n, v)
      BY <3>1, <3>2, CallGrows
    <3>4. log # <<>>
      BY <2>6, FirstCallOpens DEF Refuse
    <3>5. WindowsInv'
      BY <2>1, <2>3, <2>6, <3>1, <3>3, <3>4, WindowsGrow DEF Refuse, SpanInv
    <3>6. g_count_' >= g_traffic_limit_ /\ g_count_' >= g_count_
      BY <1>0, <2>6 DEF Refuse, Exceeded
    <3>7. used = Quota
      <4>1. used' = used
        BY <2>6 DEF Refuse
      <4>2. log' # <<>>
        BY <1>0, <3>3 DEF Grows
      <4>3. used' = IF g_count_' < g_traffic_limit_' THEN g_count_' + 1 ELSE Quota'
        BY <2>2, <4>2 DEF QuotaInv
      <4> QED
        BY <1>0, <2>1, <2>3, <3>6, <4>1, <4>3
    <3>8. ~setBack => now - g_last_limit_time_ < g_traffic_interval_
      BY <1>0, <2>6 DEF Refuse, InWindow, AbsDiff, SpanInv, ClockInv
    <3>9. RefusedInv'
      BY <2>1, <2>3, <3>1, <3>3, <3>4, <3>6, <3>7, <3>8, RefusedGrow DEF SpanInv
    <3>10. ClockInv'
      BY <2>1, <2>6, <3>1, <3>3, ClockGrows DEF Refuse, SpanInv
    <3> QED
      BY <3>5, <3>9, <3>10 DEF SpanInv
  <2> QED
    BY <1>2, <2>4, <2>5, <2>6 DEF Grant
<1>3. ASSUME UNCHANGED <<log, used, g_count_, g_last_limit_time_, g_traffic_limit_,
                         g_traffic_interval_>>,
             ~setBack' => ~setBack /\ now' >= now /\ now' \in Int
      PROVE  SpanInv'
  <2>1. WindowsInv'
    BY <1>3, SMTT(30) DEF SpanInv, WindowsInv, InWindowOf, Opens, NoneOpened, Window, Quota
  <2>2. RefusedInv'
    <3> SUFFICES ASSUME NEW i \in 1 .. Len(log'), Refused(i)'
                 PROVE  \E p \in 1 .. i : SpentBefore(p, i)'
      BY DEF RefusedInv
    <3>1. i \in 1 .. Len(log) /\ Refused(i)
      BY <1>3 DEF Refused
    <3>2. PICK p \in 1 .. i : SpentBefore(p, i)
      BY <3>1 DEF SpanInv, RefusedInv
    <3>3. /\ Window(p)' = Window(p) /\ Quota' = Quota
          /\ InWindowOf(p, i)' <=> InWindowOf(p, i)
      BY <1>3 DEF InWindowOf, Opens, NoneOpened, Window, Quota
    <3>4. NoneOpened(p, Len(log))' <=> NoneOpened(p, Len(log))
      BY <1>3 DEF NoneOpened
    <3>5. SpentBefore(p, i)'
      BY <1>3, <3>2, <3>3, <3>4 DEF SpentBefore
    <3> QED
      BY <3>5
  <2>3. ClockInv'
    <3> SUFFICES ASSUME ~setBack' PROVE ClockInv'
      BY DEF ClockInv
    <3>1. \A i \in 1 .. Len(log) : log[i].at \in Int
      BY <1>0, EntryTyped
    <3>2. now' >= now /\ now' \in Int /\ ~setBack
      BY <1>3
    <3>3. ClockInv
      BY DEF SpanInv
    <3>4. (\A i \in 1 .. Len(log) : log[i].at <= now') /\ g_last_limit_time_ <= now'
      BY <1>0, <3>1, <3>2, <3>3 DEF ClockInv
    <3> QED
      BY <1>3, <3>2, <3>3, <3>4 DEF ClockInv, InWindowOf, Opens, NoneOpened
  <2> QED
    BY <2>1, <2>2, <2>3 DEF SpanInv
<1>4. CASE Tick
  BY <1>0, <1>3, <1>4 DEF Tick, limitVars, windowVars, historyVars
<1>5. CASE SetClockBack
  BY <1>3, <1>5 DEF SetClockBack, limitVars, windowVars, historyVars
<1>6. CASE UNCHANGED trafficVars
  BY <1>0, <1>3, <1>6 DEF trafficVars, limitVars, windowVars, historyVars
<1> QED BY <1>1, <1>2, <1>4, <1>5, <1>6 DEF TrafficNext
-----------------------------------------------------------------------------
(* Spans as long as a window. *)

LEMMA GrantsFinite ==
    ASSUME log \in Seq(Entry), NEW t
    PROVE  GrantsFrom(t) \subseteq 1 .. Len(log) /\ IsFiniteSet(GrantsFrom(t))
<1>1. IsFiniteSet(1 .. Len(log))
  BY LenProperties, FS_Interval
<1>2. GrantsFrom(t) \subseteq 1 .. Len(log)
  BY DEF GrantsFrom
<1> QED
  BY <1>1, <1>2, FS_Subset

\* A span in which no window opens sees the rest of one window; the span in
\* which one opens, that window and the rest of the one before, without its
\* opener.  There are no two openers in a span.
LEMMA SpansBounded == TrafficTypeOK /\ SpanInv => SlidingBound
<1> SUFFICES ASSUME TrafficTypeOK, SpanInv, ~setBack, NEW i0 \in 1 .. Len(log)
             PROVE  Cardinality(GrantsFrom(log[i0].at)) <= 2 * Quota - 1
  BY DEF SlidingBound
<1> DEFINE t == log[i0].at
           S == GrantsFrom(t)
           n == Len(log)
<1>1. n \in Nat /\ log \in Seq(Entry)
  BY LenProperties DEF TrafficTypeOK
<1>2. Quota \in Nat /\ Quota >= 1
  BY QuotaPositive
<1>3. t \in Int /\ \A i \in 1 .. n : log[i].at \in Int
  BY <1>1, EntryTyped
<1>4. /\ S \subseteq 1 .. n /\ IsFiniteSet(S)
      /\ \A x \in 1 .. n : x \in S <=>
             /\ log[x].verdict \in {"opened", "granted"}
             /\ log[x].at >= t /\ log[x].at < t + g_traffic_interval_
  <2>1. g_traffic_interval_ \in Int
    BY DEF TrafficTypeOK
  <2>2. S \subseteq 1 .. n /\ IsFiniteSet(S)
    BY <1>1, GrantsFinite
  <2>3. ASSUME NEW x \in 1 .. n
        PROVE  log[x].at \in t .. t + g_traffic_interval_ - 1 <=>
                   log[x].at >= t /\ log[x].at < t + g_traffic_interval_
    <3>1. log[x].at \in Int
      BY <1>3
    <3> HIDE DEF t
    <3> QED
      BY <1>3, <2>1, <3>1
  <2> QED
    BY <2>2, <2>3 DEF GrantsFrom
<1>5. /\ \A i, j \in 1 .. n : i <= j => log[i].at <= log[j].at
      /\ \A p, q \in 1 .. n :
             Opens(p) /\ Opens(q) /\ p < q => log[q].at - log[p].at >= g_traffic_interval_
  BY DEF SpanInv, ClockInv
<1>6. /\ \A j \in 1 .. n : \E p \in 1 .. j : Opens(p) /\ NoneOpened(p, j)
      /\ \A p \in 1 .. n : Opens(p) =>
             /\ Cardinality(Window(p)) <= Quota
             /\ IsFiniteSet(Window(p)) /\ Cardinality(Window(p)) \in Nat
  BY <1>1, WindowFinite DEF SpanInv, WindowsInv, InWindowOf
<1>7. g_traffic_interval_ \in Int
  BY DEF TrafficTypeOK
<1> HIDE DEF t, S
<1>8. ASSUME NEW x \in 1 .. n, NEW p \in 1 .. x, NoneOpened(p, x),
             log[x].verdict \in {"opened", "granted"}
      PROVE  x \in Window(p)
  BY <1>1, <1>8 DEF Window
\* Openers in one span are the same.
<1>9. ASSUME NEW p \in S, NEW q \in S, Opens(p), Opens(q) PROVE p = q
  <2>1. p \in 1 .. n /\ q \in 1 .. n /\ log[p].at \in Int /\ log[q].at \in Int
    BY <1>3, <1>4
  <2>2. /\ log[p].at >= t /\ log[p].at < t + g_traffic_interval_
        /\ log[q].at >= t /\ log[q].at < t + g_traffic_interval_
    BY <1>4, <2>1
  <2>3. ~(p < q) /\ ~(q < p)
    BY <1>3, <1>5, <1>7, <1>9, <2>1, <2>2
  <2> QED
    BY <2>1, <2>3
\* Two calls of the span belong to one window unless one opens between them.
<1>10. ASSUME NEW x \in S, NEW y \in S, x <= y, NEW q \in x .. y, Opens(q) PROVE q \in S
  <2>1. x \in 1 .. n /\ y \in 1 .. n /\ q \in 1 .. n
    BY <1>1, <1>4
  <2>2. log[x].at >= t /\ log[y].at < t + g_traffic_interval_
    BY <1>4, <2>1
  <2>3. log[x].at <= log[q].at /\ log[q].at <= log[y].at
    BY <1>5, <2>1
  <2> QED
    BY <1>3, <1>4, <1>7, <1>10, <2>1, <2>2, <2>3, SMTT(30) DEF Opens
<1>11. CASE S = {}
  BY <1>2, <1>11, FS_EmptySet DEF S, t
<1>12. ASSUME S # {}, \A q \in S : ~Opens(q)
       PROVE  Cardinality(S) <= 2 * Quota - 1
  <2>1. PICK x \in S : TRUE
    BY <1>12
  <2>2. x \in 1 .. n
    BY <1>4
  <2>3. PICK p \in 1 .. x : Opens(p) /\ NoneOpened(p, x)
    BY <1>6, <2>2
  <2>4. p \in 1 .. n
    BY <2>2
  <2>5. ASSUME NEW y \in S PROVE y \in Window(p)
    <3>1. y \in 1 .. n
      BY <1>4
    <3>2. p \notin S
      BY <1>12, <2>3
    <3>3. p <= y
      BY <1>10, <2>3, <3>1, <3>2, <2>2
    <3>4. ASSUME NEW k \in p + 1 .. y PROVE log[k].verdict # "opened"
      <4>1. CASE k <= x
        BY <2>3, <4>1 DEF NoneOpened
      <4>2. CASE k > x
        <5>1. k \in x .. y /\ x <= y
          BY <2>2, <3>1, <4>2
        <5> QED
          BY <1>10, <1>12, <5>1 DEF Opens
      <4> QED
        BY <2>2, <4>1, <4>2
    <3>5. p \in 1 .. y /\ NoneOpened(p, y)
      BY <3>1, <3>3, <3>4 DEF NoneOpened
    <3> QED
      BY <1>4, <1>8, <3>1, <3>5
  <2>6. S \in SUBSET Window(p)
    BY <2>5
  <2>7. Cardinality(S) <= Cardinality(Window(p)) /\ Cardinality(S) \in Nat
    BY <1>4, <1>6, <2>3, <2>4, <2>6, FS_Subset, FS_CardinalityType
  <2> QED
    BY <1>2, <1>6, <2>3, <2>4, <2>7
<1>13. ASSUME NEW o \in S, Opens(o)
       PROVE  Cardinality(S) <= 2 * Quota - 1
  <2>1. o \in 1 .. n /\ IsFiniteSet(Window(o)) /\ Cardinality(Window(o)) <= Quota
        /\ Cardinality(Window(o)) \in Nat
    BY <1>4, <1>6, <1>13
  <2>2. ASSUME NEW y \in S, y >= o PROVE y \in Window(o)
    <3>1. y \in 1 .. n
      BY <1>4
    <3>2. ASSUME NEW k \in o + 1 .. y PROVE log[k].verdict # "opened"
      <4>1. k \in o .. y /\ k # o
        BY <2>1, <3>1
      <4> QED
        BY <1>9, <1>10, <1>13, <2>2, <4>1 DEF Opens
    <3>3. o \in 1 .. y /\ NoneOpened(o, y)
      BY <2>1, <2>2, <3>1, <3>2 DEF NoneOpened
    <3> QED
      BY <1>4, <1>8, <3>1, <3>3
  <2>3. CASE \A y \in S : y >= o
    <3>1. S \in SUBSET Window(o)
      BY <2>2, <2>3
    <3>2. Cardinality(S) <= Cardinality(Window(o)) /\ Cardinality(S) \in Nat
      BY <1>4, <2>1, <3>1, FS_Subset, FS_CardinalityType
    <3> QED
      BY <1>2, <2>1, <3>2
  <2>4. ASSUME NEW x \in S, x < o
        PROVE  Cardinality(S) <= 2 * Quota - 1
    <3>1. x \in 1 .. n
      BY <1>4
    <3>2. PICK p \in 1 .. x : Opens(p) /\ NoneOpened(p, x)
      BY <1>6, <3>1
    <3>3. p \in 1 .. n /\ p < o
      BY <2>1, <2>4, <3>1
    <3>4. log[p].at < t
      <4>1. log[o].at - log[p].at >= g_traffic_interval_
        BY <1>5, <1>13, <2>1, <3>2, <3>3
      <4>2. log[o].at < t + g_traffic_interval_
        BY <1>4, <2>1
      <4> QED
        BY <1>3, <1>7, <2>1, <3>3, <4>1, <4>2, SMTT(30)
    <3>5. ASSUME NEW y \in S, y < o PROVE y \in Window(p) \ {p}
      <4>1. y \in 1 .. n /\ log[y].at >= t
        BY <1>4
      <4>2. y > p
        <5>1. ~(y <= p)
          BY <1>3, <1>5, <3>3, <3>4, <4>1
        <5> QED
          BY <3>3, <4>1, <5>1
      <4>3. ASSUME NEW k \in p + 1 .. y PROVE log[k].verdict # "opened"
        <5>1. CASE k <= x
          BY <3>2, <5>1 DEF NoneOpened
        <5>2. CASE k > x
          <6>1. k \in x .. y /\ x <= y /\ k # o
            BY <2>1, <3>1, <3>5, <4>1, <5>2
          <6> QED
            BY <1>9, <1>10, <1>13, <6>1 DEF Opens
        <5> QED
          BY <3>1, <5>1, <5>2
      <4>4. p \in 1 .. y /\ NoneOpened(p, y)
        BY <3>3, <4>1, <4>2, <4>3 DEF NoneOpened
      <4> QED
        BY <1>4, <1>8, <3>3, <4>1, <4>2, <4>4
    <3>6. p \in Window(p)
      BY <1>1, <3>2, <3>3 DEF Window, NoneOpened, Opens
    <3> DEFINE R == Window(p) \ {p}
               O == Window(o)
    <3>7. IsFiniteSet(R) /\ Cardinality(R) = Cardinality(Window(p)) - 1
      BY <1>6, <3>2, <3>3, <3>6, FS_RemoveElement
    <3>8. \A y \in S : y \in R \/ y \in O
      <4>1. \A y \in S : y < o \/ y >= o
        BY <1>4, <2>1
      <4> QED
        BY <2>2, <3>5, <4>1
    <3>9. Cardinality(Window(p)) <= Quota /\ Cardinality(Window(p)) \in Nat
      BY <1>6, <3>2, <3>3
    <3>10. IsFiniteSet(O) /\ Cardinality(O) <= Quota /\ Cardinality(O) \in Nat
      BY <2>1
    <3> HIDE DEF R, O
    <3>11. S \in SUBSET (R \cup O)
      BY <3>8
    <3>12. /\ IsFiniteSet(R \cup O) /\ IsFiniteSet(R \cap O)
           /\ Cardinality(R \cup O) = Cardinality(R) + Cardinality(O) - Cardinality(R \cap O)
      <4>1. R \cap O \in SUBSET R
        OBVIOUS
      <4> QED
        BY <3>7, <3>10, <4>1, FS_Union, FS_Subset
    <3>13. /\ Cardinality(S) <= Cardinality(R \cup O) /\ Cardinality(S) \in Nat
           /\ Cardinality(R \cup O) \in Nat /\ Cardinality(R \cap O) \in Nat
           /\ Cardinality(R) \in Nat
      BY <1>4, <3>7, <3>11, <3>12, FS_Subset, FS_CardinalityType
    <3> QED
      BY <1>2, <3>7, <3>9, <3>10, <3>12, <3>13, SMTT(30)
  <2> QED
    BY <1>4, <2>1, <2>3, <2>4
<1> QED
  BY <1>11, <1>12, <1>13 DEF S, t

\* The window that refuses a call has granted its quota in the interval that
\* ends with the call.
LEMMA RefusalsEarned == TrafficTypeOK /\ SpanInv => RefusalsJustified
<1> SUFFICES ASSUME TrafficTypeOK, SpanInv, ~setBack, NEW i \in 1 .. Len(log), Refused(i)
             PROVE  Cardinality(GrantsFrom(log[i].at - g_traffic_interval_ + 1)) >= Quota
  BY DEF RefusalsJustified, Refused
<1> DEFINE t == log[i].at - g_traffic_interval_ + 1
           S == GrantsFrom(t)
<1>1. PICK p \in 1 .. i : SpentBefore(p, i)
  BY DEF SpanInv, RefusedInv
<1>2. /\ Cardinality(Window(p)) = Quota
      /\ \A y \in Window(p) : y < i
      /\ log[i].at - log[p].at < g_traffic_interval_
  BY <1>1 DEF SpentBefore
<1>3. log \in Seq(Entry) /\ Len(log) \in Nat /\ g_traffic_interval_ \in Int
  BY LenProperties DEF TrafficTypeOK
<1>4. p \in 1 .. Len(log)
  BY <1>3
<1>5. \A j \in 1 .. Len(log) : log[j].at \in Int
  BY <1>3, EntryTyped
<1>6. ASSUME NEW y \in Window(p) PROVE y \in S
  <2>1. /\ y \in 1 .. Len(log) /\ p <= y /\ y < i
        /\ log[y].verdict \in {"opened", "granted"}
    BY <1>2, <1>3, <1>4 DEF Window
  <2>2. log[p].at <= log[y].at /\ log[y].at <= log[i].at
    BY <1>4, <2>1 DEF SpanInv, ClockInv
  <2>3. log[y].at \in Int /\ log[p].at \in Int /\ log[i].at \in Int
    BY <1>4, <1>5, <2>1
  <2>4. log[y].at \in t .. t + g_traffic_interval_ - 1
    BY <1>2, <1>3, <2>2, <2>3, SMTT(30)
  <2> QED
    BY <2>1, <2>4 DEF GrantsFrom
<1>7. IsFiniteSet(S)
  BY <1>3, GrantsFinite
<1> HIDE DEF S, t
<1>8. Window(p) \in SUBSET S
  BY <1>6
<1>9. Cardinality(Window(p)) <= Cardinality(S)
  BY <1>7, <1>8, FS_Subset
<1>10. Cardinality(S) \in Nat /\ Quota \in Nat
  BY <1>7, FS_CardinalityType, QuotaPositive
<1> QED
  BY <1>2, <1>9, <1>10 DEF S, t

-----------------------------------------------------------------------------
(* The theorems. *)

TrafficInv == TrafficTypeOK /\ QuotaInv /\ OneTipPerWindow /\ TipInv /\ SpanInv

\* The whole of the inductive invariant holds in every reachable state.
LEMMA Invariance == TrafficSpec => []TrafficInv
<1>1. TrafficInit => TrafficInv
  BY TypeInit, QuotaInit, TipInit, SpanInit DEF TrafficInv, TipPart
<1>2. TrafficInv /\ [TrafficNext]_trafficVars => TrafficInv'
  BY TypeStep, QuotaStep, TipStep, SpanStep DEF TrafficInv, TipPart
<1> QED BY <1>1, <1>2, PTL DEF TrafficSpec

\* SetLimit keeps the limits within their maxima whatever is configured, and
\* the counter is never negative.
THEOREM TrafficTypeCorrect == TrafficSpec => []TrafficTypeOK
<1>1. TrafficInv => TrafficTypeOK
  BY DEF TrafficInv
<1> QED BY <1>1, Invariance, PTL

\* A window of Grant never lets more through than its quota, and refuses
\* nothing before the quota is spent.
THEOREM QuotaKept == TrafficSpec => []WindowQuota
<1>1. TrafficInv => WindowQuota
  BY QuotaHolds DEF TrafficInv
<1> QED BY <1>1, Invariance, PTL

\* In each window Grant hands out the tip once, with the first refusal.
THEOREM OneTip == TrafficSpec => []OneTipPerWindow
<1>1. TrafficInv => OneTipPerWindow
  BY DEF TrafficInv
<1> QED BY <1>1, Invariance, PTL

\* The weakness that the comment in Grant admits is bounded (MsgTrafficControl.cpp,
\* Grant): whatever the configuration, fewer than two quotas are granted in any span
\* as long as a window, unless the clock is set back.
THEOREM SpansAreBounded == TrafficSpec => []SlidingBound
<1>1. TrafficInv => SlidingBound
  BY SpansBounded DEF TrafficInv
<1> QED BY <1>1, Invariance, PTL

\* No chat is locked out by traffic: a whole quota was granted in the interval
\* before each refusal, which does not move g_last_limit_time_.
THEOREM RefusalsAreJustified == TrafficSpec => []RefusalsJustified
<1>1. TrafficInv => RefusalsJustified
  BY RefusalsEarned DEF TrafficInv
<1> QED BY <1>1, Invariance, PTL
=============================================================================
