-------------------------- MODULE FrameLimitProofs --------------------------
(***************************************************************************)
(* The frame limit from the file to the sleep: theorems about ConfigSync,  *)
(* where the server reads the limit and sends it to its clients, and about *)
(* FpsLimiter, where a client keeps it.  They share no state; the limit    *)
(* that OnConfig stores is the t of a later SetFpsLimit(t).                *)
(*                                                                         *)
(* ConfigSync, for any clients, limits and number of edits: the types,     *)
(* that what was loaded is the file that was signed, and that a client     *)
(* that was sent everything has the limit in force.                        *)
(*                                                                         *)
(* FpsLimiter, for every choice of limits, frame lengths and oversleeps: a *)
(* game whose frames sleep stays within half a frame of its limit.  The    *)
(* argument is one conserved quantity: a sleep that is made up for moves   *)
(* what was won from overhead to ahead and back, and their sum stays the   *)
(* overhead that was left when the count began.                            *)
(***************************************************************************)
EXTENDS ConfigSync, FpsLimiter, SequenceTheorems, TLAPS

(* What was won so far and what the next sleep will take back.             *)
Conserved == 0 <= ahead + overhead /\ ahead + overhead <= HalfAFrame

LimiterInv == LimiterTypeOK /\ Conserved

(* Half of a frame, as fps_limiter.h computes it, is at most half of the   *)
(* longest one.                                                            *)
LEMMA HalfIsMonotonic ==
    ASSUME NEW t \in 0 .. MaxTarget
    PROVE  t \div 2 \in Nat /\ t \div 2 <= HalfAFrame
  BY TicksAssumption DEF HalfAFrame

(* The overhead that do_sleep leaves is an oversleep of at most half a     *)
(* frame, or nothing.                                                      *)
LEMMA OverheadIsSmall ==
    ASSUME target \in Targets, NEW over \in Lates
    PROVE  /\ Overhead(over) \in Lates /\ Overhead(over) \in Nat
           /\ Overhead(over) <= HalfAFrame
           /\ Overhead(over) = IF Forgiven(over) THEN 0 ELSE over
  <1>1. target \in 0 .. MaxTarget /\ over \in Nat /\ 0 \in Lates
    BY TicksAssumption
  <1>2. target \div 2 \in Nat /\ target \div 2 <= HalfAFrame
    BY <1>1, HalfIsMonotonic
  <1>3. HalfAFrame \in Nat
    BY TicksAssumption DEF HalfAFrame
  <1> QED
    BY <1>1, <1>2, <1>3 DEF Overhead, Forgiven

(* A sleep that calc_sleep asks for is the rest of the frame less the      *)
(* overhead.                                                               *)
LEMMA SleepFillsTheFrame ==
    ASSUME LimiterTypeOK, NEW w \in Works, CalcSleep(w) > 0
    PROVE  CalcSleep(w) = target - w - overhead /\ CalcSleep(w) \in Nat
  BY TicksAssumption DEF CalcSleep, LimiterTypeOK

LEMMA LimiterInitEstablishesInv == LimiterInit => LimiterInv
  BY TicksAssumption DEF LimiterInit, LimiterInv, LimiterTypeOK, Conserved, HalfAFrame

LEMMA SetFpsLimitKeepsInv ==
    ASSUME LimiterInv, NEW t \in Targets, SetFpsLimit(t)
    PROVE  LimiterInv'
  BY TicksAssumption DEF SetFpsLimit, LimiterInv, LimiterTypeOK, Conserved, HalfAFrame

LEMMA FrameWithoutSleepKeepsInv ==
    ASSUME LimiterInv, NEW w \in Works, FrameWithoutSleep(w)
    PROVE  LimiterInv'
  BY TicksAssumption DEF FrameWithoutSleep, LimiterInv, LimiterTypeOK, Conserved, HalfAFrame

LEMMA FrameWithSleepKeepsInv ==
    ASSUME LimiterInv, NEW w \in Works, NEW over \in Lates, FrameWithSleep(w, over)
    PROVE  LimiterInv'
  <1> DEFINE counted == IF Forgiven(over) THEN 0 ELSE over
  <1>1. /\ target \in Int /\ overhead \in Int /\ ahead \in Int
        /\ w \in Nat /\ over \in Nat /\ HalfAFrame \in Nat
    BY TicksAssumption DEF LimiterInv, LimiterTypeOK, HalfAFrame
  <1>2. CalcSleep(w) = target - w - overhead /\ CalcSleep(w) \in Nat
    BY SleepFillsTheFrame DEF FrameWithSleep, LimiterInv
  <1>3. overhead' = counted /\ counted \in Nat /\ counted <= HalfAFrame
        /\ overhead' \in Lates
    BY OverheadIsSmall DEF FrameWithSleep, LimiterInv, LimiterTypeOK
  <1>4. ahead' + overhead' = ahead + overhead
    <2>1. ahead' = ahead + target - (w + CalcSleep(w) + counted)
      BY DEF FrameWithSleep
    <2> QED
      BY <1>1, <1>2, <1>3, <2>1
  <1>5. LimiterTypeOK'
    <2>1. period' = w + CalcSleep(w) + over /\ worked' = w /\ late' = over
          /\ target' = target
      BY DEF FrameWithSleep
    <2>2. period' \in Nat
      BY <1>1, <1>2, <2>1
    <2>3. ahead' \in Int
      <3>1. ahead' = ahead + target - (w + CalcSleep(w) + counted)
        BY DEF FrameWithSleep
      <3> QED
        BY <1>1, <1>2, <1>3, <3>1
    <2> QED
      BY <1>1, <1>3, <2>1, <2>2, <2>3 DEF LimiterTypeOK, LimiterInv, HalfAFrame
  <1> QED
    BY <1>4, <1>5 DEF LimiterInv, Conserved, HalfAFrame

LEMMA LimiterNextKeepsInv == LimiterInv /\ [LimiterNext]_limiterVars => LimiterInv'
  <1> SUFFICES ASSUME LimiterInv, [LimiterNext]_limiterVars PROVE LimiterInv'
    OBVIOUS
  <1>1. CASE Frame
    BY <1>1, FrameWithoutSleepKeepsInv, FrameWithSleepKeepsInv DEF Frame
  <1>2. CASE \E t \in Targets : SetFpsLimit(t)
    BY <1>2, SetFpsLimitKeepsInv
  <1>3. CASE UNCHANGED limiterVars
    BY <1>3 DEF limiterVars, LimiterInv, LimiterTypeOK, Conserved, HalfAFrame
  <1> QED
    BY <1>1, <1>2, <1>3 DEF LimiterNext

LEMMA LimiterInvariantHolds == LimiterSpec => []LimiterInv
  BY LimiterInitEstablishesInv, LimiterNextKeepsInv, PTL DEF LimiterSpec

(* Every limit, overhead and frame of fpsLimiter has its type, and the     *)
(* overhead is at most half of the longest frame.                          *)
THEOREM LimiterTypeCorrect == LimiterSpec => []LimiterTypeOK
  <1>1. LimiterInv => LimiterTypeOK
    BY DEF LimiterInv
  <1> QED
    BY <1>1, LimiterInvariantHolds, PTL

(* Frames that sleep are never more than half a frame before or behind the *)
(* limit, for as long as the game runs.                                    *)
THEOREM OnScheduleCorrect == LimiterSpec => []OnSchedule
  <1>1. LimiterInv => OnSchedule
    <2> SUFFICES ASSUME LimiterInv PROVE OnSchedule
      OBVIOUS
    <2>1. /\ overhead \in Nat /\ ahead \in Int /\ HalfAFrame \in Nat
          /\ overhead <= HalfAFrame
      BY TicksAssumption DEF LimiterInv, LimiterTypeOK, HalfAFrame
    <2> QED
      BY <2>1 DEF LimiterInv, Conserved, OnSchedule
  <1> QED
    BY <1>1, LimiterInvariantHolds, PTL

(* What an oversleep is made up for costs one frame at most half of the    *)
(* longest frame: no frame, with or without a sleep and whatever limits    *)
(* and oversleeps came before it, is shorter than its limit by more.       *)
NoFrameIsRushed == [][Frame => period' + HalfAFrame >= target]_limiterVars

(* fpsLimiter rushes no frame, for any limits, frame lengths and           *)
(* oversleeps: calc_sleep takes the overhead off one frame's sleep, and    *)
(* do_sleep forgives an overhead of more than half a frame.                *)
THEOREM NoFrameIsRushedCorrect == LimiterSpec => NoFrameIsRushed
  <1>1. LimiterInv => [Frame => period' + HalfAFrame >= target]_limiterVars
    <2> SUFFICES ASSUME LimiterInv, NEW w \in Works,
                        FrameWithoutSleep(w)
                          \/ \E over \in Lates : FrameWithSleep(w, over)
                 PROVE  period' + HalfAFrame >= target
      BY DEF Frame
    <2>1. /\ target \in Int /\ overhead \in Nat /\ w \in Nat
          /\ HalfAFrame \in Nat /\ overhead <= HalfAFrame
      BY TicksAssumption DEF LimiterInv, LimiterTypeOK, HalfAFrame
    <2>2. CASE FrameWithoutSleep(w)
      <3>1. period' = w /\ (target <= 0 \/ target - w - overhead <= 0)
        BY <2>1, <2>2 DEF FrameWithoutSleep, CalcSleep
      <3> QED
        BY <2>1, <3>1
    <2>3. ASSUME NEW over \in Lates, FrameWithSleep(w, over)
          PROVE  period' + HalfAFrame >= target
      <3>1. period' = w + CalcSleep(w) + over /\ over \in Nat
        BY <2>3, TicksAssumption DEF FrameWithSleep
      <3>2. CalcSleep(w) = target - w - overhead
        BY <2>3, SleepFillsTheFrame DEF FrameWithSleep, LimiterInv
      <3> QED
        BY <2>1, <3>1, <3>2
    <2> QED
      BY <2>2, <2>3
  <1> QED
    BY <1>1, LimiterInvariantHolds, PTL DEF LimiterSpec, NoFrameIsRushed
-----------------------------------------------------------------------------
USE LimitsAssumption, BoundsAssumption DEF LimitsAssumption, BoundsAssumption

LEMMA ContentTypes ==
    /\ Missing \in Content /\ Malformed \in Content
    /\ \A f \in Content : f.limit \in Limits
    /\ Missing # Malformed /\ ~Missing.table /\ ~Malformed.table
BY DEF Content, Missing, Malformed, Parsed

(* The state keeps the types of its variables; in particular no reset,     *)
(* reload or message makes a limit that no file could have.                *)
THEOREM TypeCorrect == Spec => []TypeOK
<1>1. Init => TypeOK
  <2> SUFFICES ASSUME Init PROVE TypeOK
    OBVIOUS
  <2>1. /\ stage \in [Clients -> {"absent", "attached", "greeting", "connected"}]
        /\ seen \in [Clients -> Limits] /\ fps_limit \in [Clients -> Limits]
    BY DEF Init
  <2>2. work \in [Clients -> Seq(Limits)] /\ wire \in [Clients -> Seq(Limits)]
    BY DEF Init
  <2>3. /\ file \in Content /\ doc \in Content /\ table \in Content
        /\ option \in Limits /\ edits \in 0 .. MaxEdits /\ prev_sig \in 0 .. MaxEdits + 1
    BY ContentTypes DEF Init
  <2>4. /\ loop_pc \in {"poll", "read", "reset", "load", "table", "notify"}
        /\ inited \in BOOLEAN /\ to_notify \subseteq Clients
    BY DEF Init
  <2> QED BY <2>1, <2>2, <2>3, <2>4 DEF TypeOK
<1>2. TypeOK /\ [Next]_vars => TypeOK'
  <2> SUFFICES ASSUME TypeOK, [Next]_vars PROVE TypeOK'
    OBVIOUS
  <2> USE DEF TypeOK
  <2>1. CASE Edit
    BY <2>1 DEF Edit, config, links
  <2>2. CASE Detect
    BY <2>2 DEF Detect, Signature, links
  <2>3. CASE ReadFile
    BY <2>3 DEF ReadFile, links
  <2>4. CASE ResetOption
    BY <2>4 DEF ResetOption, links
  <2>5. CASE LoadOption
    BY <2>5, ContentTypes DEF LoadOption, links
  <2>6. CASE LoadTable
    BY <2>6, ContentTypes DEF LoadTable, links
  <2>7. ASSUME NEW c \in Clients, Notify(c) PROVE TypeOK'
    <3>1. work' \in [Clients -> Seq(Limits)]
      BY <2>7, AppendProperties DEF Notify
    <3> QED BY <2>7, <3>1 DEF Notify, config
  <2>8. CASE Sleep
    BY <2>8 DEF Sleep, config, links
  <2>9. ASSUME NEW c \in Clients, Attach(c) \/ ReadOption(c) PROVE TypeOK'
    BY <2>9 DEF Attach, ReadOption, config
  <2>10. ASSUME NEW c \in Clients, PostOption(c) PROVE TypeOK'
    <3>1. work' \in [Clients -> Seq(Limits)] /\ seen' \in [Clients -> Limits]
      BY <2>10, AppendProperties DEF PostOption
    <3> QED BY <2>10, <3>1 DEF PostOption, config
  <2>11. ASSUME NEW c \in Clients, SendConfig(c) PROVE TypeOK'
    <3>1. Head(work[c]) \in Limits /\ Tail(work[c]) \in Seq(Limits)
      BY <2>11, HeadTailProperties DEF SendConfig
    <3>2. work' \in [Clients -> Seq(Limits)] /\ wire' \in [Clients -> Seq(Limits)]
      BY <2>11, <3>1, AppendProperties DEF SendConfig
    <3> QED BY <2>11, <3>2 DEF SendConfig, config
  <2>12. ASSUME NEW c \in Clients, OnConfig(c) PROVE TypeOK'
    <3>1. Head(wire[c]) \in Limits /\ Tail(wire[c]) \in Seq(Limits)
      BY <2>12, HeadTailProperties DEF OnConfig
    <3> QED BY <2>12, <3>1 DEF OnConfig, config
  <2>13. CASE UNCHANGED vars
    BY <2>13 DEF vars, config, links
  <2> QED BY <2>1, <2>2, <2>3, <2>4, <2>5, <2>6, <2>7, <2>8, <2>9, <2>10, <2>11,
             <2>12, <2>13 DEF Next, Loop, ServerBus
<1> QED BY <1>1, <1>2, PTL DEF Spec
-----------------------------------------------------------------------------
(* As long as the signature of an existing file is the one taken last, the *)
(* file has not changed since, and what was read of it is what it has.     *)
Signed == prev_sig = edits + 1

ReloadInv ==
    /\ prev_sig <= edits + 1
    /\ Signed =>
        /\ loop_pc \in {"reset", "load"} => doc = file /\ file # Malformed
        /\ loop_pc = "table" => doc = file
        /\ loop_pc \in {"table", "notify", "poll"} /\ file # Malformed =>
               option = file.limit
        /\ loop_pc \in {"notify", "poll"} =>
               table = IF file.table THEN file ELSE Missing

LEMMA ReloadStep == TypeOK /\ ReloadInv /\ [Next]_vars => ReloadInv'
<1> SUFFICES ASSUME TypeOK, ReloadInv, [Next]_vars PROVE ReloadInv'
  OBVIOUS
<1>1. edits \in Nat /\ prev_sig \in Nat /\ file \in Content /\ doc \in Content
  BY DEF TypeOK
<1>2. CASE Edit
  <2>1. edits' = edits + 1 /\ prev_sig' = prev_sig
    BY <1>2 DEF Edit, config
  <2> QED BY <1>1, <2>1 DEF ReloadInv, Signed
<1>3. CASE Detect
  BY <1>1, <1>3 DEF Detect, Signature, ReloadInv, Signed
<1>4. CASE ReadFile
  <2>1. /\ loop_pc = "read" /\ doc' = file
        /\ loop_pc' = (IF file = Malformed THEN "table" ELSE "reset")
        /\ UNCHANGED <<file, edits, prev_sig, option, table>>
    BY <1>4 DEF ReadFile
  <2> QED BY <1>1, <2>1 DEF ReloadInv, Signed
<1>5. CASE ResetOption
  BY <1>1, <1>5 DEF ResetOption, ReloadInv, Signed
<1>6. CASE LoadOption
  BY <1>1, <1>6 DEF LoadOption, ReloadInv, Signed
<1>7. CASE LoadTable
  BY <1>1, <1>7 DEF LoadTable, ReloadInv, Signed
<1>8. CASE Sleep
  BY <1>1, <1>8 DEF Sleep, config, ReloadInv, Signed
<1>9. ASSUME UNCHANGED <<file, edits, loop_pc, config>> PROVE ReloadInv'
  BY <1>9 DEF config, ReloadInv, Signed
<1>10. CASE \E c \in Clients : Notify(c) \/ Attach(c) \/ ServerBus(c) \/ OnConfig(c)
  BY <1>9, <1>10 DEF Notify, Attach, ServerBus, ReadOption, PostOption,
                     SendConfig, OnConfig
<1>11. CASE UNCHANGED vars
  BY <1>9, <1>11 DEF vars
<1> QED BY <1>2, <1>3, <1>4, <1>5, <1>6, <1>7, <1>8, <1>10, <1>11 DEF Next, Loop

(* What the main loop has loaded when it rests is the file as it is, if    *)
(* its signature says so, for any number of edits between any two steps of *)
(* a reload: the signature is taken first.                                 *)
THEOREM ReloadIsCurrentCorrect == Spec => []ReloadIsCurrent
<1>1. TypeOK /\ Init => ReloadInv
  BY DEF TypeOK, Init, ReloadInv, Signed
<1>2. TypeOK /\ ReloadInv => ReloadIsCurrent
  BY DEF TypeOK, ReloadInv, Signed, ReloadIsCurrent, Signature
<1>3. TypeOK /\ ReloadInv /\ [Next]_vars => ReloadInv'
  BY ReloadStep
<1> QED BY TypeCorrect, <1>1, <1>2, <1>3, PTL DEF Spec
-----------------------------------------------------------------------------
(* What a client will have stored when everything sent to it has arrived.  *)
Newest(c) ==
    IF work[c] # <<>> THEN work[c][Len(work[c])]
    ELSE IF wire[c] # <<>> THEN wire[c][Len(wire[c])]
    ELSE fps_limit[c]

(* A client that is connected when a reload begins will be notified, or    *)
(* has been and was sent nothing since; on_connect is over and posts no    *)
(* older limit behind it.                                                  *)
Following(c) ==
    /\ Connected(c)
    /\ loop_pc = "poll" => Newest(c) = option
    /\ loop_pc = "notify" => c \in to_notify \/ Newest(c) = option

(* A limit on its way from the work queue over the bus to the client stays *)
(* the newest; one that is posted becomes it.                              *)
LEMMA PostedIsNewest ==
    ASSUME TypeOK, NEW c \in Clients, NEW limit \in Limits,
           work' = [work EXCEPT ![c] = Append(@, limit)]
    PROVE  Newest(c)' = limit
<1>1. work[c] \in Seq(Limits) /\ work'[c] = Append(work[c], limit)
  BY DEF TypeOK
<1>2. /\ Len(work'[c]) = Len(work[c]) + 1
      /\ work'[c][Len(work[c]) + 1] = limit /\ work'[c] # <<>>
  BY <1>1, AppendProperties
<1> QED BY <1>2 DEF Newest

LEMMA TailOfLimits ==
    ASSUME NEW q \in Seq(Limits), q # <<>>
    PROVE  /\ Head(q) = q[1]
           /\ Tail(q) = <<>> => Len(q) = 1
           /\ Tail(q) # <<>> => Tail(q)[Len(Tail(q))] = q[Len(q)]
<1>1. Len(q) \in Nat /\ Head(q) = q[1]
  BY HeadTailProperties
<1>2. Len(q) # 0
  BY EmptySeq
<1>3. /\ Tail(q) \in Seq(Limits) /\ Len(Tail(q)) = Len(q) - 1
      /\ \A i \in 1 .. Len(q) - 1 : Tail(q)[i] = q[i + 1]
  BY HeadTailProperties
<1>4. CASE Tail(q) = <<>>
  <2>1. Len(Tail(q)) = 0
    BY <1>4, EmptySeq
  <2> QED BY <1>1, <1>3, <1>4, <2>1
<1>5. CASE Tail(q) # <<>>
  <2>1. Len(Tail(q)) # 0
    BY <1>3, <1>5, EmptySeq
  <2>2. Len(q) - 1 \in 1 .. Len(q) - 1
    BY <1>1, <1>2, <1>3, <2>1
  <2>3. Tail(q)[Len(q) - 1] = q[(Len(q) - 1) + 1]
    BY <1>3, <2>2
  <2> QED BY <1>1, <1>3, <1>5, <2>3
<1> QED BY <1>1, <1>4, <1>5

LEMMA SendConfigKeepsNewest ==
    ASSUME TypeOK, NEW c \in Clients, SendConfig(c)
    PROVE  Newest(c)' = Newest(c)
<1>1. /\ work[c] \in Seq(Limits) /\ work[c] # <<>> /\ wire[c] \in Seq(Limits)
      /\ work'[c] = Tail(work[c]) /\ wire'[c] = Append(wire[c], Head(work[c]))
  BY DEF TypeOK, SendConfig
<1>2. Newest(c) = work[c][Len(work[c])]
  BY <1>1 DEF Newest
<1>3. /\ Head(work[c]) \in Limits /\ Head(work[c]) = work[c][1]
      /\ Tail(work[c]) = <<>> => Len(work[c]) = 1
      /\ Tail(work[c]) # <<>> => Tail(work[c])[Len(Tail(work[c]))] = work[c][Len(work[c])]
  BY <1>1, TailOfLimits, HeadTailProperties
<1>4. wire'[c][Len(wire'[c])] = Head(work[c]) /\ wire'[c] # <<>>
  BY <1>1, <1>3, AppendProperties
<1> QED BY <1>1, <1>2, <1>3, <1>4 DEF Newest

LEMMA OnConfigKeepsNewest ==
    ASSUME TypeOK, NEW c \in Clients, OnConfig(c)
    PROVE  Newest(c)' = Newest(c)
<1>1. /\ wire[c] \in Seq(Limits) /\ wire[c] # <<>> /\ work'[c] = work[c]
      /\ wire'[c] = Tail(wire[c]) /\ fps_limit'[c] = Head(wire[c])
  BY DEF TypeOK, OnConfig
<1>2. /\ Head(wire[c]) = wire[c][1]
      /\ Tail(wire[c]) = <<>> => Len(wire[c]) = 1
      /\ Tail(wire[c]) # <<>> => Tail(wire[c])[Len(Tail(wire[c]))] = wire[c][Len(wire[c])]
  BY <1>1, TailOfLimits
<1> QED BY <1>1, <1>2 DEF Newest

LEMMA FollowingStep ==
    ASSUME TypeOK, NEW c \in Clients, Following(c), [Next]_vars
    PROVE  Following(c)'
<1>1. stage[c] = "connected"
  BY DEF Following, Connected
<1>2. CASE Edit \/ Detect \/ ReadFile \/ ResetOption \/ LoadOption \/ UNCHANGED vars
  BY <1>2 DEF Edit, Detect, ReadFile, ResetOption, LoadOption, vars, config, links,
              Following, Connected, Newest
<1>3. CASE LoadTable
  BY <1>1, <1>3 DEF LoadTable, links, Following, Connected
<1>4. CASE Sleep
  BY <1>4 DEF Sleep, config, links, Following, Connected, Newest
<1>5. ASSUME NEW d \in Clients, Notify(d) PROVE Following(c)'
  <2>1. /\ loop_pc = "notify" /\ UNCHANGED <<loop_pc, option, stage, wire, fps_limit>>
        /\ to_notify' = to_notify \ {d}
        /\ work' = [work EXCEPT ![d] = Append(@, option)]
    BY <1>5 DEF Notify, config
  <2>2. CASE d = c
    <3>1. Newest(c)' = option
      BY <2>1, <2>2, PostedIsNewest DEF TypeOK
    <3> QED BY <1>1, <2>1, <3>1 DEF Following, Connected
  <2>3. CASE d # c
    <3>1. work'[c] = work[c]
      BY <2>1, <2>3 DEF TypeOK
    <3> QED BY <2>1, <2>3, <3>1 DEF Following, Connected, Newest
  <2> QED BY <2>2, <2>3
<1>6. ASSUME NEW d \in Clients, Attach(d) \/ ServerBus(d) \/ OnConfig(d)
      PROVE  Following(c)'
  <2>1. stage'[c] = "connected" /\ UNCHANGED <<loop_pc, option, to_notify>>
    BY <1>1, <1>6 DEF TypeOK, Attach, ServerBus, ReadOption, PostOption, SendConfig,
                      OnConfig, config
  <2>2. Newest(c)' = Newest(c)
    <3>1. CASE d = c
      <4>1. SendConfig(c) \/ OnConfig(c)
        BY <1>1, <1>6, <3>1 DEF Attach, ServerBus, ReadOption, PostOption
      <4> QED BY <4>1, SendConfigKeepsNewest, OnConfigKeepsNewest
    <3>2. CASE d # c
      <4>1. UNCHANGED <<work[c], wire[c], fps_limit[c]>>
        BY <1>6, <3>2 DEF TypeOK, Attach, ServerBus, ReadOption, PostOption,
                          SendConfig, OnConfig
      <4> QED BY <4>1 DEF Newest
    <3> QED BY <3>1, <3>2
  <2> QED BY <2>1, <2>2 DEF Following, Connected
<1> QED BY <1>2, <1>3, <1>4, <1>5, <1>6 DEF Next, Loop

(* FollowsReloads without the promise that anything arrives: from the      *)
(* first reload that finds a client connected, whenever the main loop      *)
(* rests and nothing is on its way to the client, it has the limit in      *)
(* force.  No reload is missed and none is overtaken by an older one, for  *)
(* any number of clients, edits and limits under way.                      *)
FollowsAtRest(c) ==
    [](Connected(c) /\ loop_pc = "read" =>
         [](loop_pc = "poll" /\ work[c] = <<>> /\ wire[c] = <<>>
              => fps_limit[c] = option))

(* The reload posts the limit it loaded behind all older ones, and work    *)
(* queue and bus keep the order, so that the newest is the last to arrive. *)
THEOREM FollowsAtRestCorrect ==
    ASSUME NEW CONSTANT c \in Clients
    PROVE  Spec => FollowsAtRest(c)
<1> DEFINE Begins == Connected(c) /\ loop_pc = "read"
           AtRest == loop_pc = "poll" /\ work[c] = <<>> /\ wire[c] = <<>>
                       => fps_limit[c] = option
<1>1. Begins => Following(c)
  BY DEF Following
<1>2. TypeOK /\ Following(c) /\ [Next]_vars => Following(c)'
  BY FollowingStep
<1>3. Following(c) => AtRest
  BY DEF Following, Newest
<1> QED BY TypeCorrect, <1>1, <1>2, <1>3, PTL DEF Spec, FollowsAtRest
=============================================================================
