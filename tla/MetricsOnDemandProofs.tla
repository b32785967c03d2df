----------------------- MODULE MetricsOnDemandProofs -----------------------
(***************************************************************************)
(* Theorems about MetricsOnDemand for every interval, timeout and idle     *)
(* time: a process of a command does not survive the tick after its own,   *)
(* a value stays while it is asked for, a GPU is polled while it is        *)
(* wanted, and nothing runs that nobody has asked for lately.              *)
(***************************************************************************)
EXTENDS MetricsOnDemand, TLAPS

NoJob == {"none", "no entry"}

(* No time counts against a process that does not exist, and no process    *)
(* outlasts a tick that finds its time is over.                            *)
RunTimes ==
    /\ entry.job \in NoJob => entry.ran = 0
    /\ exec \in {"pruning", "spawning"} => entry.ran < Timeout
    /\ exec \in {"sleeping", "collecting"} => entry.ran < slept + Timeout
    /\ exec = "collecting" => slept = Interval

(* get() reads the entry it looked up, or the one that was erased since.   *)
LookedUp == client = "read" => entry # NoEntry \/ orphan # NoEntry

OnDemandInv == TypeOK /\ RunTimes /\ LookedUp

LEMMA Times ==
    /\ Timeout \in Nat /\ Timeout > 0
    /\ Interval \in Nat /\ Interval > 0
    /\ StaleAfter \in Nat /\ StaleAfter > 0
    /\ Rounds \in Nat
<1>1. {Interval, Timeout, StaleAfter, Rounds} \subseteq Nat \ {0}
  BY TimesAssumption DEF TimesAssumption
<1>2. /\ Interval \in Nat \ {0} /\ Timeout \in Nat \ {0}
      /\ StaleAfter \in Nat \ {0} /\ Rounds \in Nat \ {0}
  BY <1>1, Zenon
<1> QED BY <1>2

LEMMA Ages == 0 \in Age /\ Old \in Age /\ Old \in Nat /\ \A a \in Age : Older(a) \in Age
BY Times DEF Age, Old, Older

LEMMA TheNewEntry ==
    /\ NewEntry \in Entry /\ NewEntry # NoEntry
    /\ NewEntry.job = "none" /\ NewEntry.ran = 0
    /\ NoEntry.job = "no entry" /\ NoEntry.ran = 0
<1>1. 0 \in 0 .. Timeout + Interval
  BY Times
<1>2. NewEntry \in Entry
  BY <1>1, Ages DEF NewEntry, Unasked, Entry
<1>3. NewEntry.job = "none" /\ NewEntry.ran = 0
  BY DEF NewEntry, Unasked
<1>4. NoEntry.job = "no entry" /\ NoEntry.ran = 0
  BY DEF NoEntry, NewEntry, Unasked
<1> QED BY <1>2, <1>3, <1>4

(* The fields of an entry, or of the absence of one.                       *)
LEMMA EntryFields ==
    ASSUME entry \in Entry \union {NoEntry}
    PROVE  /\ entry.age \in Age /\ entry.valid \in BOOLEAN
           /\ entry.ran \in 0 .. Timeout + Interval
           /\ entry = NoEntry <=> entry.job = "no entry"
           /\ entry.job \in {"none", "running", "succeeded", "failed", "no entry"}
<1>1. CASE entry = NoEntry
  <2>1. NoEntry = [age |-> Old, valid |-> FALSE, ran |-> 0, job |-> "no entry"]
    BY DEF NoEntry, NewEntry, Unasked
  <2>2. 0 \in 0 .. Timeout + Interval
    BY Times
  <2> QED BY <1>1, <2>1, <2>2, Ages
<1>2. CASE entry \in Entry
  <2>1. entry.job # "no entry"
    BY <1>2 DEF Entry
  <2> QED BY <1>2, <2>1, TheNewEntry DEF Entry
<1> QED BY <1>1, <1>2

LEMMA OnDemandInit == Init => OnDemandInv
<1> SUFFICES ASSUME Init PROVE OnDemandInv
  OBVIOUS
<1> USE DEF Init
<1>1. 0 \in 0 .. Rounds /\ Interval \in 0 .. Interval
  BY Times
<1>2. TypeOK
  BY <1>1, Ages DEF TypeOK
<1>3. 0 < Interval + Timeout
  BY Times
<1>4. RunTimes /\ LookedUp
  BY <1>3, TheNewEntry DEF RunTimes, LookedUp, NoJob
<1> QED BY <1>2, <1>4 DEF OnDemandInv

LEMMA OnDemandStep ==
    ASSUME OnDemandInv, [Next]_vars
    PROVE  OnDemandInv'
<1> USE DEF command, gpu
<1>1. TypeOK /\ RunTimes /\ LookedUp
  BY DEF OnDemandInv
<1>2. entry \in Entry \union {NoEntry} /\ orphan \in Entry \union {NoEntry}
  BY <1>1 DEF TypeOK
<1>3. NewEntry \in Entry /\ NewEntry.job = "none" /\ NewEntry.ran = 0 /\ NewEntry # NoEntry
  BY TheNewEntry
<1>4. Timeout \in Nat /\ Timeout > 0 /\ Interval \in Nat /\ Interval > 0 /\ 0 \in Age
      /\ (\A a \in Age : Older(a) \in Age) /\ Old \in Age
  BY Times, Ages
<1>5. CASE EditHud
  BY <1>1, <1>5 DEF EditHud, TypeOK, OnDemandInv, RunTimes, LookedUp
<1>6. CASE StartRound
  <2>1. rounds' \in 0 .. Rounds
    BY <1>1, <1>6, Times DEF StartRound, TypeOK
  <2>2. client' \in {"idle", "get", "read", "gpu"} /\ client' # "read"
    BY <1>6 DEF StartRound
  <2> QED BY <1>1, <1>6, <2>1, <2>2 DEF StartRound, TypeOK, OnDemandInv, RunTimes, LookedUp
<1>7. CASE LookUp
  <2>1. entry' \in Entry
    BY <1>2, <1>3, <1>7 DEF LookUp
  <2>2. entry'.job # "no entry" /\ entry' # NoEntry
    BY <2>1, TheNewEntry DEF Entry
  <2>3. RunTimes'
    <3>1. CASE entry = NoEntry
      <4>1. entry'.ran = 0 /\ UNCHANGED <<exec, slept>>
        BY <1>3, <1>7, <3>1 DEF LookUp
      <4>2. slept \in Nat
        BY <1>1 DEF TypeOK
      <4> QED BY <1>1, <1>4, <4>1, <4>2 DEF RunTimes
    <3>2. CASE entry # NoEntry
      BY <1>1, <1>7, <3>2 DEF LookUp, RunTimes
    <3> QED BY <3>1, <3>2
  <2>4. TypeOK'
    BY <1>1, <1>7, <2>1 DEF LookUp, TypeOK
  <2> QED BY <2>2, <2>3, <2>4 DEF OnDemandInv, LookedUp
<1>8. CASE Read
  <2>1. CASE orphan = NoEntry
    <3>1. entry \in Entry /\ entry' = [entry EXCEPT !.age = 0]
      BY <1>1, <1>2, <1>8, <2>1 DEF Read, LookedUp
    <3>2. entry' \in Entry /\ entry'.job = entry.job /\ entry'.ran = entry.ran
      BY <1>4, <3>1 DEF Entry
    <3>3. answer' \in [valid : BOOLEAN, age : Age]
      BY <1>4, <1>8, <2>1, <3>1 DEF Read, Entry
    <3>4. TypeOK'
      BY <1>1, <1>8, <3>2, <3>3 DEF Read, TypeOK
    <3> QED BY <1>1, <1>8, <3>2, <3>4 DEF Read, OnDemandInv, RunTimes, LookedUp
  <2>2. CASE orphan # NoEntry
    <3>1. orphan.valid \in BOOLEAN
      BY <1>2, <2>2 DEF Entry
    <3>2. answer' \in [valid : BOOLEAN, age : Age]
      BY <1>4, <1>8, <2>2, <3>1 DEF Read
    <3>3. TypeOK'
      BY <1>1, <1>8, <2>2, <3>2 DEF Read, TypeOK
    <3> QED BY <1>1, <1>8, <2>2, <3>3 DEF Read, OnDemandInv, RunTimes, LookedUp
  <2> QED BY <2>1, <2>2
<1>9. CASE SkipGpu
  BY <1>1, <1>9 DEF SkipGpu, TypeOK, OnDemandInv, RunTimes, LookedUp
<1>10. CASE RequestPolling
  BY <1>1, <1>4, <1>10 DEF RequestPolling, TypeOK, OnDemandInv, RunTimes, LookedUp
<1>11. CASE WakeUp
  BY <1>1, <1>11 DEF WakeUp, TypeOK, OnDemandInv, RunTimes, LookedUp
<1>12. CASE ProcessEnds
  <2>1. PICK how \in {"succeeded", "failed"} : entry' = [entry EXCEPT !.job = how]
    BY <1>12 DEF ProcessEnds
  <2>2. entry \in Entry
    BY <1>2, <1>12, TheNewEntry DEF ProcessEnds
  <2>3. entry' \in Entry /\ entry'.job = how /\ entry'.ran = entry.ran
    BY <2>1, <2>2 DEF Entry
  <2>4. entry' # NoEntry
    BY <2>3, TheNewEntry DEF Entry
  <2>5. TypeOK'
    BY <1>1, <1>12, <2>3 DEF ProcessEnds, TypeOK
  <2>6. RunTimes'
    BY <1>1, <1>12, <2>3 DEF ProcessEnds, RunTimes, NoJob
  <2> QED BY <2>4, <2>5, <2>6 DEF OnDemandInv, LookedUp
<1>13. CASE UpdateRunningJobs
  <2>1. CASE entry' = entry
    <3>1. entry.job \notin {"succeeded", "failed"} /\ (entry.job = "running" => entry.ran < Timeout)
      <4>1. entry.job \in {"running", "succeeded", "failed"} => entry \in Entry
        BY <1>2, TheNewEntry
      <4>2. ASSUME entry.job \in {"succeeded", "failed"} PROVE FALSE
        <5>1. entry'.job = "none"
          BY <1>13, <4>1, <4>2 DEF UpdateRunningJobs, Collected, Entry
        <5> QED BY <2>1, <4>2, <5>1
      <4>3. ASSUME entry.job = "running", entry.ran >= Timeout PROVE FALSE
        <5>1. entry'.job = "none"
          BY <1>13, <4>1, <4>3 DEF UpdateRunningJobs, Collected, Entry
        <5> QED BY <2>1, <4>3, <5>1
      <4>4. ~(entry.ran >= Timeout) => entry.ran < Timeout
        <5>1. entry.ran \in 0 .. Timeout + Interval
          BY <1>2, EntryFields
        <5> QED BY <1>4, <5>1
      <4> QED BY <4>2, <4>3, <4>4
    <3>2. entry.ran < Timeout
      <4>1. entry.job \in NoJob \union {"running"}
        BY <1>2, <3>1, EntryFields DEF NoJob
      <4> QED BY <1>1, <1>4, <3>1, <4>1 DEF RunTimes
    <3> QED BY <1>1, <1>13, <2>1, <3>2
            DEF UpdateRunningJobs, TypeOK, OnDemandInv, RunTimes, LookedUp
  <2>2. CASE entry' # entry
    <3>1. entry \in Entry
      BY <1>2, <1>13, <2>2, TheNewEntry DEF UpdateRunningJobs, Collected
    <3>2. entry' \in Entry /\ entry'.job = "none" /\ entry'.ran = 0
      <4>1. entry' \in {[entry EXCEPT !.job = "none", !.ran = 0, !.valid = TRUE],
                        [entry EXCEPT !.job = "none", !.ran = 0]}
        BY <1>13, <2>2 DEF UpdateRunningJobs, Collected
      <4>2. 0 \in 0 .. Timeout + Interval
        BY <1>4
      <4> QED BY <3>1, <4>1, <4>2 DEF Entry
    <3>3. entry' # NoEntry
      BY <3>2, TheNewEntry DEF Entry
    <3>4. TypeOK'
      BY <1>1, <1>13, <3>2 DEF UpdateRunningJobs, TypeOK
    <3>5. RunTimes'
      BY <1>4, <1>13, <3>2 DEF UpdateRunningJobs, RunTimes
    <3> QED BY <3>3, <3>4, <3>5 DEF OnDemandInv, LookedUp
  <2> QED BY <2>1, <2>2
<1>14. CASE RemoveStaleEntries
  <2>1. CASE Stale
    <3>1. entry' = NoEntry /\ exec' = "sleeping" /\ slept' = 0
      BY <1>14, <2>1 DEF RemoveStaleEntries
    <3>2. NoEntry.job = "no entry" /\ NoEntry.ran = 0
      BY DEF NoEntry, NewEntry, Unasked
    <3>3. TypeOK'
      <4>1. 0 \in 0 .. Interval
        BY <1>4
      <4>2. UNCHANGED <<hud, reliable, client, rounds, answer, gpu, update>>
            /\ orphan' \in {entry, orphan}
        BY <1>14 DEF RemoveStaleEntries
      <4> QED BY <1>1, <3>1, <4>1, <4>2 DEF TypeOK
    <3>4. RunTimes'
      <4>1. 0 < 0 + Timeout
        BY <1>4
      <4> QED BY <3>1, <3>2, <4>1 DEF RunTimes
    <3>5. LookedUp'
      BY <1>14, <2>1 DEF RemoveStaleEntries, LookedUp, Stale
    <3> QED BY <3>3, <3>4, <3>5 DEF OnDemandInv
  <2>2. CASE ~Stale
    <3>1. UNCHANGED <<entry, orphan>>
      BY <1>14, <2>2 DEF RemoveStaleEntries
    <3>2. TypeOK'
      <4>1. 0 \in 0 .. Interval
        BY <1>4
      <4>2. /\ UNCHANGED <<hud, reliable, client, rounds, answer, gpu, update>>
            /\ exec' \in {"sleeping", "spawning"} /\ slept' \in {0, slept}
        BY <1>14 DEF RemoveStaleEntries
      <4> QED BY <1>1, <3>1, <4>1, <4>2 DEF TypeOK
    <3>3. RunTimes'
      BY <1>1, <1>4, <1>14, <3>1 DEF RemoveStaleEntries, RunTimes
    <3> QED BY <1>1, <1>14, <3>1, <3>2, <3>3 DEF RemoveStaleEntries, OnDemandInv, LookedUp
  <2> QED BY <2>1, <2>2
<1>15. CASE Spawn
  <2>1. CASE entry' = entry
    <3>1. TypeOK'
      <4>1. 0 \in 0 .. Interval
        BY <1>4
      <4> QED BY <1>1, <1>15, <2>1, <4>1 DEF Spawn, TypeOK
    <3>2. RunTimes'
      BY <1>1, <1>4, <1>15, <2>1 DEF Spawn, RunTimes
    <3> QED BY <1>1, <1>15, <2>1, <3>1, <3>2 DEF Spawn, OnDemandInv, LookedUp
  <2>2. CASE entry.job = "none" /\ entry' = [entry EXCEPT !.job = "running"]
    <3>1. entry \in Entry
      BY <1>2, <2>2, TheNewEntry
    <3>2. entry' \in Entry /\ entry'.job = "running" /\ entry'.ran = entry.ran
      BY <2>2, <3>1 DEF Entry
    <3>3. entry' # NoEntry
      BY <3>2, TheNewEntry DEF Entry
    <3>4. TypeOK'
      <4>1. 0 \in 0 .. Interval
        BY <1>4
      <4> QED BY <1>1, <1>15, <3>2, <4>1 DEF Spawn, TypeOK
    <3>5. RunTimes'
      <4>1. entry.ran = 0 /\ 0 < 0 + Timeout
        BY <1>1, <1>4, <2>2 DEF RunTimes, NoJob
      <4>2. exec' = "sleeping" /\ slept' = 0
        BY <1>15 DEF Spawn
      <4> QED BY <3>2, <4>1, <4>2 DEF RunTimes, NoJob
    <3> QED BY <3>3, <3>4, <3>5 DEF OnDemandInv, LookedUp
  <2> QED BY <1>15, <2>1, <2>2 DEF Spawn
<1>16. CASE StopPollingIfIdle
  <2>1. stop_thread' \in BOOLEAN
    BY <1>16 DEF StopPollingIfIdle
  <2> QED BY <1>1, <1>16, <2>1
          DEF StopPollingIfIdle, TypeOK, OnDemandInv, RunTimes, LookedUp
<1>17. CASE PollReturns
  BY <1>1, <1>17 DEF PollReturns, TypeOK, OnDemandInv, RunTimes, LookedUp
<1>18. CASE Join
  BY <1>1, <1>18 DEF Join, TypeOK, OnDemandInv, RunTimes, LookedUp
<1>19. CASE Tick
  <2>1. entry.ran < slept + Timeout /\ slept < Interval /\ slept \in Nat /\ slept' = slept + 1
    BY <1>1, <1>19 DEF Tick, RunTimes, TypeOK
  <2> DEFINE r == IF entry.job = "none" THEN 0 ELSE entry.ran + 1
  <2>2. r \in 0 .. Timeout + Interval /\ r < slept' + Timeout /\ 0 < slept' + Timeout
    <3>1. entry.ran \in 0 .. Timeout + Interval
      BY <1>2, EntryFields
    <3>2. \A e, l, t, i \in Nat : e < l + t /\ l < i /\ 0 < t
              => e + 1 \in 0 .. t + i /\ 0 \in 0 .. t + i
                 /\ e + 1 < l + 1 + t /\ 0 < l + 1 + t
      OBVIOUS
    <3>3. entry.ran \in Nat
      BY <1>4, <3>1
    <3> QED BY <1>4, <2>1, <3>2, <3>3
  <2>3. entry' = IF entry = NoEntry THEN NoEntry
                 ELSE [entry EXCEPT !.age = Older(entry.age), !.ran = r]
    BY <1>19 DEF Tick
  <2>4. /\ entry' \in Entry \union {NoEntry}
        /\ entry'.ran < slept' + Timeout
        /\ entry'.job \in NoJob => entry'.ran = 0
    <3>1. CASE entry # NoEntry
      <4>1. entry \in Entry
        BY <1>2, <3>1
      <4>2. entry' = [entry EXCEPT !.age = Older(entry.age), !.ran = r]
        BY <2>3, <3>1
      <4>3. r \in 0 .. Timeout + Interval /\ Older(entry.age) \in Age
        BY <1>4, <2>2, <4>1 DEF Entry
      <4>4. entry.job = "none" => r = 0
        OBVIOUS
      <4> HIDE DEF r
      <4>5. entry' \in Entry /\ entry'.ran = r /\ entry'.job = entry.job
        BY <4>1, <4>2, <4>3 DEF Entry
      <4>6. entry.job # "no entry"
        BY <4>1 DEF Entry
      <4> QED BY <2>2, <4>4, <4>5, <4>6 DEF NoJob
    <3>2. CASE entry = NoEntry
      <4>1. entry' = NoEntry
        BY <2>3, <3>2
      <4> QED BY <2>2, <4>1, TheNewEntry
    <3> QED BY <3>1, <3>2
  <2> HIDE DEF r
  <2>5. TypeOK'
    <3>1. answer' \in [valid : BOOLEAN, age : Age] /\ requested' \in Age
      BY <1>1, <1>4, <1>19 DEF Tick, TypeOK
    <3>2. slept' \in 0 .. Interval
      BY <1>4, <2>1
    <3>3. rounds' \in 0 .. Rounds
      BY <1>19, Times DEF Tick
    <3> QED BY <1>1, <1>19, <2>4, <3>1, <3>2, <3>3 DEF Tick, TypeOK
  <2>6. RunTimes'
    <3>1. exec' = "sleeping"
      BY <1>19 DEF Tick
    <3> QED BY <2>4, <3>1 DEF RunTimes
  <2>7. LookedUp'
    BY <1>19 DEF Tick, LookedUp
  <2> QED BY <2>5, <2>6, <2>7 DEF OnDemandInv
<1>20. CASE UNCHANGED vars
  BY <1>1, <1>20 DEF vars, TypeOK, OnDemandInv, RunTimes, LookedUp
<1> QED
  BY <1>5, <1>6, <1>7, <1>8, <1>9, <1>10, <1>11, <1>12, <1>13, <1>14, <1>15,
     <1>16, <1>17, <1>18, <1>19, <1>20
  DEF Next, UpdateClient, ExecRun

(* In every state a process has run no longer than the ticks so far allow, *)
(* and a get() that goes on after the map was unlocked has an entry.       *)
THEOREM OnDemandInvariant == Spec => []OnDemandInv
BY OnDemandInit, OnDemandStep, PTL DEF Spec

(* The state keeps the types of its variables; in particular no process    *)
(* runs for longer than Timeout and one more interval.                     *)
THEOREM TypeCorrect == Spec => []TypeOK
<1>1. OnDemandInv => TypeOK
  BY DEF OnDemandInv
<1> QED BY OnDemandInvariant, <1>1, PTL
-----------------------------------------------------------------------------
(* Processes.                                                              *)

(* A process is as old as the sleep during which it was started.           *)
Killing ==
    Timeout <= Interval /\ entry.job = "running"
        => exec \in {"sleeping", "collecting"} /\ entry.ran >= slept

LEMMA KillingStep ==
    ASSUME OnDemandInv, Killing, [Next]_vars
    PROVE  Killing'
<1> SUFFICES ASSUME Timeout <= Interval, entry'.job = "running"
             PROVE  exec' \in {"sleeping", "collecting"} /\ entry'.ran >= slept'
  BY DEF Killing
<1> USE DEF command, gpu
<1>1. /\ TypeOK /\ RunTimes /\ entry \in Entry \union {NoEntry}
      /\ Timeout \in Nat /\ Interval \in Nat /\ slept \in Nat
  BY Times DEF OnDemandInv, TypeOK
<1>2. /\ entry.ran \in Nat
      /\ entry.job \in {"none", "running", "succeeded", "failed", "no entry"}
  <2>1. /\ entry.ran \in 0 .. Timeout + Interval
        /\ entry.job \in {"none", "running", "succeeded", "failed", "no entry"}
    BY <1>1, EntryFields
  <2>2. \A i, t \in Nat : \A r \in 0 .. i + t : r \in Nat
    OBVIOUS
  <2> QED BY <1>1, <2>1, <2>2
<1>3. CASE UNCHANGED <<entry, exec, slept>>
  BY <1>3 DEF Killing
<1>4. CASE LookUp
  BY <1>3, <1>4, TheNewEntry DEF LookUp
<1>5. CASE Read
  <2>1. entry' \in {entry, [entry EXCEPT !.age = 0]} /\ UNCHANGED <<exec, slept>>
    BY <1>5 DEF Read
  <2>2. entry \in Entry => entry'.job = entry.job /\ entry'.ran = entry.ran
    BY <2>1 DEF Entry
  <2>3. entry = NoEntry => UNCHANGED entry
    <3>1. CASE entry = NoEntry
      <4>1. orphan # NoEntry
        BY <1>5, <3>1 DEF Read, OnDemandInv, LookedUp
      <4> QED BY <1>5, <4>1 DEF Read
    <3> QED BY <3>1
  <2> QED BY <1>1, <1>3, <2>1, <2>2, <2>3 DEF Killing
<1>6. CASE WakeUp
  BY <1>6 DEF WakeUp, Killing
<1>7. ~ProcessEnds
  <2>1. SUFFICES ASSUME ProcessEnds PROVE FALSE
    OBVIOUS
  <2>2. entry \in Entry
    BY <1>1, <2>1, TheNewEntry DEF ProcessEnds
  <2> QED BY <2>1, <2>2 DEF ProcessEnds, Entry
<1>8. ~UpdateRunningJobs
  <2>1. SUFFICES ASSUME UpdateRunningJobs PROVE FALSE
    OBVIOUS
  <2>2. CASE entry.job = "running"
    <3>1. entry \in Entry
      BY <1>1, <2>2, TheNewEntry
    <3>2. slept = Interval /\ entry.ran >= slept
      BY <2>1, <2>2 DEF UpdateRunningJobs, OnDemandInv, RunTimes, Killing
    <3>3. entry.ran >= Timeout
      <4>1. \A r, l, i, t \in Nat : l = i /\ r >= l /\ t <= i => r >= t
        OBVIOUS
      <4> QED BY <1>1, <1>2, <3>2, <4>1
    <3>4. entry'.job = "none"
      BY <2>1, <2>2, <3>1, <3>3 DEF UpdateRunningJobs, Collected, Entry
    <3> QED BY <3>4
  <2>3. CASE entry.job # "running"
    <3>1. entry \in Entry \/ entry' = entry
      BY <1>1, <2>1, TheNewEntry DEF UpdateRunningJobs, Collected
    <3>2. entry'.job \in {"none", entry.job}
      BY <2>1, <2>3, <3>1 DEF UpdateRunningJobs, Collected, Entry
    <3> QED BY <2>3, <3>2
  <2> QED BY <2>2, <2>3
<1>9. ~RemoveStaleEntries
  <2>1. RemoveStaleEntries => exec = "pruning" /\ entry' \in {entry, NoEntry}
    BY DEF RemoveStaleEntries
  <2> QED BY <2>1, TheNewEntry DEF Killing
<1>10. CASE Spawn
  <2>1. exec' = "sleeping" /\ slept' = 0
    BY <1>10 DEF Spawn
  <2>2. entry'.ran = entry.ran
    <3>1. CASE entry' = entry
      BY <3>1
    <3>2. CASE entry.job = "none" /\ entry' = [entry EXCEPT !.job = "running"]
      <4>1. entry \in Entry
        BY <1>1, <3>2, TheNewEntry
      <4> QED BY <3>2, <4>1 DEF Entry
    <3> QED BY <1>10, <3>1, <3>2 DEF Spawn
  <2>3. \A r \in Nat : r >= 0
    OBVIOUS
  <2> QED BY <1>2, <2>1, <2>2, <2>3
<1>11. CASE Tick
  <2>1. exec' = "sleeping" /\ slept' = slept + 1
    BY <1>11 DEF Tick
  <2>2. entry # NoEntry
    BY <1>11, TheNewEntry DEF Tick
  <2>3. entry \in Entry
    BY <1>1, <2>2
  <2>4. entry'.job = entry.job
        /\ entry'.ran = IF entry.job = "none" THEN 0 ELSE entry.ran + 1
    BY <1>11, <2>2, <2>3 DEF Tick, Entry
  <2>5. entry.job = "running"
    BY <2>4
  <2>6. entry.ran >= slept
    BY <2>5 DEF Killing
  <2>7. entry'.ran = entry.ran + 1
    BY <2>4, <2>5
  <2>8. \A r, l \in Nat : r >= l => r + 1 >= l + 1
    OBVIOUS
  <2> QED BY <1>1, <1>2, <2>1, <2>6, <2>7, <2>8
<1>12. EditHud \/ StartRound \/ SkipGpu \/ RequestPolling \/ StopPollingIfIdle
       \/ PollReturns \/ Join \/ UNCHANGED vars
       => UNCHANGED <<entry, exec, slept>>
  BY DEF EditHud, StartRound, SkipGpu, RequestPolling, StopPollingIfIdle,
     PollReturns, Join, vars
<1> QED
  BY <1>3, <1>4, <1>5, <1>6, <1>7, <1>8, <1>9, <1>10, <1>11, <1>12
  DEF Next, UpdateClient, ExecRun

(* With a timeout that is not longer than the interval, as exec.h has it,  *)
(* the tick that finds a process of the one before it ends it: at most one *)
(* process of a command runs, and an entry is removed without one.         *)
THEOREM ProcessesAreKilledCorrect == Spec => []ProcessesAreKilled
<1>1. Init => Killing
  BY TheNewEntry DEF Init, Killing
<1>2. OnDemandInv /\ Killing /\ [Next]_vars => Killing'
  BY KillingStep
<1>3. OnDemandInv /\ Killing => ProcessesAreKilled
  BY DEF OnDemandInv, Killing, ProcessesAreKilled
<1> QED BY OnDemandInvariant, <1>1, <1>2, <1>3, PTL DEF Spec
-----------------------------------------------------------------------------
(* Values.                                                                 *)

(* As long as the last get() is recent, the entry is the one it saw and is *)
(* as young as its request, so that it cannot be stale.                    *)
Answered ==
    answer.age <= StaleAfter =>
        /\ entry # NoEntry /\ orphan = NoEntry
        /\ entry.age = answer.age
        /\ answer.valid => entry.valid

LEMMA AnsweredStep ==
    ASSUME OnDemandInv, Answered, [Next]_vars
    PROVE  Answered'
<1> USE DEF command, gpu
<1>1. /\ TypeOK /\ LookedUp /\ entry \in Entry \union {NoEntry}
      /\ answer \in [valid : BOOLEAN, age : Age] /\ StaleAfter \in Nat
      /\ orphan \in Entry \union {NoEntry}
  BY Times DEF OnDemandInv, TypeOK
<1>2. CASE UNCHANGED <<entry, orphan, answer>>
  BY <1>2 DEF Answered
<1>3. CASE LookUp
  BY <1>3 DEF LookUp, Answered
<1>4. CASE Read
  <2>1. CASE orphan = NoEntry
    <3>1. entry \in Entry
      BY <1>1, <1>4, <2>1 DEF Read, LookedUp
    <3>2. entry' = [entry EXCEPT !.age = 0] /\ orphan' = NoEntry
          /\ answer' = [valid |-> entry.valid, age |-> 0]
      BY <1>4, <2>1 DEF Read
    <3>3. entry'.age = 0 /\ entry'.valid = entry.valid /\ entry'.job = entry.job
      BY <3>1, <3>2 DEF Entry
    <3>4. entry' # NoEntry
      BY <3>1, <3>3, TheNewEntry DEF Entry
    <3>5. answer'.age = 0 /\ answer'.valid = entry.valid
      BY <3>2
    <3> QED BY <3>2, <3>3, <3>4, <3>5 DEF Answered
  <2>2. CASE orphan # NoEntry
    <3>1. answer'.age = Old
      BY <1>4, <2>2 DEF Read
    <3>2. ~(Old <= StaleAfter)
      BY <1>1 DEF Old
    <3> QED BY <3>1, <3>2 DEF Answered
  <2> QED BY <2>1, <2>2
<1>5. CASE ProcessEnds
  <2>1. entry \in Entry
    BY <1>1, <1>5, TheNewEntry DEF ProcessEnds
  <2>2. PICK how \in {"succeeded", "failed"} : entry' = [entry EXCEPT !.job = how]
    BY <1>5 DEF ProcessEnds
  <2>3. entry'.age = entry.age /\ entry'.valid = entry.valid /\ entry'.job = how
    BY <2>1, <2>2 DEF Entry
  <2>4. entry' # NoEntry
    BY <2>3, TheNewEntry
  <2> QED BY <1>5, <2>3, <2>4 DEF ProcessEnds, Answered
<1>6. CASE UpdateRunningJobs
  <2>1. CASE entry' = entry
    BY <1>2, <1>6, <2>1 DEF UpdateRunningJobs
  <2>2. CASE entry' # entry
    <3>1. entry \in Entry
      BY <1>1, <1>6, <2>2, TheNewEntry DEF UpdateRunningJobs, Collected
    <3>2. entry' \in {[entry EXCEPT !.job = "none", !.ran = 0, !.valid = TRUE],
                      [entry EXCEPT !.job = "none", !.ran = 0]}
      BY <1>6, <2>2 DEF UpdateRunningJobs, Collected
    <3>3. entry'.age = entry.age /\ entry'.valid \in {TRUE, entry.valid}
          /\ entry'.job = "none"
      BY <3>1, <3>2 DEF Entry
    <3>4. entry' # NoEntry
      BY <3>3, TheNewEntry
    <3>5. UNCHANGED <<orphan, answer>>
      BY <1>6 DEF UpdateRunningJobs
    <3>6. entry.valid => entry'.valid
      BY <3>3
    <3> QED BY <3>3, <3>4, <3>5, <3>6 DEF Answered
  <2> QED BY <2>1, <2>2
<1>7. CASE RemoveStaleEntries
  <2>1. CASE Stale
    <3>1. ~(answer.age <= StaleAfter)
      <4>1. entry.age > StaleAfter /\ entry.age \in Int
        BY <1>1, <2>1 DEF Stale, Entry, Age, Old
      <4> QED BY <1>1, <4>1 DEF Answered
    <3> QED BY <1>7, <3>1 DEF RemoveStaleEntries, Answered
  <2>2. CASE ~Stale
    BY <1>2, <1>7, <2>2 DEF RemoveStaleEntries
  <2> QED BY <2>1, <2>2
<1>8. CASE Spawn
  <2>1. CASE entry' = entry
    BY <1>2, <1>8, <2>1 DEF Spawn
  <2>2. CASE entry.job = "none" /\ entry' = [entry EXCEPT !.job = "running"]
    <3>1. entry \in Entry
      BY <1>1, <2>2, TheNewEntry
    <3>2. entry'.age = entry.age /\ entry'.valid = entry.valid /\ entry'.job = "running"
      BY <2>2, <3>1 DEF Entry
    <3>3. entry' # NoEntry
      BY <3>2, TheNewEntry
    <3> QED BY <1>8, <3>2, <3>3 DEF Spawn, Answered
  <2> QED BY <1>8, <2>1, <2>2 DEF Spawn
<1>9. CASE Tick
  <2>1. answer'.age = Older(answer.age) /\ answer'.valid = answer.valid
    BY <1>1, <1>9 DEF Tick
  <2>2. CASE answer.age > StaleAfter
    <3>1. answer.age = Old
      BY <1>1, <2>2 DEF Age, Old
    <3>2. answer'.age = Old
      BY <2>1, <3>1 DEF Older
    <3>3. ~(Old <= StaleAfter)
      BY <1>1 DEF Old
    <3> QED BY <3>2, <3>3 DEF Answered
  <2>3. CASE answer.age <= StaleAfter
    <3>1. entry \in Entry /\ entry # NoEntry
      BY <1>1, <2>3 DEF Answered
    <3>2. entry'.age = Older(entry.age) /\ entry'.valid = entry.valid
          /\ entry'.job = entry.job
      BY <1>9, <3>1 DEF Tick, Entry
    <3>3. entry' # NoEntry
      BY <3>1, <3>2, TheNewEntry DEF Entry
    <3>4. orphan' = orphan
      BY <1>9 DEF Tick
    <3> QED BY <2>1, <2>3, <3>2, <3>3, <3>4 DEF Answered
  <2>4. answer.age > StaleAfter \/ answer.age <= StaleAfter
    BY <1>1 DEF Age, Old
  <2> QED BY <2>2, <2>3, <2>4
<1>10. EditHud \/ StartRound \/ SkipGpu \/ RequestPolling \/ WakeUp
       \/ StopPollingIfIdle \/ PollReturns \/ Join \/ UNCHANGED vars
       => UNCHANGED <<entry, orphan, answer>>
  BY DEF EditHud, StartRound, SkipGpu, RequestPolling, WakeUp, StopPollingIfIdle,
     PollReturns, Join, vars
<1> QED
  BY <1>2, <1>3, <1>4, <1>5, <1>6, <1>7, <1>8, <1>9, <1>10
  DEF Next, UpdateClient, ExecRun

(* A value is there for every get() that follows the one before it within  *)
(* StaleAfter, whatever the runs of the command and their ticks do.        *)
THEOREM ValuesStayCorrect == Spec => ValuesStay
<1>1. Init => Answered
  <2>1. Init => answer.age = Old
    BY DEF Init
  <2>2. ~(Old <= StaleAfter)
    BY Times DEF Old
  <2> QED BY <2>1, <2>2 DEF Answered
<1>2. OnDemandInv /\ Answered /\ [Next]_vars => Answered'
  BY AnsweredStep
<1>3. Answered /\ [Next]_vars
      => [Read /\ answer.valid /\ answer.age <= StaleAfter => answer'.valid]_vars
  <2> SUFFICES ASSUME Answered, Read, answer.valid, answer.age <= StaleAfter
               PROVE  answer'.valid
    OBVIOUS
  <2>1. orphan = NoEntry /\ entry.valid
    BY DEF Answered
  <2>2. answer' = [valid |-> entry.valid, age |-> 0]
    BY <2>1 DEF Read
  <2> QED BY <2>1, <2>2
<1> QED BY OnDemandInvariant, <1>1, <1>2, <1>3, PTL DEF Spec, ValuesStay
-----------------------------------------------------------------------------
(* The GPU.                                                                *)

(* A thread is told to stop, and ends, only while Metrics::update waits    *)
(* for it with worker_mutex in its hands, which keeps requests out; and it *)
(* waits only when the last request is old.                                *)
WorkerInv ==
    /\ worker = "none" \/ update = "joining" => requested >= StaleAfter
    /\ update = "joining" => worker # "none" /\ stop_thread
    /\ worker = "ended" \/ (stop_thread /\ worker # "none") => update = "joining"

LEMMA WorkerStep ==
    ASSUME OnDemandInv, WorkerInv, [Next]_vars
    PROVE  WorkerInv'
<1> USE DEF command, gpu, WorkerInv
<1>1. /\ worker \in {"none", "polling", "ended"} /\ stop_thread \in BOOLEAN
      /\ update \in {"due", "joining", "done"} /\ requested \in Age
      /\ StaleAfter \in Nat /\ StaleAfter > 0
  BY Times DEF OnDemandInv, TypeOK
<1>2. CASE UNCHANGED <<gpu, update>>
  BY <1>2
<1>3. CASE RequestPolling
  BY <1>1, <1>3 DEF RequestPolling
<1>4. CASE StopPollingIfIdle
  <2>1. CASE Idle
    BY <1>4, <2>1 DEF StopPollingIfIdle, Idle
  <2>2. CASE ~Idle
    BY <1>4, <2>2 DEF StopPollingIfIdle
  <2> QED BY <2>1, <2>2
<1>5. CASE PollReturns
  BY <1>5 DEF PollReturns
<1>6. CASE Join
  BY <1>6 DEF Join
<1>7. CASE Tick
  <2>1. requested >= StaleAfter => Older(requested) >= StaleAfter
    BY <1>1 DEF Age, Old, Older
  <2>2. requested' = Older(requested) /\ update = "done" /\ update' = "due"
        /\ UNCHANGED <<worker, stop_thread>>
    BY <1>7 DEF Tick
  <2> QED BY <2>1, <2>2
<1>8. EditHud \/ StartRound \/ LookUp \/ Read \/ SkipGpu \/ ExecRun \/ ProcessEnds
      \/ UNCHANGED vars => UNCHANGED <<gpu, update>>
  BY DEF EditHud, StartRound, LookUp, Read, SkipGpu, ExecRun, WakeUp,
     UpdateRunningJobs, RemoveStaleEntries, Spawn, ProcessEnds, vars
<1> QED
  BY <1>2, <1>3, <1>4, <1>5, <1>6, <1>7, <1>8 DEF Next, UpdateClient

(* A GPU that was asked for less than StaleAfter ago has a polling thread  *)
(* that nobody has told to stop.                                           *)
THEOREM PolledWhileWantedCorrect == Spec => []PolledWhileWanted
<1>1. Init => WorkerInv
  BY Times DEF Init, WorkerInv, Old
<1>2. OnDemandInv /\ WorkerInv /\ [Next]_vars => WorkerInv'
  BY WorkerStep
<1>3. OnDemandInv /\ WorkerInv => PolledWhileWanted
  <2> SUFFICES ASSUME OnDemandInv, WorkerInv, requested < StaleAfter
               PROVE  worker = "polling" /\ ~stop_thread
    BY DEF PolledWhileWanted
  <2>1. /\ worker \in {"none", "polling", "ended"}
        /\ requested \in Int /\ StaleAfter \in Nat
    BY Times DEF OnDemandInv, TypeOK, Age, Old
  <2>2. ~(requested >= StaleAfter)
    BY <2>1
  <2> QED BY <2>1, <2>2 DEF WorkerInv
<1> QED BY OnDemandInvariant, <1>1, <1>2, <1>3, PTL DEF Spec

(* NothingRunsUnasked with a time for the GPU: its thread lives at most    *)
(* StaleAfter after the last request, to the half second.  It is stopped   *)
(* and joined in the first pass of Metrics::update that finds it idle, and *)
(* the thread of the HUDs cannot slip a new one in between.  The bound is  *)
(* one of this clock, which waits for the join: a poll that hangs delays   *)
(* Metrics::update itself.                                                 *)
PollersEndInTime == worker # "none" => requested <= StaleAfter

(* Once Metrics::update has passed, a thread that is left is wanted.       *)
PassedInv ==
    /\ PollersEndInTime
    /\ update = "done" /\ worker # "none" => requested < StaleAfter

LEMMA PassedStep ==
    ASSUME OnDemandInv, PassedInv, [Next]_vars
    PROVE  PassedInv'
<1> USE DEF command, gpu, PassedInv, PollersEndInTime
<1>1. requested \in Nat /\ StaleAfter \in Nat /\ StaleAfter > 0
  BY Times DEF OnDemandInv, TypeOK, Age, Old
<1>2. CASE UNCHANGED <<gpu, update>>
  BY <1>2
<1>3. CASE RequestPolling
  BY <1>1, <1>3 DEF RequestPolling
<1>4. CASE StopPollingIfIdle
  BY <1>1, <1>4 DEF StopPollingIfIdle, Idle
<1>5. CASE PollReturns
  BY <1>5 DEF PollReturns
<1>6. CASE Join
  BY <1>6 DEF Join
<1>7. CASE Tick
  <2>1. requested < StaleAfter => Older(requested) <= StaleAfter
    BY <1>1 DEF Old, Older
  <2>2. requested' = Older(requested) /\ update = "done" /\ update' = "due"
        /\ worker' = worker
    BY <1>7 DEF Tick
  <2> QED BY <2>1, <2>2
<1>8. EditHud \/ StartRound \/ LookUp \/ Read \/ SkipGpu \/ ExecRun \/ ProcessEnds
      \/ UNCHANGED vars => UNCHANGED <<gpu, update>>
  BY DEF EditHud, StartRound, LookUp, Read, SkipGpu, ExecRun, WakeUp,
     UpdateRunningJobs, RemoveStaleEntries, Spawn, ProcessEnds, vars
<1> QED
  BY <1>2, <1>3, <1>4, <1>5, <1>6, <1>7, <1>8 DEF Next, UpdateClient

(* Between the pass that finds the GPU idle and its join every request     *)
(* waits for worker_mutex, and the requests of the next pass come after.   *)
THEOREM PollersEndInTimeCorrect == Spec => []PollersEndInTime
<1>1. Init => PassedInv
  BY DEF Init, PassedInv, PollersEndInTime
<1>2. OnDemandInv /\ PassedInv /\ [Next]_vars => PassedInv'
  BY PassedStep
<1>3. PassedInv => PollersEndInTime
  BY DEF PassedInv
<1> QED BY OnDemandInvariant, <1>1, <1>2, <1>3, PTL DEF Spec
-----------------------------------------------------------------------------
(* NothingRunsUnasked for the command, by the time of its request: only a  *)
(* command that was asked for within StaleAfter is started.  Exec::run     *)
(* decides this when it prunes and starts the process two steps later, in  *)
(* which get() may date the entry and a process may end.                   *)
StartsOnlyTheAsked ==
    [][entry.job = "none" /\ entry'.job = "running" => entry.age <= StaleAfter]_vars

(* What has survived the pruning was asked for, or still runs and then is  *)
(* not started in this tick.                                               *)
Survived ==
    exec = "spawning" => entry # NoEntry /\ (entry.job # "none" \/ entry.age <= StaleAfter)

LEMMA SurvivedStep ==
    ASSUME OnDemandInv, Survived, [Next]_vars
    PROVE  Survived'
<1> USE DEF command, gpu, Survived
<1>1. /\ entry \in Entry \union {NoEntry} /\ entry.age \in Nat
      /\ StaleAfter \in Nat /\ LookedUp
  <2>1. entry \in Entry \union {NoEntry} /\ LookedUp
    BY DEF OnDemandInv, TypeOK
  <2>2. entry.age \in Age
    BY <2>1, EntryFields
  <2> QED BY <2>1, <2>2, Times DEF Age, Old
<1>2. CASE UNCHANGED <<entry, exec>>
  BY <1>2
<1>3. CASE exec' # "spawning"
  BY <1>3
<1>4. CASE LookUp
  BY <1>4, TheNewEntry DEF LookUp
<1>5. CASE Read
  <2>1. CASE orphan = NoEntry /\ exec = "spawning"
    <3>1. entry \in Entry /\ entry' = [entry EXCEPT !.age = 0]
      BY <1>1, <1>5, <2>1 DEF Read
    <3>2. entry' \in Entry /\ entry'.age = 0
      BY <3>1, Ages DEF Entry
    <3>3. entry' # NoEntry
      BY <3>2, TheNewEntry DEF Entry
    <3> QED BY <1>1, <3>2, <3>3
  <2>2. CASE orphan # NoEntry \/ exec # "spawning"
    BY <1>5, <2>2 DEF Read
  <2> QED BY <2>1, <2>2
<1>6. CASE RemoveStaleEntries
  <2>1. exec' = "spawning" => entry' = entry /\ entry # NoEntry /\ ~Stale
    BY <1>6 DEF RemoveStaleEntries
  <2> QED BY <1>1, <2>1 DEF Stale
<1>7. CASE ProcessEnds
  <2>1. entry \in Entry /\ entry.job = "running"
    BY <1>1, <1>7, TheNewEntry DEF ProcessEnds
  <2>2. entry' \in Entry /\ entry'.job # "none"
    BY <1>7, <2>1 DEF ProcessEnds, Entry
  <2>3. entry' # NoEntry
    BY <2>2, TheNewEntry DEF Entry
  <2> QED BY <2>2, <2>3
<1>8. WakeUp \/ UpdateRunningJobs \/ Spawn \/ Tick => exec' # "spawning"
  BY DEF WakeUp, UpdateRunningJobs, Spawn, Tick
<1>9. EditHud \/ StartRound \/ SkipGpu \/ RequestPolling \/ StopPollingIfIdle
      \/ PollReturns \/ Join \/ UNCHANGED vars => UNCHANGED <<entry, exec>>
  BY DEF EditHud, StartRound, SkipGpu, RequestPolling, StopPollingIfIdle,
     PollReturns, Join, vars
<1> QED
  BY <1>2, <1>3, <1>4, <1>5, <1>6, <1>7, <1>8, <1>9
  DEF Next, UpdateClient, ExecRun

(* The worker starts what survived its pruning, and an entry only gets     *)
(* younger between the two: no command is run for a HUD that left.         *)
THEOREM StartsOnlyTheAskedCorrect == Spec => StartsOnlyTheAsked
<1>1. Init => Survived
  BY DEF Init, Survived
<1>2. OnDemandInv /\ Survived /\ [Next]_vars => Survived'
  BY SurvivedStep
<1>3. OnDemandInv /\ Survived /\ [Next]_vars
      => [entry.job = "none" /\ entry'.job = "running" => entry.age <= StaleAfter]_vars
  <2> SUFFICES ASSUME OnDemandInv, Survived, Next,
                      entry.job = "none", entry'.job = "running"
               PROVE  entry.age <= StaleAfter
    OBVIOUS
  <2> USE DEF command, gpu
  <2>1. entry \in Entry
    BY TheNewEntry DEF OnDemandInv, TypeOK
  <2>2. CASE Spawn
    BY <2>2 DEF Spawn, Survived
  <2>3. ~LookUp /\ ~Read /\ ~Tick
    <3>1. LookUp => entry'.job # "running"
      BY TheNewEntry DEF LookUp
    <3>2. Read => entry'.job = entry.job
      BY <2>1 DEF Read, Entry
    <3>3. Tick => entry'.job = entry.job \/ entry'.job = "no entry"
      BY <2>1, TheNewEntry DEF Tick, Entry
    <3> QED BY <3>1, <3>2, <3>3
  <2>4. ~ProcessEnds /\ ~UpdateRunningJobs /\ ~RemoveStaleEntries
    <3>1. UpdateRunningJobs => entry'.job = "none"
      BY <2>1 DEF UpdateRunningJobs, Collected, Entry
    <3>2. RemoveStaleEntries => entry' = entry \/ entry'.job = "no entry"
      BY TheNewEntry DEF RemoveStaleEntries
    <3> QED BY <3>1, <3>2 DEF ProcessEnds
  <2>5. EditHud \/ StartRound \/ SkipGpu \/ RequestPolling \/ WakeUp
        \/ StopPollingIfIdle \/ PollReturns \/ Join => entry' = entry
    BY DEF EditHud, StartRound, SkipGpu, RequestPolling, WakeUp, StopPollingIfIdle,
       PollReturns, Join
  <2> QED BY <2>2, <2>3, <2>4, <2>5 DEF Next, UpdateClient, ExecRun
<1> QED BY OnDemandInvariant, <1>1, <1>2, <1>3, PTL DEF Spec, StartsOnlyTheAsked
=============================================================================
