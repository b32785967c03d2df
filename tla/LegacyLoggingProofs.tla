------------------------ MODULE LegacyLoggingProofs ------------------------
(***************************************************************************)
(* Theorems about LegacyLogging for any number of logs: the types, what a  *)
(* summary is made of and how many rows a file may lack.                   *)
(*                                                                         *)
(* Nothing but the order of the calls keeps the two writers of the Logger  *)
(* apart.  The inductive invariant says what that order gives: which       *)
(* threads there can be (Threads), that who ends a log meets an inactive   *)
(* one (Stopping), whose rows are in m_log_array (Rows), and how far the   *)
(* file is behind them (File).                                             *)
(***************************************************************************)
EXTENDS LegacyLogging, TLAPS

(* Where a thread is inside try_log and inside stop_logging.               *)
Rowing == {"push", "write", "decide"}
Stops == {"close", "summary", "clear"}
Places == {"none", "idle", "wait", "loop", "ending", "done"}
              \union Rowing \union Stops

(* One writer at a time: the present thread writes logs without a thread,  *)
(* and while the history is clean only the last log has a thread.          *)
Threads ==
    /\ pc[Present] \notin {"none", "wait", "loop", "ending", "done"}
    /\ \A t \in Log : pc[t] # "idle"
    /\ params.inline => LiveThreads = {}
    /\ ~params.inline => pc[Present] \notin Rowing
    /\ clean => LiveThreads \subseteq {log}

Stopping ==
    /\ active => log \in Log
    /\ pc[Present] \in Stops => ~active
    /\ clean => \A t \in Log : pc[t] \in Stops \union {"ending"} => ~active
    /\ params.inline /\ pc[Present] \in Rowing => active

Rows ==
    /\ foreign = {}
    /\ \A t \in Thread : pc[t] = "push" => seen[t].log \in Log
    /\ clean => rows \subseteq {log}
    /\ clean => \A t \in Thread : pc[t] = "push" => seen[t].log = log
    /\ ~params.inline /\ LiveThreads = {} => rows = {}
    /\ params.inline /\ pc[Present] = "idle" /\ ~active => rows = {}
    /\ clean /\ active => \A t \in Thread : pc[t] = "write" => rows # {}

(* The first row of a log is what makes its closed stream fail, and the    *)
(* next one opens the file; a row that was read before the log was stopped *)
(* may meet the closed stream again.                                       *)
File ==
    /\ params.inline => clean
    /\ clean => stream \in {Closed, Failed, log}
    /\ missing <= IF params.inline THEN 1 ELSE 2
    /\ clean /\ active => missing <= 1 /\ (stream = Closed => missing = 0)
    /\ clean => \A t \in Thread : pc[t] \in {"push", "write"} => missing <= 1
    /\ params.inline /\ pc[Present] = "idle" /\ ~active => stream <= 0
    /\ params.inline /\ pc[Present] \in {"summary", "clear"} => stream <= 0

Inv == TypeOK /\ Threads /\ Stopping /\ Rows /\ File

USE MaxLogsAssumption
-----------------------------------------------------------------------------
LEMMA ThreadFacts ==
    /\ Present \in Thread /\ Present \notin Log
    /\ \A t \in Log : t \in Thread /\ t \in Nat /\ t > 0 /\ t # Present
    /\ \A t \in Thread : t = Present \/ t \in Log
    /\ Closed \notin Log /\ Failed \notin Log /\ Closed # Failed
BY DEF Thread, Log, Present, Closed, Failed

LEMMA MoveFacts ==
    ASSUME TypeOK, NEW t \in Thread, NEW from, NEW to, Move(t, from, to)
    PROVE  /\ pc[t] = from /\ pc'[t] = to
           /\ \A u \in Thread : u # t => pc'[u] = pc[u]
BY DEF TypeOK, Move, Goto

(* Who acts inside try_log or stop_logging: the present thread of an       *)
(* inline log or of a stop, or a live thread; never both kinds write.      *)
LEMMA ActorFacts ==
    ASSUME Threads, NEW t \in Log, pc[t] \notin {"none", "done"}
    PROVE  /\ ~params.inline /\ t \in LiveThreads
           /\ pc[Present] \notin Rowing
           /\ clean => t = log /\ \A u \in Log : u # t => pc[u] \in {"none", "done"}
BY DEF Threads, LiveThreads

LEMMA InitEstablishesInv == Init => Inv
  <1> SUFFICES ASSUME Init PROVE Inv
    OBVIOUS
  <1>1. pc[Present] = "idle" /\ \A t \in Log : pc[t] = "none"
    BY ThreadFacts DEF Init
  <1>2. TypeOK
    <2>1. log \in 0 .. MaxLogs /\ missing \in 0 .. 2 /\ 0 \in 0 .. MaxLogs
      BY DEF Init
    <2>2. seen \in [Thread -> [log : 0 .. MaxLogs, late : BOOLEAN]]
      BY <2>1 DEF Init, NotLogging
    <2> QED
      BY <2>1, <2>2 DEF Init, TypeOK
  <1>3. LiveThreads = {}
    BY <1>1 DEF LiveThreads
  <1>4. Threads
    BY <1>1, <1>3 DEF Init, Threads, Rowing
  <1>5. Stopping
    BY <1>1, ThreadFacts DEF Init, Stopping, Stops, Rowing
  <1>6. Rows /\ File
    BY <1>1, ThreadFacts DEF Init, Rows, File, Closed, Failed
  <1> QED
    BY <1>2, <1>4, <1>5, <1>6 DEF Inv
-----------------------------------------------------------------------------
(* The steps that touch no thread and nothing of the log.                  *)
LEMMA QuietStepsKeepInv ==
    ASSUME Inv, TypeOK',
           UNCHANGED <<params, active, log, rows, stream, pc, seen, history>>
    PROVE  Inv'
  <1>1. LiveThreads' = LiveThreads
    BY DEF LiveThreads
  <1>2. Threads' /\ Stopping'
    BY <1>1 DEF Inv, Threads, Stopping, history
  <1>3. Rows' /\ File'
    BY <1>1 DEF Inv, Rows, File, history
  <1> QED
    BY <1>2, <1>3 DEF Inv

LEMMA SampleKeepsInv == Inv /\ Sample => Inv'
  <1> SUFFICES ASSUME Inv, Sample PROVE Inv'
    OBVIOUS
  <1>1. TypeOK'
    BY DEF Inv, TypeOK, Sample, Request, logger, history
  <1> QED
    BY <1>1, QuietStepsKeepInv DEF Sample, Request, logger

LEMMA ToggleHudKeepsInv == Inv /\ ToggleHud => Inv'
  <1> SUFFICES ASSUME Inv, ToggleHud PROVE Inv'
    OBVIOUS
  <1>1. TypeOK'
    BY DEF Inv, TypeOK, ToggleHud, logger, updater, history
  <1> QED
    BY <1>1, QuietStepsKeepInv DEF ToggleHud, logger

LEMMA ExpireKeepsInv == Inv /\ Expire => Inv'
  <1> SUFFICES ASSUME Inv, Expire PROVE Inv'
    OBVIOUS
  <1>1. TypeOK'
    BY DEF Inv, TypeOK, Expire, updater, history
  <1> QED
    BY <1>1, QuietStepsKeepInv DEF Expire

LEMMA HwKeepsInv == Inv /\ Hw => Inv'
  <1> SUFFICES ASSUME Inv, Hw PROVE Inv'
    OBVIOUS
  <1>1. TypeOK'
    BY DEF Inv, TypeOK, Hw, HwTests, HwBlocks, HwUpdates, HwStep, history
  <1> QED
    BY <1>1, QuietStepsKeepInv DEF Hw, HwTests, HwBlocks, HwUpdates, HwStep
-----------------------------------------------------------------------------
(* A log starts while the present thread is idle and no log is active.     *)
LEMMA StartLoggingKeepsInv == Inv /\ StartLogging => Inv'
  <1> SUFFICES ASSUME Inv, StartLogging PROVE Inv'
    OBVIOUS
  <1> DEFINE new == log + 1
  <1>1. /\ new \in Log /\ new # Present /\ log' = new /\ active' /\ ~active
        /\ missing' = 0 /\ pc[Present] = "idle" /\ log' \in 0 .. MaxLogs
        /\ UNCHANGED <<params, shown, rows, stream, seen, hw, requested, foreign>>
    BY DEF Inv, TypeOK, StartLogging, Log, Present, updater
  <1>2. /\ pc'[Present] = "idle" /\ \A t \in Log : t # new => pc'[t] = pc[t]
        /\ pc'[new] = IF params.inline THEN pc[new] ELSE "wait"
        /\ \A t \in Thread : pc'[t] = pc[t] \/ pc'[t] = "wait"
    BY <1>1, ThreadFacts DEF Inv, TypeOK, StartLogging
  <1>3. clean' = (clean /\ LiveThreads = {} /\ stream <= 0)
    BY DEF StartLogging
  <1>4. TypeOK'
    <2>1. missing' \in 0 .. 2 /\ clean' \in BOOLEAN
      BY <1>1, <1>3
    <2>2. pc' = IF params.inline THEN pc ELSE [pc EXCEPT ![new] = "wait"]
      BY DEF StartLogging
    <2>3. valid' \in BOOLEAN /\ active' \in BOOLEAN /\ expired' \in BOOLEAN
      BY DEF StartLogging
    <2> QED
      BY <1>1, <2>1, <2>2, <2>3 DEF Inv, TypeOK
  <1>5. clean' => clean /\ stream <= 0 /\ \A t \in Log : pc[t] \in {"none", "done"}
    BY <1>3 DEF LiveThreads
  <1>6. params.inline => LiveThreads' = LiveThreads
    BY <1>1, <1>2 DEF LiveThreads
  <1>7. ~params.inline => new \in LiveThreads'
    BY <1>1, <1>2 DEF LiveThreads
  <1>8. Threads'
    <2>1. clean' => LiveThreads' \subseteq {new}
      BY <1>2, <1>5 DEF LiveThreads
    <2> QED
      BY <1>1, <1>2, <1>6, <2>1, ThreadFacts DEF Inv, Threads, Rowing
  <1>9. Stopping'
    BY <1>1, <1>2, <1>5 DEF Stopping, Stops, Rowing
  <1>10. Rows'
    <2>1. clean' => rows = {}
      BY <1>1, <1>3 DEF Inv, Rows
    <2>2. clean' => \A t \in Thread : pc'[t] \notin {"push", "write"}
      BY <1>1, <1>2, <1>5, ThreadFacts
    <2>3. \A t \in Thread : pc'[t] = "push" => pc[t] = "push"
      BY <1>2
    <2> QED
      BY <1>1, <1>7, <2>1, <2>2, <2>3 DEF Inv, Rows
  <1>11. File'
    <2>1. params.inline => clean'
      BY <1>1, <1>3 DEF Inv, Threads, File
    <2>2. clean' => stream \in {Closed, Failed}
      <3>1. \A l \in Log : ~(l <= 0)
        BY DEF Log
      <3> QED
        BY <1>3, <3>1 DEF Inv, TypeOK
    <2> QED
      BY <1>1, <1>2, <2>1, <2>2 DEF File
  <1> QED
    BY <1>4, <1>8, <1>9, <1>10, <1>11 DEF Inv

(* A key stops the active log: the present thread goes on to close it.     *)
LEMMA ToggleStopsKeepsInv == Inv /\ ToggleStops => Inv'
  <1> SUFFICES ASSUME Inv, ToggleStops PROVE Inv'
    OBVIOUS
  <1>1. /\ ~active' /\ active' \in BOOLEAN
        /\ UNCHANGED <<params, shown, valid, log, expired, rows, stream, seen,
                       hw, requested, clean, missing, foreign>>
    BY DEF ToggleStops, updater, history
  <1>2. /\ pc[Present] = "idle" /\ pc'[Present] = "close"
        /\ \A t \in Log : pc'[t] = pc[t]
        /\ \A t \in Thread : pc'[t] \in Rowing => pc'[t] = pc[t]
    BY MoveFacts, ThreadFacts DEF Inv, ToggleStops, Rowing
  <1>3. LiveThreads' = LiveThreads
    BY <1>2 DEF LiveThreads
  <1>4. TypeOK'
    BY <1>1 DEF Inv, TypeOK, ToggleStops, Move, Goto
  <1>5. Threads' /\ Stopping'
    BY <1>1, <1>2, <1>3 DEF Inv, Threads, Stopping, Rowing
  <1>6. Rows' /\ File'
    BY <1>1, <1>2, <1>3 DEF Inv, Rows, File, Rowing
  <1> QED
    BY <1>4, <1>5, <1>6 DEF Inv
-----------------------------------------------------------------------------
(* The steps of a log thread around try_log.                               *)
LEMMA LogThreadStepsKeepInv ==
    ASSUME Inv, NEW t \in Log, WaitUntilDataValid(t) \/ LeaveLoop(t)
    PROVE  Inv'
  <1>1. UNCHANGED <<params, shown, active, valid, log, expired, rows, stream,
                    seen, hw, requested, clean, missing, foreign>>
    BY DEF WaitUntilDataValid, LeaveLoop, logger, updater, history
  <1>2. /\ pc[t] \in {"wait", "loop"}
        /\ pc'[t] = "loop" \/ (pc'[t] = "ending" /\ ~active)
        /\ \A u \in Thread : u # t => pc'[u] = pc[u]
    BY MoveFacts, ThreadFacts DEF Inv, WaitUntilDataValid, LeaveLoop
  <1>3. pc'[Present] = pc[Present] /\ LiveThreads' = LiveThreads
    BY <1>2, ThreadFacts DEF LiveThreads
  <1>4. TypeOK'
    BY <1>1, ThreadFacts
       DEF Inv, TypeOK, WaitUntilDataValid, LeaveLoop, Move, Goto
  <1>5. Threads' /\ Stopping'
    BY <1>1, <1>2, <1>3, ThreadFacts DEF Inv, Threads, Stopping, Stops
  <1>6. Rows' /\ File'
    BY <1>1, <1>2, <1>3, ThreadFacts DEF Inv, Rows, File
  <1> QED
    BY <1>4, <1>5, <1>6 DEF Inv

LEMMA EndKeepsInv ==
    ASSUME Inv, NEW t \in Log, End(t)
    PROVE  Inv'
  <1>1. /\ rows' = {}
        /\ UNCHANGED <<params, shown, active, valid, log, expired, stream,
                       seen, hw, requested, clean, missing, foreign>>
    BY DEF End, logger, updater, history
  <1>2. /\ pc[t] = "ending" /\ pc'[t] = "done"
        /\ \A u \in Thread : u # t => pc'[u] = pc[u]
    BY MoveFacts, ThreadFacts DEF Inv, End
  <1>3. pc'[Present] = pc[Present] /\ LiveThreads' \subseteq LiveThreads
    BY <1>2, ThreadFacts DEF LiveThreads
  <1>4. TypeOK'
    BY <1>1, ThreadFacts DEF Inv, TypeOK, End, Move, Goto
  <1>5. Threads' /\ Stopping'
    BY <1>1, <1>2, <1>3, ThreadFacts DEF Inv, Threads, Stopping, Stops
  <1>6. clean => ~active
    BY <1>2 DEF Inv, Stopping
  <1>7. Rows' /\ File'
    BY <1>1, <1>2, <1>3, <1>6, ThreadFacts DEF Inv, Rows, File
  <1> QED
    BY <1>4, <1>5, <1>7 DEF Inv
-----------------------------------------------------------------------------
(* try_log and stop_logging.  A thread of its own stays alive on its way   *)
(* through them, the present thread comes home to "idle".                  *)
InTryLog(l) == l \in {"idle", "loop"} \union Rowing \union Stops

LEMMA RunningFacts ==
    ASSUME Inv, NEW t \in Thread, NEW from, NEW to, Move(t, from, to),
           InTryLog(from), InTryLog(to),
           t = Present => from # "loop" /\ to # "loop",
           t \in Log => from # "idle" /\ to # "idle",
           t = Present => params.inline \/ {from, to} \cap Rowing = {},
           params' = params
    PROVE  /\ pc[t] = from /\ pc'[t] = to
           /\ \A u \in Thread : u # t => pc'[u] = pc[u]
           /\ pc' \in [Thread -> Places]
           /\ LiveThreads' = LiveThreads
           /\ t \in Log => ~params.inline /\ pc'[Present] = pc[Present]
                           /\ pc[Present] \notin Rowing
           /\ t \in Log /\ clean => t = log
           /\ (clean' => clean) /\ log' = log => Threads'
  <1>1. /\ pc[t] = from /\ pc'[t] = to
        /\ \A u \in Thread : u # t => pc'[u] = pc[u]
    BY MoveFacts DEF Inv
  <1>2. pc' \in [Thread -> Places]
    BY DEF Inv, TypeOK, Move, Goto, InTryLog, Places, Rowing, Stops
  <1>3. LiveThreads' = LiveThreads
    BY <1>1, ThreadFacts DEF LiveThreads, InTryLog, Rowing, Stops
  <1>4. t \in Log => /\ ~params.inline /\ pc'[Present] = pc[Present]
                     /\ pc[Present] \notin Rowing /\ (clean => t = log)
    BY <1>1, ActorFacts, ThreadFacts DEF Inv, InTryLog, Rowing, Stops
  <1>5. (clean' => clean) /\ log' = log => Threads'
    <2>1. \A u \in Log : pc'[u] # "idle"
      BY <1>1, ThreadFacts DEF Inv, Threads
    <2>2. pc'[Present] \notin {"none", "wait", "loop", "ending", "done"}
      BY <1>1, <1>4, ThreadFacts DEF Inv, Threads, InTryLog, Rowing, Stops
    <2>3. ~params.inline => pc'[Present] \notin Rowing
      BY <1>1, <1>4, ThreadFacts DEF Inv, Threads
    <2> QED
      BY <1>3, <2>1, <2>2, <2>3 DEF Inv, Threads
  <1> QED
    BY <1>1, <1>2, <1>3, <1>4, <1>5

LEMMA HomeFacts ==
    ASSUME NEW t \in Thread
    PROVE  /\ InTryLog(Home(t)) /\ Home(t) \notin Rowing \union Stops
           /\ t = Present => Home(t) = "idle"
           /\ t \in Log => Home(t) = "loop"
BY ThreadFacts DEF Home, InTryLog, Rowing, Stops

LEMMA TryLogKeepsInv ==
    ASSUME Inv, NEW t \in Thread, TryLog(t)
    PROVE  Inv'
  <1>1. /\ active /\ seen' = [seen EXCEPT ![t] = [log |-> log, late |-> expired]]
        /\ UNCHANGED <<params, shown, active, valid, log, expired, rows, stream,
                       hw, requested, clean, missing, foreign>>
    BY DEF TryLog, logger, updater, history
  <1>2. /\ pc[t] = Home(t) /\ pc'[t] = "push" /\ LiveThreads' = LiveThreads
        /\ \A u \in Thread : u # t => pc'[u] = pc[u]
        /\ pc' \in [Thread -> Places]
        /\ t \in Log => ~params.inline /\ pc'[Present] = pc[Present]
        /\ Threads'
    BY <1>1, HomeFacts, RunningFacts DEF TryLog, InTryLog, Rowing
  <1>3. log \in Log
    BY <1>1 DEF Inv, Stopping
  <1>4. /\ seen'[t].log = log
        /\ \A u \in Thread : u # t => seen'[u] = seen[u]
        /\ seen' \in [Thread -> [log : 0 .. MaxLogs, late : BOOLEAN]]
    BY <1>1 DEF Inv, TypeOK
  <1>5. TypeOK'
    BY <1>1, <1>2, <1>4 DEF Inv, TypeOK, Places, Rowing, Stops
  <1>6. Stopping'
    BY <1>1, <1>2, <1>3, ThreadFacts DEF Inv, Stopping, Stops, Rowing
  <1>7. Rows'
    BY <1>1, <1>2, <1>3, <1>4, ThreadFacts DEF Inv, Rows
  <1>8. File'
    BY <1>1, <1>2, ThreadFacts DEF Inv, File
  <1> QED
    BY <1>2, <1>5, <1>6, <1>7, <1>8 DEF Inv

LEMMA PushKeepsInv ==
    ASSUME Inv, NEW t \in Thread, Push(t)
    PROVE  Inv'
  <1>1. /\ rows' = rows \union {seen[t].log}
        /\ UNCHANGED <<params, shown, active, valid, log, expired, stream, seen,
                       hw, requested, clean, missing, foreign>>
    BY DEF Push, logger, updater, history
  <1>2. pc[t] = "push" /\ (t = Present => params.inline)
    BY MoveFacts DEF Push, Inv, Threads, Rowing
  <1>3. /\ pc'[t] = "write" /\ LiveThreads' = LiveThreads
        /\ \A u \in Thread : u # t => pc'[u] = pc[u]
        /\ pc' \in [Thread -> Places]
        /\ t \in Log => ~params.inline /\ pc'[Present] = pc[Present]
                        /\ t \in LiveThreads'
        /\ Threads'
    BY <1>1, <1>2, RunningFacts DEF Push, InTryLog, Rowing, LiveThreads
  <1>4. seen[t].log \in Log /\ (clean => seen[t].log = log)
    BY <1>2 DEF Inv, Rows
  <1>5. TypeOK'
    BY <1>1, <1>3, <1>4 DEF Inv, TypeOK, Places, Rowing, Stops
  <1>6. Stopping'
    BY <1>1, <1>2, <1>3, ThreadFacts DEF Inv, Stopping, Stops, Rowing
  <1>7. Rows'
    BY <1>1, <1>2, <1>3, <1>4, ThreadFacts DEF Inv, Rows
  <1>8. File'
    BY <1>1, <1>2, <1>3, ThreadFacts DEF Inv, File
  <1> QED
    BY <1>3, <1>5, <1>6, <1>7, <1>8 DEF Inv

(* The only step that may leave a row out of the file.                     *)
LEMMA WriteToFileKeepsInv ==
    ASSUME Inv, NEW t \in Thread, WriteToFile(t)
    PROVE  Inv'
  <1>1. /\ stream' = IF Reopened = Closed /\ rows # {} THEN Failed ELSE Reopened
        /\ missing' = IF ~clean \/ (rows # {} /\ stream' = log)
                      THEN missing ELSE missing + 1
        /\ UNCHANGED <<params, shown, active, valid, log, expired, rows, seen,
                       hw, requested, clean, foreign>>
    BY DEF WriteToFile, logger, updater
  <1>2. pc[t] = "write" /\ (t = Present => params.inline)
    BY MoveFacts DEF WriteToFile, Inv, Threads, Rowing
  <1>3. /\ pc'[t] = "decide" /\ LiveThreads' = LiveThreads
        /\ \A u \in Thread : u # t => pc'[u] = pc[u]
        /\ pc' \in [Thread -> Places]
        /\ t \in Log => ~params.inline /\ pc'[Present] = pc[Present]
                        /\ pc[Present] \notin Rowing
        /\ t \in Log /\ clean => t = log
        /\ Threads'
    BY <1>1, <1>2, RunningFacts DEF WriteToFile, InTryLog, Rowing
  <1>4. /\ missing \in Nat /\ (clean => missing <= 1)
        /\ params.inline => clean /\ active
        /\ clean /\ active => rows # {} /\ (stream = Closed => missing = 0)
        /\ clean => stream \in {Closed, Failed, log}
        /\ active => log \in Log
    <2>1. missing \in Nat /\ (clean => missing <= 1)
      BY <1>2 DEF Inv, TypeOK, File
    <2>2. params.inline => clean /\ active
      BY <1>2, <1>3, ThreadFacts DEF Inv, Stopping, File, Rowing
    <2>3. clean /\ active => rows # {} /\ (stream = Closed => missing = 0)
      BY <1>2 DEF Inv, Rows, File
    <2> QED
      BY <2>1, <2>2, <2>3 DEF Inv, Stopping, File
  <1>5. /\ stream' \in {Closed, Failed} \union Log
        /\ clean => stream' \in {Closed, Failed, log}
    BY <1>1, <1>4 DEF Reopened, Inv, TypeOK, Log, Closed, Failed
  <1>6. missing' \in Nat /\ missing' <= 2 /\ (clean' /\ active' => missing' <= 1)
        /\ (clean' /\ active' => stream' # Closed)
    <2>1. missing <= 2 /\ (~clean => missing' = missing)
      BY <1>1, <1>4 DEF Inv, TypeOK
    <2>2. clean => missing' = missing \/ missing' = missing + 1
      BY <1>1
    <2>3. clean /\ active => /\ log \in Log /\ rows # {}
                             /\ stream = Closed => missing = 0
                             /\ stream' = IF stream = Closed THEN Failed ELSE log
      BY <1>1, <1>4, ThreadFacts DEF Reopened
    <2>4. clean /\ active => missing' <= 1 /\ stream' # Closed
      <3>1. CASE clean /\ active /\ stream = Closed
        BY <1>4, <2>2, <2>3, <3>1, ThreadFacts
      <3>2. CASE clean /\ active /\ stream # Closed
        BY <1>1, <1>4, <2>3, <3>2, ThreadFacts
      <3> QED
        BY <3>1, <3>2
    <2> QED
      BY <1>1, <1>4, <2>1, <2>2, <2>4
  <1>7. clean' => \A u \in Thread : pc'[u] \notin {"push", "write"}
    <2> SUFFICES ASSUME clean, NEW u \in Thread, u # t
                 PROVE  pc[u] \notin {"push", "write"}
      BY <1>1, <1>3
    <2>1. CASE t = Present
      BY <1>2, <2>1, ThreadFacts DEF Inv, Threads, LiveThreads
    <2>2. CASE t \in Log
      BY <1>3, <2>2, ThreadFacts DEF Inv, Threads, LiveThreads, Rowing
    <2> QED
      BY <2>1, <2>2, ThreadFacts
  <1>8. TypeOK'
    BY <1>1, <1>3, <1>5, <1>6 DEF Inv, TypeOK, Places, Rowing, Stops
  <1>9. Stopping'
    BY <1>1, <1>2, <1>3, ThreadFacts DEF Inv, Stopping, Stops, Rowing
  <1>10. Rows'
    BY <1>1, <1>3, <1>7, ThreadFacts DEF Inv, Rows
  <1>11. File'
    BY <1>1, <1>3, <1>4, <1>5, <1>6, <1>7, ThreadFacts DEF File, Rowing
  <1> QED
    BY <1>3, <1>8, <1>9, <1>10, <1>11 DEF Inv

(* A thread ends the log it writes, or goes home while the log stays.      *)
LEMMA DecideKeepsInv ==
    ASSUME Inv, NEW t \in Thread, Decide(t)
    PROVE  Inv'
  <1> DEFINE stops == params.timed /\ seen[t].late /\ active
  <1>1. /\ active' = (active /\ ~stops)
        /\ seen' = [seen EXCEPT ![t] = NotLogging]
        /\ UNCHANGED <<params, shown, valid, log, expired, rows, stream, hw,
                       requested, clean, missing, foreign>>
    BY DEF Decide, updater, history
  <1>2. pc[t] = "decide" /\ (t = Present => params.inline)
    BY MoveFacts DEF Decide, Inv, Threads, Rowing
  <1> DEFINE to == IF stops THEN "close" ELSE Home(t)
  <1>3. /\ InTryLog(to) /\ to \notin Rowing /\ Move(t, "decide", to)
        /\ t = Present => to \in {"close", "idle"}
        /\ t \in Log => to \in {"close", "loop"}
    BY HomeFacts, ThreadFacts DEF Decide, InTryLog, Stops, Rowing
  <1>4. /\ pc'[t] = to /\ LiveThreads' = LiveThreads
        /\ \A u \in Thread : u # t => pc'[u] = pc[u]
        /\ pc' \in [Thread -> Places]
        /\ t \in Log => ~params.inline /\ pc'[Present] = pc[Present]
        /\ Threads'
    BY <1>1, <1>2, <1>3, RunningFacts DEF InTryLog, Rowing
  <1>5. /\ \A u \in Thread : u # t => seen'[u] = seen[u]
        /\ seen' \in [Thread -> [log : 0 .. MaxLogs, late : BOOLEAN]]
    <2>1. NotLogging \in [log : 0 .. MaxLogs, late : BOOLEAN]
      BY DEF NotLogging
    <2> QED
      BY <1>1, <2>1 DEF Inv, TypeOK
  <1>6. active' \in BOOLEAN /\ (active' => active)
        /\ (to = "close" => ~active')
        /\ (t = Present => active /\ (to = "idle" => active'))
    <2>1. t = Present => active
      BY <1>2 DEF Inv, Stopping, Rowing
    <2>2. to = "close" => stops
      BY HomeFacts DEF Stops
    <2> QED
      BY <1>1, <2>1, <2>2 DEF Inv, TypeOK
  <1>7. TypeOK'
    BY <1>1, <1>4, <1>5, <1>6 DEF Inv, TypeOK, Places, Rowing, Stops
  <1>8. Stopping'
    BY <1>1, <1>2, <1>3, <1>4, <1>6, ThreadFacts
       DEF Inv, Stopping, Stops, Rowing
  <1>9. Rows'
    <2>1. \A u \in Thread : pc'[u] \in {"push", "write"} =>
                                u # t /\ pc[u] = pc'[u] /\ seen'[u] = seen[u]
      BY <1>3, <1>4, <1>5 DEF Rowing
    <2> QED
      BY <1>1, <1>3, <1>4, <1>6, <2>1, ThreadFacts DEF Inv, Rows
  <1>10. File'
    BY <1>1, <1>3, <1>4, <1>6, ThreadFacts DEF Inv, File, Rowing
  <1> QED
    BY <1>4, <1>7, <1>8, <1>9, <1>10 DEF Inv
-----------------------------------------------------------------------------
(* What the four steps of stop_logging share.                              *)
LEMMA StoppingFacts ==
    ASSUME Inv, NEW t \in Thread, NEW from \in Stops, NEW to, pc[t] = from,
           Move(t, from, to), to \in Stops \/ to = Home(t),
           UNCHANGED <<params, log, clean>>
    PROVE  /\ pc'[t] = to /\ LiveThreads' = LiveThreads
           /\ \A u \in Thread : u # t => pc'[u] = pc[u]
           /\ pc' \in [Thread -> Places]
           /\ t \in Log => ~params.inline /\ pc'[Present] = pc[Present]
           /\ t = Present \/ clean => ~active
           /\ \A u \in Thread : pc'[u] \in Rowing => u # t /\ pc'[u] = pc[u]
           /\ t \in Log => pc'[t] # "idle" /\ t \in LiveThreads
           /\ Threads'
  <1>1. /\ InTryLog(from) /\ InTryLog(to) /\ from # "idle" /\ from # "loop"
        /\ t = Present => to # "loop"
        /\ t \in Log => to # "idle"
        /\ from \notin Rowing /\ to \notin Rowing
    BY HomeFacts DEF InTryLog, Rowing, Stops
  <1>2. /\ pc'[t] = to /\ LiveThreads' = LiveThreads
        /\ \A u \in Thread : u # t => pc'[u] = pc[u]
        /\ pc' \in [Thread -> Places]
        /\ t \in Log => ~params.inline /\ pc'[Present] = pc[Present]
        /\ Threads'
    BY <1>1, RunningFacts
  <1>3. t = Present \/ clean => ~active
    BY ThreadFacts DEF Inv, Stopping
  <1>4. \A u \in Thread : pc'[u] \in Rowing => u # t /\ pc'[u] = pc[u]
    BY <1>1, <1>2
  <1>5. t \in Log => pc'[t] # "idle" /\ t \in LiveThreads
    BY <1>1, <1>2 DEF LiveThreads, Stops
  <1> QED
    BY <1>2, <1>3, <1>4, <1>5

LEMMA CloseFileKeepsInv ==
    ASSUME Inv, NEW t \in Thread, CloseFile(t)
    PROVE  Inv'
  <1>1. /\ stream' = IF stream = Failed THEN Failed ELSE Closed
        /\ UNCHANGED <<params, shown, active, valid, log, expired, rows, seen,
                       hw, requested, clean, missing, foreign>>
    BY DEF CloseFile, logger, updater, history
  <1>2. pc[t] = "close"
    BY MoveFacts DEF CloseFile, Inv
  <1>3. /\ pc'[t] = "summary" /\ LiveThreads' = LiveThreads
        /\ \A u \in Thread : u # t => pc'[u] = pc[u]
        /\ pc' \in [Thread -> Places]
        /\ t \in Log => ~params.inline /\ pc'[Present] = pc[Present]
        /\ t = Present \/ clean => ~active
        /\ \A u \in Thread : pc'[u] \in Rowing => u # t /\ pc'[u] = pc[u]
        /\ Threads'
    BY <1>1, <1>2, StoppingFacts DEF CloseFile, Stops
  <1>4. stream' \in {Closed, Failed} /\ stream' <= 0
    BY <1>1 DEF Closed, Failed
  <1>5. TypeOK'
    BY <1>1, <1>3, <1>4 DEF Inv, TypeOK, Places, Rowing, Stops
  <1>6. Stopping'
    BY <1>1, <1>2, <1>3, ThreadFacts DEF Inv, Stopping, Stops, Rowing
  <1>7. Rows'
    BY <1>1, <1>3, ThreadFacts DEF Inv, Rows, Rowing
  <1>8. File'
    BY <1>1, <1>3, <1>4, ThreadFacts DEF Inv, File, Rowing
  <1> QED
    BY <1>3, <1>5, <1>6, <1>7, <1>8 DEF Inv

LEMMA WriteSummaryKeepsInv ==
    ASSUME Inv, NEW t \in Thread, WriteSummary(t)
    PROVE  Inv'
  <1>1. /\ foreign' = IF clean THEN foreign \union (rows \ {log}) ELSE foreign
        /\ UNCHANGED <<params, shown, active, valid, log, expired, rows, stream,
                       seen, hw, requested, clean, missing>>
    BY DEF WriteSummary, logger, updater
  <1>2. pc[t] = "summary"
    BY MoveFacts DEF WriteSummary, Inv
  <1>3. /\ pc'[t] = "clear" /\ LiveThreads' = LiveThreads
        /\ \A u \in Thread : u # t => pc'[u] = pc[u]
        /\ pc' \in [Thread -> Places]
        /\ t \in Log => ~params.inline /\ pc'[Present] = pc[Present]
        /\ \A u \in Thread : pc'[u] \in Rowing => u # t /\ pc'[u] = pc[u]
        /\ Threads'
    BY <1>1, <1>2, StoppingFacts DEF WriteSummary, Stops
  <1>4. foreign' = {}
    BY <1>1 DEF Inv, Rows
  <1>5. TypeOK'
    BY <1>1, <1>3, <1>4 DEF Inv, TypeOK, Places, Rowing, Stops
  <1>6. Stopping'
    BY <1>1, <1>2, <1>3, ThreadFacts DEF Inv, Stopping, Stops, Rowing
  <1>7. Rows'
    BY <1>1, <1>3, <1>4, ThreadFacts DEF Inv, Rows, Rowing
  <1>8. File'
    BY <1>1, <1>2, <1>3, ThreadFacts DEF Inv, File, Rowing
  <1> QED
    BY <1>3, <1>5, <1>6, <1>7, <1>8 DEF Inv

LEMMA SkipSummaryKeepsInv ==
    ASSUME Inv, NEW t \in Thread, SkipSummary(t)
    PROVE  Inv'
  <1> DEFINE to == IF active THEN "close" ELSE "clear"
  <1>1. /\ ~active' /\ active' \in BOOLEAN
        /\ UNCHANGED <<params, shown, valid, log, expired, rows, stream, seen,
                       hw, requested, clean, missing, foreign>>
    BY DEF SkipSummary, updater, history
  <1>2. pc[t] = "summary" /\ to \in Stops /\ Move(t, "summary", to)
    BY MoveFacts DEF SkipSummary, Inv, Stops
  <1>3. /\ pc'[t] = to /\ LiveThreads' = LiveThreads
        /\ \A u \in Thread : u # t => pc'[u] = pc[u]
        /\ pc' \in [Thread -> Places]
        /\ t \in Log => ~params.inline /\ pc'[Present] = pc[Present]
        /\ \A u \in Thread : pc'[u] \in Rowing => u # t /\ pc'[u] = pc[u]
        /\ Threads'
    BY <1>1, <1>2, StoppingFacts DEF Stops
  <1>4. TypeOK'
    BY <1>1, <1>3 DEF Inv, TypeOK, Places, Rowing, Stops
  <1>5. params.inline => t = Present
    BY <1>3, ThreadFacts
  <1>6. Stopping'
    BY <1>1, <1>3, <1>5, ThreadFacts DEF Inv, Stopping
  <1>7. Rows'
    BY <1>1, <1>2, <1>3, <1>5, ThreadFacts DEF Inv, Rows, Rowing, Stops
  <1>8. File'
    BY <1>1, <1>2, <1>3, <1>5, ThreadFacts DEF Inv, File, Rowing, Stops
  <1> QED
    BY <1>3, <1>4, <1>6, <1>7, <1>8 DEF Inv

LEMMA ClearLogDataKeepsInv ==
    ASSUME Inv, NEW t \in Thread, ClearLogData(t)
    PROVE  Inv'
  <1>1. /\ rows' = {}
        /\ UNCHANGED <<params, shown, active, valid, log, expired, stream, seen,
                       hw, requested, clean, missing, foreign>>
    BY DEF ClearLogData, logger, updater, history
  <1>2. pc[t] = "clear"
    BY MoveFacts DEF ClearLogData, Inv
  <1>3. /\ pc'[t] = Home(t) /\ LiveThreads' = LiveThreads
        /\ \A u \in Thread : u # t => pc'[u] = pc[u]
        /\ pc' \in [Thread -> Places]
        /\ t \in Log => ~params.inline /\ pc'[Present] = pc[Present]
        /\ t = Present \/ clean => ~active
        /\ \A u \in Thread : pc'[u] \in Rowing => u # t /\ pc'[u] = pc[u]
        /\ Threads'
    BY <1>1, <1>2, StoppingFacts DEF ClearLogData, Stops
  <1>4. TypeOK'
    BY <1>1, <1>3 DEF Inv, TypeOK, Places, Rowing, Stops
  <1>5. Stopping'
    BY <1>1, <1>3, HomeFacts, ThreadFacts DEF Inv, Stopping, Stops, Rowing, Home
  <1>6. Rows'
    BY <1>1, <1>3, ThreadFacts DEF Inv, Rows, Rowing
  <1>7. File'
    BY <1>1, <1>2, <1>3, ThreadFacts DEF Inv, File, Rowing, Home
  <1> QED
    BY <1>3, <1>4, <1>5, <1>6, <1>7 DEF Inv
-----------------------------------------------------------------------------
LEMMA RunningKeepsInv ==
    ASSUME Inv, NEW t \in Thread, Running(t)
    PROVE  Inv'
BY TryLogKeepsInv, PushKeepsInv, WriteToFileKeepsInv, DecideKeepsInv,
   CloseFileKeepsInv, WriteSummaryKeepsInv, SkipSummaryKeepsInv,
   ClearLogDataKeepsInv DEF Running

LEMMA NextKeepsInv == Inv /\ [Next]_vars => Inv'
  <1> SUFFICES ASSUME Inv, [Next]_vars PROVE Inv'
    OBVIOUS
  <1>1. CASE Sample \/ ToggleHud \/ Expire \/ Hw
    BY <1>1, SampleKeepsInv, ToggleHudKeepsInv, ExpireKeepsInv, HwKeepsInv
  <1>2. CASE StartLogging \/ ToggleStops
    BY <1>2, StartLoggingKeepsInv, ToggleStopsKeepsInv
  <1>3. CASE Running(Present)
    BY <1>3, ThreadFacts, RunningKeepsInv
  <1>4. CASE \E t \in Log : Logging(t)
    BY <1>4, ThreadFacts, LogThreadStepsKeepInv, EndKeepsInv, RunningKeepsInv
       DEF Logging
  <1>5. CASE UNCHANGED vars
    <2>1. TypeOK'
      BY <1>5 DEF vars, logger, updater, history, Inv, TypeOK
    <2> QED
      BY <1>5, <2>1, QuietStepsKeepInv DEF vars, logger
  <1> QED
    BY <1>1, <1>2, <1>3, <1>4, <1>5 DEF Next

LEMMA InvariantHolds == Spec => []Inv
  BY InitEstablishesInv, NextKeepsInv, PTL DEF Spec

(* Every reachable state of the Logger, its threads and hw_info_updater is *)
(* well typed; in particular a file belongs to a log that was started, and *)
(* a log never lacks more than two rows while the history is clean.        *)
THEOREM TypeCorrect == Spec => []TypeOK
  <1>1. Inv => TypeOK
    BY DEF Inv
  <1> QED
    BY <1>1, InvariantHolds, PTL

(* For any number of logs, whoever writes and ends them: unless a log was  *)
(* started while the thread of an earlier one still ran or its file was    *)
(* still open, a summary has the rows of its own log only, because the     *)
(* thread of a log clears the rows before it ends.                         *)
THEOREM SummaryIsOwnCorrect == Spec => []SummaryIsOwn
  <1>1. Inv => SummaryIsOwn
    BY DEF Inv, Rows, SummaryIsOwn
  <1> QED
    BY <1>1, InvariantHolds, PTL

(* For any number of logs: one that the present thread writes is never     *)
(* started over the remains of another, and its file lacks at most the row *)
(* that met the closed stream; one that its thread writes may lack one     *)
(* more, the row that met the stream closed by stop_logging.               *)
THEOREM RowsReachTheFileCorrect == Spec => []RowsReachTheFile
  <1>1. Inv => RowsReachTheFile
    BY DEF Inv, TypeOK, File, RowsReachTheFile
  <1> QED
    BY <1>1, InvariantHolds, PTL
=============================================================================
