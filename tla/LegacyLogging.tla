--------------------------- MODULE LegacyLogging ---------------------------
(***************************************************************************)
(* The benchmark log of the legacy overlay (src/src/logging.cpp) and the   *)
(* threads that share its Logger without a lock: the present thread, which *)
(* starts and stops logs and writes them itself when log_interval is 0,    *)
(* one detached thread per log otherwise, and hw_info_updater's thread     *)
(* (overlay.cpp), which tells the Logger that its values are valid.        *)
(*                                                                         *)
(* Logs are numbered as they start; the file and the thread of a log carry *)
(* its number.  A row of m_log_array is the number of the log whose        *)
(* m_log_start dated it.  Left out: the reload of the configuration, after *)
(* which threads use a destroyed Logger, the upload, and the undefined     *)
(* outcome of two threads inside one std::vector or std::ofstream, whose   *)
(* calls are taken as atomic.  The output folder can be written.           *)
(***************************************************************************)
EXTENDS Integers

CONSTANT MaxLogs                         \* logs started in one run

ASSUME MaxLogsAssumption == MaxLogs \in Nat \ {0}

Log == 1 .. MaxLogs
Present == 0
Thread == {Present} \union Log

(* The states of output_file besides the log whose file is open.           *)
Closed == 0
Failed == -1

VARIABLES
    params,     \* inline: log_interval is 0; timed: log_duration is not 0
    shown,      \* ~no_display
    active,     \* m_logging_on
    valid,      \* m_values_valid
    log,        \* the log at the back of m_log_files, 0 before the first
    expired,    \* log_duration has passed since m_log_start
    rows,       \* the logs that have rows in m_log_array
    stream,     \* output_file
    pc, seen,   \* of every thread: where it is, what try_log read
    hw,         \* where hw_info_updater::run is
    requested,  \* update_hw_info_thread
    clean,      \* history: logs started with no log thread, no file open
    missing,    \* history: rows of this log that its file lacks
    foreign     \* history: rows of other logs in a summary; both while clean

logger == <<active, valid, log, expired>>
updater == <<hw, requested>>
history == <<clean, missing, foreign>>
vars == <<params, shown, logger, rows, stream, pc, seen, updater, history>>

NotLogging == [log |-> 0, late |-> FALSE]

Init ==
    /\ params \in [inline : BOOLEAN, timed : BOOLEAN]
    /\ shown \in BOOLEAN
    /\ active = FALSE /\ valid = FALSE /\ log = 0 /\ expired = FALSE
    /\ rows = {} /\ stream = Closed
    /\ pc = [t \in Thread |-> IF t = Present THEN "idle" ELSE "none"]
    /\ seen = [t \in Thread |-> NotLogging]
    /\ hw = "checking" /\ requested = FALSE
    /\ clean = TRUE /\ missing = 0 /\ foreign = {}

Goto(t, l) == pc' = [pc EXCEPT ![t] = l]
Move(t, from, to) == pc[t] = from /\ Goto(t, to)

(* Where a thread goes on when try_log or stop_logging returns.            *)
Home(t) == IF t = Present THEN "idle" ELSE "loop"
LiveThreads == {t \in Log : pc[t] \notin {"none", "done"}}
-----------------------------------------------------------------------------
(* The present thread between two frames or inside one: the sampling       *)
(* period has passed or not, and keys and the control socket may ask for   *)
(* several changes in a row.                                               *)

(* Mutant: a request that is already set is not notified again.            *)
RequestOnce ==
    /\ requested' = TRUE
    /\ hw' = IF hw = "blocked" /\ ~requested THEN "checking" ELSE hw

(* hw_info_updater::update, notifying outside m_cv_hwupdate: the thread    *)
(* may be past its test and not waiting yet.                               *)
Request ==
    /\ requested' = TRUE
    /\ hw' = IF hw = "blocked" THEN "checking" ELSE hw

Sample ==
    /\ pc[Present] = "idle" /\ (shown \/ active)
    /\ hw # "updating"
    /\ Request
    /\ UNCHANGED <<params, shown, logger, rows, stream, pc, seen, history>>

ToggleHud ==
    /\ pc[Present] = "idle"
    /\ shown' = ~shown
    /\ UNCHANGED <<params, logger, rows, stream, pc, seen, updater, history>>

(* start_logging, by a key, the control socket or autostart_log.           *)
StartLogging ==
    /\ pc[Present] = "idle" /\ ~active /\ log < MaxLogs
    /\ valid' = FALSE /\ active' = TRUE
    /\ log' = log + 1 /\ expired' = FALSE
    /\ pc' = IF params.inline THEN pc ELSE [pc EXCEPT ![log + 1] = "wait"]
    /\ missing' = 0
    /\ clean' = (clean /\ LiveThreads = {} /\ stream <= 0)
    /\ UNCHANGED <<params, shown, rows, stream, seen, updater, foreign>>

ToggleStops ==
    /\ active /\ Move(Present, "idle", "close")
    /\ active' = FALSE
    /\ UNCHANGED <<params, shown, valid, log, expired, rows, stream, seen,
                   updater, history>>

(* log_duration passes.                                                    *)
Expire ==
    /\ active /\ params.timed /\ ~expired
    /\ expired' = TRUE
    /\ UNCHANGED <<params, shown, active, valid, log, rows, stream, pc, seen,
                   updater, history>>
-----------------------------------------------------------------------------
(* A log thread around try_log: Logger::logging.                           *)

WaitUntilDataValid(t) ==
    /\ valid /\ Move(t, "wait", "loop")
    /\ UNCHANGED <<params, shown, logger, rows, stream, seen, updater,
                   history>>

LeaveLoop(t) ==
    /\ ~active /\ t # Present /\ Move(t, "loop", "ending")
    /\ UNCHANGED <<params, shown, logger, rows, stream, seen, updater,
                   history>>

(* Mutant: the thread ends without clearing the rows.                      *)
EndUncleared(t) ==
    /\ Move(t, "ending", "done")
    /\ UNCHANGED <<params, shown, logger, rows, stream, seen, updater,
                   history>>

End(t) ==
    /\ Move(t, "ending", "done")
    /\ rows' = {}
    /\ UNCHANGED <<params, shown, logger, stream, seen, updater, history>>
-----------------------------------------------------------------------------
(* try_log, by the log thread or, when log_interval is 0, in every frame.  *)

TryLog(t) ==
    /\ active /\ valid
    /\ t = Present => params.inline
    /\ Move(t, Home(t), "push")
    /\ seen' = [seen EXCEPT ![t] = [log |-> log, late |-> expired]]
    /\ UNCHANGED <<params, shown, logger, rows, stream, updater, history>>

Push(t) ==
    /\ Move(t, "push", "write")
    /\ rows' = rows \union {seen[t].log}
    /\ UNCHANGED <<params, shown, logger, stream, seen, updater, history>>

(* writeToFile opens the file of the last log when the stream has failed:  *)
(* the first row of a log only makes the closed stream fail.               *)
Reopened == IF stream = Failed THEN log ELSE stream

WriteToFile(t) ==
    /\ Move(t, "write", "decide")
    /\ stream' = IF Reopened = Closed /\ rows # {} THEN Failed ELSE Reopened
    /\ missing' = IF ~clean \/ (rows # {} /\ stream' = log)
                  THEN missing ELSE missing + 1
    /\ UNCHANGED <<params, shown, logger, rows, seen, updater, clean, foreign>>

(* log_duration: the thread stops the log it writes.                       *)
Decide(t) ==
    LET stops == params.timed /\ seen[t].late /\ active
    IN  /\ Move(t, "decide", IF stops THEN "close" ELSE Home(t))
        /\ active' = (active /\ ~stops)
        /\ seen' = [seen EXCEPT ![t] = NotLogging]
        /\ UNCHANGED <<params, shown, valid, log, expired, rows, stream,
                       updater, history>>
-----------------------------------------------------------------------------
(* stop_logging, after it has cleared m_logging_on.                        *)

(* Mutant: the thread that logs is joined, which may be the caller.        *)
JoinAndClose(t) ==
    /\ Move(t, "close", "summary")
    /\ t \notin LiveThreads
    /\ stream' = IF stream = Failed THEN Failed ELSE Closed
    /\ UNCHANGED <<params, shown, logger, rows, seen, updater, history>>

(* Mutant: the file stays open.                                            *)
KeepFile(t) ==
    /\ Move(t, "close", "summary")
    /\ UNCHANGED <<params, shown, logger, rows, stream, seen, updater,
                   history>>

(* The global log_thread that stop_logging would join is never started.    *)
CloseFile(t) ==
    /\ Move(t, "close", "summary")
    /\ stream' = IF stream = Failed THEN Failed ELSE Closed
    /\ UNCHANGED <<params, shown, logger, rows, seen, updater, history>>

WriteSummary(t) ==
    /\ rows # {} /\ Move(t, "summary", "clear")
    /\ foreign' = IF clean THEN foreign \union (rows \ {log}) ELSE foreign
    /\ UNCHANGED <<params, shown, logger, rows, stream, seen, updater,
                   clean, missing>>

(* Without rows writeSummary stops the log again, which is another one     *)
(* when it is active by now; the two clears at the end are one.            *)
SkipSummary(t) ==
    /\ rows = {} /\ Move(t, "summary", IF active THEN "close" ELSE "clear")
    /\ active' = FALSE
    /\ UNCHANGED <<params, shown, valid, log, expired, rows, stream, seen,
                   updater, history>>

ClearLogData(t) ==
    /\ Move(t, "clear", Home(t))
    /\ rows' = {}
    /\ UNCHANGED <<params, shown, logger, stream, seen, updater, history>>
-----------------------------------------------------------------------------
(* hw_info_updater::run.  m_hw_updating is held while hw is "updating".    *)

HwStep(from, to) ==
    /\ hw = from /\ hw' = to
    /\ UNCHANGED <<params, shown, active, log, expired, rows, stream, pc, seen,
                   history>>

HwTests ==
    /\ HwStep("checking", IF requested THEN "updating" ELSE "blocking")
    /\ UNCHANGED <<valid, requested>>

HwBlocks == HwStep("blocking", "blocked") /\ UNCHANGED <<valid, requested>>

(* update_hw_info ends with notify_data_valid.  A request made between the *)
(* release of m_hw_updating and the end of the pass is lost as well: it is *)
(* one of those that meet the lock.                                        *)
HwUpdates ==
    /\ HwStep("updating", "checking")
    /\ valid' = TRUE /\ requested' = FALSE

Hw == HwTests \/ HwBlocks \/ HwUpdates
-----------------------------------------------------------------------------
Running(t) ==
    \/ TryLog(t) \/ Push(t) \/ WriteToFile(t) \/ Decide(t)
    \/ CloseFile(t) \/ WriteSummary(t) \/ SkipSummary(t) \/ ClearLogData(t)

Logging(t) == WaitUntilDataValid(t) \/ LeaveLoop(t) \/ End(t) \/ Running(t)

Next ==
    \/ Sample \/ ToggleHud \/ StartLogging \/ ToggleStops \/ Expire
    \/ Running(Present) \/ Hw
    \/ \E t \in Log : Logging(t)

(* The application keeps presenting, so the sampling period passes again   *)
(* and again, the threads run and time passes.  No key has to be pressed.  *)
Spec ==
    /\ Init /\ [][Next]_vars
    /\ WF_vars(Sample) /\ WF_vars(Running(Present)) /\ WF_vars(Hw)
    /\ WF_vars(Expire)
    /\ \A t \in Log : WF_vars(Logging(t))
-----------------------------------------------------------------------------
(* The type invariant.                                                     *)
TypeOK ==
    /\ params \in [inline : BOOLEAN, timed : BOOLEAN]
    /\ shown \in BOOLEAN /\ active \in BOOLEAN /\ valid \in BOOLEAN
    /\ log \in 0 .. MaxLogs /\ expired \in BOOLEAN
    /\ rows \in SUBSET Log
    /\ stream \in {Failed, Closed} \union Log
    /\ pc \in [Thread -> {"none", "idle", "wait", "loop", "ending", "done",
                          "push", "write", "decide", "close", "summary",
                          "clear"}]
    /\ seen \in [Thread -> [log : 0 .. MaxLogs, late : BOOLEAN]]
    /\ hw \in {"checking", "blocking", "blocked", "updating"}
    /\ requested \in BOOLEAN
    /\ clean \in BOOLEAN /\ missing \in 0 .. 2 /\ foreign \in SUBSET Log

(* SummaryIsOwn: as long as no log was started over the remains of another *)
(* one, a summary is made of the rows of its own log (writeSummary,        *)
(* clear_log_data), although stop_logging waits for no thread that logs.   *)
SummaryIsOwn == foreign = {}

(* RowsReachTheFile: a log written by the present thread lacks at most its *)
(* first row, in the file and under the name of that log; one written by   *)
(* its thread may lack one more, which meets stop_logging (writeToFile).   *)
(* And every state is well typed.                                          *)
RowsReachTheFile ==
    /\ TypeOK
    /\ params.inline => clean
    /\ clean => missing <= IF params.inline THEN 1 ELSE 2

(* StartedLogsGetRows: a log that stays active gets rows, in spite of      *)
(* requests and notifications that hw_info_updater misses and of a hidden  *)
(* HUD (update_hud_info, wait_until_data_valid).                           *)
StartedLogsGetRows ==
    \A l \in Log : (active /\ log = l) ~> (l \in rows \/ ~active \/ log # l)

(* DurationEnds: with log_duration set a log is ended, its rows included,  *)
(* also when the thread that writes it has to end it (try_log,             *)
(* stop_logging).                                                          *)
DurationEnds ==
    \A l \in Log : (params.timed /\ active /\ log = l)
                       ~> ((~active /\ rows = {}) \/ log # l)

=============================================================================
