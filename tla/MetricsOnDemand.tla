-------------------------- MODULE MetricsOnDemand --------------------------
(***************************************************************************)
(* The measurements the server of mangohud-next makes only while a HUD     *)
(* asks for them: the output of a shell command (server/metrics/exec.cpp)  *)
(* and the samples of a GPU (server/metrics/gpu/gpu.cpp), asked for by the *)
(* thread Metrics::update_client (server/metrics/metrics.cpp).  Exec::run  *)
(* starts, collects and forgets commands; Metrics::update stops the thread *)
(* of a GPU that nobody has asked for.                                     *)
(*                                                                         *)
(* Commands share nothing but the thread and the map's mutex, and so do    *)
(* GPUs: one of each stands for all.  A process and its pipes are whether  *)
(* it runs or how it ended.  Time passes in units of half a second, the    *)
(* period of Metrics::update; whatever is due happens before it passes.    *)
(* Left out: the values a GPU thread publishes, a failure of waitpid for   *)
(* the own child, and the end of the server.                               *)
(***************************************************************************)
EXTENDS Integers

CONSTANTS
    Interval,    \* Exec::interval
    Timeout,     \* Exec::timeout, rounded up to a unit
    StaleAfter,  \* Exec::stale_after and the idle time of a GPU
    Rounds       \* bound: rounds of update_client in one unit, of over 70

ASSUME TimesAssumption ==
    {Interval, Timeout, StaleAfter, Rounds} \subseteq Nat \ {0}

VARIABLES
    hud,       \* what the loaded HUD shows
    reliable,  \* the command can be started, ends in time and succeeds
    client,    \* where update_client is
    rounds,    \* its rounds in this unit
    entry,     \* the command's entry in Exec::entries, or NoEntry
    orphan,    \* the entry get() found and Exec::run has erased since
    exec,      \* where Exec::run is
    slept,     \* units of its sleep
    answer,    \* history: whether the last get() had a value, and the age of
               \* its request, Old when it found an erased entry
    worker,    \* GPU::worker_thread: "none" when it cannot be joined
    stop_thread,
    requested, \* the age of last_poll_request
    update     \* where Metrics::update is

command == <<entry, orphan, exec, slept>>
gpu == <<worker, stop_thread, requested>>
vars == <<hud, reliable, client, rounds, command, answer, gpu, update>>

Old == StaleAfter + 1                   \* every age above StaleAfter
Age == 0 .. Old
Older(a) == IF a = Old THEN Old ELSE a + 1

(* An Entry of the map; job is that of its process and ran its age.        *)
Entry == [age : Age, valid : BOOLEAN, ran : 0 .. Timeout + Interval,
          job : {"none", "running", "succeeded", "failed"}]
Unasked(job) == [age |-> Old, valid |-> FALSE, ran |-> 0, job |-> job]
NewEntry == Unasked("none")
NoEntry == Unasked("no entry")

Init ==
    /\ hud \in SUBSET {"command", "gpu"} /\ reliable \in BOOLEAN
    /\ client = "idle" /\ rounds = 0
    /\ entry = NoEntry /\ orphan = NoEntry
    /\ exec = "sleeping" /\ slept = Interval
    /\ answer = [valid |-> FALSE, age |-> Old]
    /\ worker = "none" /\ stop_thread = FALSE /\ requested = Old
    /\ update = "due"
-----------------------------------------------------------------------------
(* Metrics::update_client: every 7 ms it fills the tables of the HUD, whose *)
(* configuration may have changed in between.                              *)

EditHud ==
    /\ client = "idle"
    /\ hud' \in SUBSET {"command", "gpu"} \ {hud}
    /\ UNCHANGED <<reliable, client, rounds, command, answer, gpu, update>>

StartRound ==
    /\ client = "idle" /\ rounds < Rounds
    /\ client' = IF "command" \in hud THEN "get" ELSE "gpu"
    /\ rounds' = rounds + 1
    /\ UNCHANGED <<hud, reliable, command, answer, gpu, update>>

(* Exec::get, under Exec::m: the entry is there from now on.               *)
LookUp ==
    /\ client = "get"
    /\ client' = "read"
    /\ entry' = IF entry = NoEntry THEN NewEntry ELSE entry
    /\ UNCHANGED <<hud, reliable, rounds, orphan, exec, slept, answer, gpu,
                   update>>

(* Mutant: a request counts only until there is a value.                   *)
ReadWithoutRequest ==
    /\ client = "read"
    /\ client' = "gpu"
    /\ answer' = [valid |-> (IF orphan = NoEntry THEN entry ELSE orphan).valid,
                  age |-> IF orphan = NoEntry THEN 0 ELSE Old]
    /\ entry' = IF orphan = NoEntry /\ ~entry.valid
                THEN [entry EXCEPT !.age = 0] ELSE entry
    /\ orphan' = NoEntry
    /\ UNCHANGED <<hud, reliable, rounds, exec, slept, gpu, update>>

(* Exec::get, under Entry::m; Exec::run may have erased the entry.         *)
Read ==
    /\ client = "read"
    /\ client' = "gpu"
    /\ answer' = [valid |-> (IF orphan = NoEntry THEN entry ELSE orphan).valid,
                  age |-> IF orphan = NoEntry THEN 0 ELSE Old]
    /\ entry' = IF orphan = NoEntry THEN [entry EXCEPT !.age = 0] ELSE entry
    /\ orphan' = NoEntry
    /\ UNCHANGED <<hud, reliable, rounds, exec, slept, gpu, update>>

SkipGpu ==
    /\ client = "gpu" /\ "gpu" \notin hud
    /\ client' = "idle"
    /\ UNCHANGED <<hud, reliable, rounds, command, answer, gpu, update>>

(* Mutant: worker_mutex is not taken.                                      *)
RequestUnlocked ==
    /\ client = "gpu" /\ "gpu" \in hud
    /\ client' = "idle"
    /\ requested' = 0
    /\ worker' = IF worker = "none" THEN "polling" ELSE worker
    /\ stop_thread' = (stop_thread /\ worker # "none")
    /\ UNCHANGED <<hud, reliable, rounds, command, answer, update>>

(* GPU::request_polling.  worker_mutex is free unless update is joining.   *)
RequestPolling ==
    /\ client = "gpu" /\ "gpu" \in hud /\ update # "joining"
    /\ client' = "idle"
    /\ requested' = 0
    /\ worker' = IF worker = "none" THEN "polling" ELSE worker
    /\ stop_thread' = (stop_thread /\ worker # "none")
    /\ UNCHANGED <<hud, reliable, rounds, command, answer, update>>

UpdateClient == StartRound \/ LookUp \/ Read \/ SkipGpu \/ RequestPolling
-----------------------------------------------------------------------------
(* Exec::run.  The parts of a tick lock the entries one by one.            *)

WakeUp ==
    /\ exec = "sleeping" /\ slept = Interval
    /\ exec' = "collecting"
    /\ UNCHANGED <<hud, reliable, client, rounds, entry, orphan, slept, answer,
                   gpu, update>>

(* The process ends; one that is reliable writes its value.                *)
ProcessEnds ==
    /\ entry.job = "running"
    /\ \E how \in {"succeeded", "failed"} :
           /\ reliable => how = "succeeded"
           /\ entry' = [entry EXCEPT !.job = how]
    /\ UNCHANGED <<hud, reliable, client, rounds, orphan, exec, slept, answer,
                   gpu, update>>

(* Mutant: a process that takes too long is left to end by itself.         *)
CollectEnded ==
    CASE entry.job = "succeeded" -> [entry EXCEPT !.job = "none", !.ran = 0,
                                                  !.valid = TRUE]
      [] entry.job = "failed"    -> [entry EXCEPT !.job = "none", !.ran = 0]
      [] OTHER                   -> entry

(* update_running_jobs and finish_job: only success changes the output,    *)
(* which stays when a later run fails; after Timeout the group is killed.  *)
Collected ==
    CASE entry.job = "succeeded" -> [entry EXCEPT !.job = "none", !.ran = 0,
                                                  !.valid = TRUE]
      [] \/ entry.job = "failed"
         \/ entry.job = "running" /\ entry.ran >= Timeout
                                 -> [entry EXCEPT !.job = "none", !.ran = 0]
      [] OTHER                   -> entry

UpdateRunningJobs ==
    /\ exec = "collecting"
    /\ exec' = "pruning"
    /\ entry' = Collected
    /\ UNCHANGED <<hud, reliable, client, rounds, orphan, slept, answer, gpu,
                   update>>

(* Mutant: entries are never stale.                                        *)
NeverStale == FALSE

(* Mutant: an entry without a value is stale, too.                         *)
StaleUnlessValid ==
    entry # NoEntry /\ entry.job = "none"
                    /\ (entry.age > StaleAfter \/ ~entry.valid)

Stale == entry # NoEntry /\ entry.job = "none" /\ entry.age > StaleAfter

(* remove_stale_entries: a new entry is stale until get() has dated it.    *)
(* The list of the entries to start is made under the same lock.           *)
RemoveStaleEntries ==
    /\ exec = "pruning"
    /\ entry' = IF Stale THEN NoEntry ELSE entry
    /\ orphan' = IF Stale /\ client = "read" THEN entry ELSE orphan
    /\ exec' = IF entry' = NoEntry THEN "sleeping" ELSE "spawning"
    /\ slept' = IF entry' = NoEntry THEN 0 ELSE slept
    /\ UNCHANGED <<hud, reliable, client, rounds, answer, gpu, update>>

(* spawn, which may fail for want of a pipe or a process.                  *)
Spawn ==
    /\ exec = "spawning"
    /\ exec' = "sleeping" /\ slept' = 0
    /\ \/ entry.job = "none" /\ entry' = [entry EXCEPT !.job = "running"]
       \/ (reliable => entry.job # "none") /\ entry' = entry
    /\ UNCHANGED <<hud, reliable, client, rounds, orphan, answer, gpu, update>>

ExecRun == WakeUp \/ UpdateRunningJobs \/ RemoveStaleEntries \/ Spawn
-----------------------------------------------------------------------------
(* Metrics::update and GPU::poll.                                          *)

Idle == worker # "none" /\ requested >= StaleAfter

(* stop_polling_if_idle, up to the join.                                   *)
StopPollingIfIdle ==
    /\ update = "due"
    /\ update' = IF Idle THEN "joining" ELSE "done"
    /\ stop_thread' = (stop_thread \/ Idle)
    /\ UNCHANGED <<hud, reliable, client, rounds, command, answer, worker,
                   requested>>

PollReturns ==
    /\ worker = "polling" /\ stop_thread
    /\ worker' = "ended"
    /\ UNCHANGED <<hud, reliable, client, rounds, command, answer, stop_thread,
                   requested, update>>

Join ==
    /\ update = "joining" /\ worker = "ended"
    /\ update' = "done"
    /\ worker' = "none"
    /\ UNCHANGED <<hud, reliable, client, rounds, command, answer, stop_thread,
                   requested>>
-----------------------------------------------------------------------------
(* Half a second has passed: every thread is asleep and nothing is due.    *)
Tick ==
    /\ client = "idle" /\ rounds > 0 /\ rounds' = 0
    /\ exec = "sleeping" /\ slept < Interval /\ slept' = slept + 1
    /\ update = "done" /\ update' = "due"
    /\ reliable /\ entry.job = "running" => entry.ran + 1 < Timeout
    /\ entry' = IF entry = NoEntry THEN NoEntry ELSE
                [entry EXCEPT !.age = Older(entry.age),
                              !.ran = IF entry.job = "none" THEN 0 ELSE entry.ran + 1]
    /\ requested' = Older(requested)
    /\ answer' = [answer EXCEPT !.age = Older(answer.age)]
    /\ UNCHANGED <<hud, reliable, client, orphan, exec, worker, stop_thread>>

Next ==
    \/ EditHud \/ UpdateClient \/ ExecRun \/ ProcessEnds
    \/ StopPollingIfIdle \/ PollReturns \/ Join \/ Tick

(* Every thread wakes up when its sleep is over, a thread told to stop and *)
(* a process with a deadline end; the HUD need not be edited.              *)
Spec ==
    /\ Init /\ [][Next]_vars
    /\ WF_vars(UpdateClient) /\ WF_vars(ExecRun) /\ WF_vars(Tick)
    /\ WF_vars(ProcessEnds /\ reliable) /\ WF_vars(StopPollingIfIdle \/ Join)
    /\ WF_vars(PollReturns)
-----------------------------------------------------------------------------
(* The type invariant.                                                     *)
TypeOK ==
    /\ hud \in SUBSET {"command", "gpu"} /\ reliable \in BOOLEAN
    /\ client \in {"idle", "get", "read", "gpu"} /\ rounds \in 0 .. Rounds
    /\ entry \in Entry \union {NoEntry}
    /\ orphan \in Entry \union {NoEntry}
    /\ exec \in {"sleeping", "collecting", "pruning", "spawning"}
    /\ slept \in 0 .. Interval
    /\ answer \in [valid : BOOLEAN, age : Age]
    /\ worker \in {"none", "polling", "ended"} /\ stop_thread \in BOOLEAN
    /\ requested \in Age /\ update \in {"due", "joining", "done"}

(* ProcessesAreKilled: with Timeout <= Interval a process never survives   *)
(* the tick after the one that started it, so at most one of each command  *)
(* runs and none is running when its entry is removed; and every state is  *)
(* well typed.                                                             *)
ProcessesAreKilled ==
    /\ TypeOK
    /\ Timeout <= Interval /\ exec \in {"pruning", "spawning"}
           => entry.job # "running"

(* ValuesStay: a command that has shown a value goes on showing one while  *)
(* it is asked for within StaleAfter, whatever its later runs do and       *)
(* whenever get() meets the tick (Exec::get, remove_stale_entries).  After *)
(* a longer pause get() may show the value of an erased entry once.        *)
ValuesStay ==
    [][Read /\ answer.valid /\ answer.age <= StaleAfter => answer'.valid]_vars

(* PolledWhileWanted: the thread of a GPU polls from a request until       *)
(* StaleAfter has passed without another one (request_polling,             *)
(* stop_polling_if_idle).                                                  *)
PolledWhileWanted ==
    requested < StaleAfter => worker = "polling" /\ ~stop_thread

(* ReliableCommandsShow: a reliable command the HUD keeps showing gets a   *)
(* value for good, although the first get() may lose its entry.            *)
ReliableCommandsShow ==
    <>[](reliable /\ "command" \in hud) => <>[](answer.valid)

(* NothingRunsUnasked: what the HUD has stopped showing is not run.        *)
NothingRunsUnasked ==
    /\ <>[]("command" \notin hud) => <>[](entry = NoEntry)
    /\ <>[]("gpu" \notin hud) => <>[](worker = "none")
=============================================================================
