----------------------------- MODULE ClientList -----------------------------
(***************************************************************************)
(* The server's list of clients (ipc/ipc.cpp, ipc/client.cpp): who enters  *)
(* it, who is pruned from it and by whom, and the threads that meet there. *)
(*                                                                         *)
(*   main     MangoHudServer::loop: post the config to all, then prune     *)
(*   ipc      IPCServer::dbus_thread: on_request_fd prunes, then adds      *)
(*   metrics  Metrics::update_client and populate_tables                   *)
(*   and for each client its bus thread and its run thread.                *)
(*                                                                         *)
(* A pruner stops and joins the client's threads while it holds            *)
(* clients_mtx; the run thread may hold Client::m for up to a second, in   *)
(* sync_fd_blocking.  Clients are shared pointers: a client is destroyed   *)
(* when neither the list, a pruner's copy of it, the main loop nor a       *)
(* posted task refers to it any more.                                      *)
(*                                                                         *)
(* Abstracted: what the tasks send, except whether a failure of theirs is  *)
(* noticed; the main loop's walk over the vector, which takes no lock,     *)
(* sees the clients that were in it at the start and still are.            *)
(***************************************************************************)
EXTENDS Integers, Sequences, SequencesExt

CONSTANTS
    Clients,      \* connections
    NoClient,     \* no connection
    Processes,
    pid,          \* the process of each connection
    MaxReloads,   \* bound: how often the config file changes
    MaxTasks      \* bound: tasks that wait in a client's work queue

ASSUME NoClientAssumption == NoClient \notin Clients
ASSUME PidAssumption == pid \in [Clients -> Processes]
ASSUME BoundsAssumption == MaxReloads \in Nat /\ MaxTasks \in Nat

Pruner == {"main", "ipc"}

VARIABLES
    clients,      \* IPCServer::clients
    clients_mtx,  \* the thread that holds it
    pc,           \* of the threads main, ipc and metrics
    copy,         \* clients_ of each pruner
    it,           \* the iterator of the pruner that walks the list, else 0
    reloads,      \* config reloads so far
    to_send,      \* clients the main loop has still to post to
    sending,      \* the client it is posting to
    requester,    \* the client whose request_fd is being served
    todo,         \* clients that update_client has still to read
    link,         \* the client's end of its socket
    alive,        \* processes
    active, stop, \* Client::active, Client::stop
    bus, run,     \* the client's two threads
    work,         \* Client::work_q: the kinds of its tasks
    hud           \* clients whose resources->hud was populated

main == <<reloads, to_send, sending>>
env == <<link, alive>>
object == <<active, stop, bus, run, work>>
vars == <<clients, clients_mtx, pc, copy, it, main, requester, todo, env,
          object, hud>>

Listed == ToSet(clients)

Init ==
    /\ clients = <<>>
    /\ clients_mtx = "none"
    /\ pc = [main |-> "reload", ipc |-> "idle", metrics |-> "idle"]
    /\ copy = [t \in Pruner |-> {}]
    /\ it = 0
    /\ reloads = 0
    /\ to_send = {}
    /\ sending = NoClient
    /\ requester = NoClient
    /\ todo = {}
    /\ link = [c \in Clients |-> "none"]
    /\ alive = Processes
    /\ active = [c \in Clients |-> TRUE]
    /\ stop = [c \in Clients |-> FALSE]
    /\ bus = [c \in Clients |-> "none"]
    /\ run = [c \in Clients |-> "none"]
    /\ work = [c \in Clients |-> <<>>]
    /\ hud = {}
-----------------------------------------------------------------------------
(* IPCServer::prune_clients, on the threads main and ipc.                  *)

Goto(t, label) == pc' = [pc EXCEPT ![t] = label]

(* Where each thread goes when it has pruned.                              *)
Return(t) == IF t = "main" THEN "reload" ELSE "add"

(* The first section under clients_mtx copies the list.                    *)
CopyList(t) ==
    /\ pc[t] = "copy" /\ clients_mtx = "none"
    /\ copy' = [copy EXCEPT ![t] = Listed]
    /\ Goto(t, "probe")
    /\ UNCHANGED <<clients, clients_mtx, it, main, requester, todo, env,
                   object, hud>>

(* Mutant: only the flag counts, no process is probed.                     *)
DeadByFlag(t) == {c \in copy[t] : ~active[c]}

Dead(t) == {c \in copy[t] : pid[c] \notin alive \/ ~active[c]}

(* kill(pid, 0) and the active flag of each client in the copy.            *)
Probe(t) ==
    /\ pc[t] = "probe"
    /\ active' = [c \in Clients |-> active[c] /\ c \notin Dead(t)]
    /\ copy' = [copy EXCEPT ![t] = IF Dead(t) = {} THEN {} ELSE @]
    /\ Goto(t, IF Dead(t) = {} THEN Return(t) ELSE "lock")
    /\ UNCHANGED <<clients, clients_mtx, it, main, requester, todo, env,
                   stop, bus, run, work, hud>>

Lock(t) ==
    /\ pc[t] = "lock" /\ clients_mtx = "none"
    /\ clients_mtx' = t
    /\ it' = 1
    /\ Goto(t, "walk")
    /\ UNCHANGED <<clients, copy, main, requester, todo, env, object, hud>>

HoldsM(c) == run[c] = "fence"

AtClient == it \in DOMAIN clients

(* The walk passes a client that is active, for good.                      *)
Keep(t) ==
    /\ pc[t] = "walk" /\ AtClient /\ active[clients[it]]
    /\ it' = it + 1
    /\ UNCHANGED <<clients, clients_mtx, pc, copy, main, requester, todo, env,
                   object, hud>>

(* stop_and_join of an inactive client: set stop under Client::m and write *)
(* to its stop_eventfd ...                                                 *)
Stop(t) ==
    /\ pc[t] = "walk" /\ AtClient
    /\ LET c == clients[it] IN
       /\ ~active[c] /\ ~HoldsM(c)
       /\ stop' = [stop EXCEPT ![c] = TRUE]
       /\ bus' = [bus EXCEPT ![c] = IF @ = "running" THEN "told" ELSE @]
    /\ Goto(t, "join")
    /\ UNCHANGED <<clients, clients_mtx, copy, it, main, requester, todo, env,
                   active, run, work, hud>>

(* Mutant: the run thread is not joined.                                   *)
JoinBus(c) == bus[c] \in {"none", "exited"}

Joinable(c) == bus[c] \in {"none", "exited"} /\ run[c] \in {"none", "exited"}

(* Mutant: the tasks that were never run stay in the queue.                *)
EraseUndrained(t) ==
    /\ pc[t] = "join" /\ Joinable(clients[it])
    /\ clients' = RemoveAt(clients, it)
    /\ Goto(t, "walk")
    /\ UNCHANGED <<clients_mtx, copy, it, main, requester, todo, env, object, hud>>

(* ... join both threads, drop the tasks left over, and erase it.          *)
Erase(t) ==
    /\ pc[t] = "join" /\ Joinable(clients[it])
    /\ clients' = RemoveAt(clients, it)
    /\ work' = [work EXCEPT ![clients[it]] = <<>>]
    /\ Goto(t, "walk")
    /\ UNCHANGED <<clients_mtx, copy, it, main, requester, todo, env, active,
                   stop, bus, run, hud>>

Unlock(t) ==
    /\ pc[t] = "walk" /\ ~AtClient
    /\ clients_mtx' = "none"
    /\ it' = 0
    /\ copy' = [copy EXCEPT ![t] = {}]
    /\ Goto(t, Return(t))
    /\ UNCHANGED <<clients, main, requester, todo, env, object, hud>>

Prune(t) == CopyList(t) \/ Probe(t) \/ Lock(t) \/ Keep(t) \/ Stop(t)
            \/ Erase(t) \/ Unlock(t)
-----------------------------------------------------------------------------
(* The main loop, once a second.                                           *)

NoReload ==
    /\ pc.main = "reload"
    /\ Goto("main", "copy")
    /\ UNCHANGED <<clients, clients_mtx, copy, it, main, requester, todo,
                   env, object, hud>>

Reload ==
    /\ pc.main = "reload" /\ reloads < MaxReloads
    /\ reloads' = reloads + 1
    /\ to_send' = Listed
    /\ Goto("main", "send")
    /\ UNCHANGED <<clients, clients_mtx, copy, it, sending, requester, todo,
                   env, object, hud>>

(* The walk copies the shared pointer of the next client ...               *)
TakeClient ==
    /\ pc.main = "send" /\ sending = NoClient
    /\ IF to_send \intersect Listed = {}
       THEN /\ to_send' = {} /\ sending' = NoClient
            /\ Goto("main", "copy")
       ELSE \E c \in to_send \intersect Listed :
            /\ to_send' = to_send \ {c} /\ sending' = c
            /\ pc' = pc
    /\ UNCHANGED <<clients, clients_mtx, copy, it, reloads, requester, todo,
                   env, object, hud>>

(* ... and posts, even when the ipc thread has pruned it meanwhile.        *)
PostConfig ==
    /\ pc.main = "send" /\ sending # NoClient
    /\ work' = [work EXCEPT ![sending] = Append(@, "config")]
    /\ sending' = NoClient
    /\ UNCHANGED <<clients, clients_mtx, pc, copy, it, reloads, to_send,
                   requester, todo, env, active, stop, bus, run, hud>>

MainLoop == NoReload \/ TakeClient \/ PostConfig \/ Prune("main")
-----------------------------------------------------------------------------
(* The ipc thread: on_request_fd.                                          *)

Request(c) ==
    /\ pc.ipc = "idle" /\ link[c] = "none" /\ pid[c] \in alive
    /\ requester' = c
    /\ Goto("ipc", "copy")
    /\ UNCHANGED <<clients, clients_mtx, copy, it, main, todo, env, object, hud>>

(* Client::init starts the threads, or gives up and leaves it inactive.    *)
Add ==
    /\ pc.ipc = "add" /\ clients_mtx = "none"
    /\ clients' = Append(clients, requester)
    /\ link' = [link EXCEPT ![requester] =
                    IF pid[requester] \in alive THEN "open" ELSE "closed"]
    /\ \/ /\ bus' = [bus EXCEPT ![requester] = "running"]
          /\ run' = [run EXCEPT ![requester] = "top"]
          /\ active' = active
       \/ /\ active' = [active EXCEPT ![requester] = FALSE]
          /\ UNCHANGED <<bus, run>>
    /\ requester' = NoClient
    /\ Goto("ipc", "idle")
    /\ UNCHANGED <<clients_mtx, copy, it, main, todo, alive, stop, work, hud>>

IpcThread == Prune("ipc") \/ Add
-----------------------------------------------------------------------------
(* The metrics' client thread, every 7 ms.                                 *)

(* update_client holds clients_mtx and takes each client's m in turn.      *)
UpdateClients ==
    /\ pc.metrics = "idle" /\ clients_mtx = "none"
    /\ clients_mtx' = "metrics"
    /\ todo' = Listed
    /\ Goto("metrics", "read")
    /\ UNCHANGED <<clients, copy, it, main, requester, env, object, hud>>

ReadClient(c) ==
    /\ pc.metrics = "read" /\ c \in todo /\ ~HoldsM(c)
    /\ todo' = todo \ {c}
    /\ UNCHANGED <<clients, clients_mtx, pc, copy, it, main, requester, env,
                   object, hud>>

ClientsRead ==
    /\ pc.metrics = "read" /\ todo = {}
    /\ clients_mtx' = "none"
    /\ Goto("metrics", "populate")
    /\ UNCHANGED <<clients, copy, it, main, requester, todo, env, object, hud>>

(* client_res.emplace keeps the first client of each process.              *)
First(c) ==
    \E i \in DOMAIN clients :
        clients[i] = c /\ \A j \in 1 .. i - 1 : pid[clients[j]] # pid[c]

(* Mutant: a later client of the process replaces the earlier one.         *)
NewestOnly ==
    {c \in Listed : \A d \in Listed : pid[d] = pid[c] =>
         \E i, j \in DOMAIN clients : i <= j /\ clients[i] = d /\ clients[j] = c}

Populated == {c \in Listed : First(c)}

PopulateTables ==
    /\ pc.metrics = "populate" /\ clients_mtx = "none"
    /\ hud' = hud \union Populated
    /\ Goto("metrics", "idle")
    /\ UNCHANGED <<clients, clients_mtx, copy, it, main, requester, todo,
                   env, object>>

MetricsThread == UpdateClients \/ (\E c \in Clients : ReadClient(c))
                 \/ ClientsRead \/ PopulateTables
-----------------------------------------------------------------------------
(* The bus thread of a client.                                             *)

(* on_work_event runs nothing for an inactive client.  A failing send of a *)
(* config or a dmabuf message makes it inactive; of a frame_ready, not.    *)
RunTask(c) ==
    /\ bus[c] = "running" /\ active[c] /\ work[c] # <<>>
    /\ work' = [work EXCEPT ![c] = Tail(@)]
    /\ active' = [active EXCEPT ![c] = Head(work[c]) = "frame" \/ link[c] = "open"]
    /\ UNCHANGED <<clients, clients_mtx, pc, copy, it, main, requester, todo,
                   env, stop, bus, run, hud>>

(* on_connect finds another ABI hash, or cannot read the message.          *)
RejectHandshake(c) ==
    /\ bus[c] = "running" /\ active[c] /\ link[c] = "open"
    /\ active' = [active EXCEPT ![c] = FALSE]
    /\ UNCHANGED <<clients, clients_mtx, pc, copy, it, main, requester, todo,
                   env, stop, bus, run, work, hud>>

BusExits(c) ==
    /\ bus[c] = "told"
    /\ bus' = [bus EXCEPT ![c] = "exited"]
    /\ UNCHANGED <<clients, clients_mtx, pc, copy, it, main, requester, todo,
                   env, active, stop, run, work, hud>>
BusThread(c) == RunTask(c) \/ BusExits(c)
-----------------------------------------------------------------------------
(* The run thread of a client.                                             *)

RunGoto(c, label) == run' = [run EXCEPT ![c] = label]

RunExits(c) ==
    /\ run[c] = "top" /\ (stop[c] \/ ~active[c])
    /\ RunGoto(c, "exited")
    /\ UNCHANGED <<clients, clients_mtx, pc, copy, it, main, requester, todo,
                   env, active, stop, bus, work, hud>>

(* send_dmabuf, or render and frame_ready, post a task; or there is        *)
(* nothing to send, and try_acquire_buffer waits next.                     *)
RunPosts(c) ==
    /\ run[c] = "top" /\ ~stop[c] /\ active[c]
    /\ RunGoto(c, "wait")
    /\ \/ /\ Len(work[c]) < MaxTasks
          /\ \E kind \in {"dmabuf", "frame"} : work' = [work EXCEPT ![c] = Append(@, kind)]
       \/ work' = work
    /\ UNCHANGED <<clients, clients_mtx, pc, copy, it, main, requester, todo,
                   env, active, stop, bus, hud>>

(* The wait ends: with no frame, or with one whose fence is waited for     *)
(* under Client::m, for a second at most.                                  *)
RunWakes(c) ==
    /\ run[c] = "wait"
    /\ \E label \in {"top", "fence"} : RunGoto(c, label)
    /\ UNCHANGED <<clients, clients_mtx, pc, copy, it, main, requester, todo,
                   env, active, stop, bus, work, hud>>

RunAcquires(c) ==
    /\ run[c] = "fence"
    /\ RunGoto(c, "top")
    /\ UNCHANGED <<clients, clients_mtx, pc, copy, it, main, requester, todo,
                   env, active, stop, bus, work, hud>>

RunThread(c) == RunExits(c) \/ RunPosts(c) \/ RunWakes(c) \/ RunAcquires(c)
-----------------------------------------------------------------------------
(* The client closes its end: the Vulkan device is destroyed, or a send of *)
(* its own failed.  Client::on_bus_disconnected is registered nowhere.     *)
Close(c) ==
    /\ link[c] = "open"
    /\ link' = [link EXCEPT ![c] = "closed"]
    /\ UNCHANGED <<clients, clients_mtx, pc, copy, it, main, requester, todo,
                   alive, object, hud>>

ProcessExits(p) ==
    /\ p \in alive
    /\ alive' = alive \ {p}
    /\ link' = [c \in Clients |->
                    IF pid[c] = p /\ link[c] = "open" THEN "closed" ELSE link[c]]
    /\ UNCHANGED <<clients, clients_mtx, pc, copy, it, main, requester, todo,
                   object, hud>>

Next ==
    \/ MainLoop \/ Reload \/ IpcThread \/ MetricsThread
    \/ \E c \in Clients : Request(c) \/ Close(c) \/ RejectHandshake(c)
                          \/ BusThread(c) \/ RunThread(c)
    \/ \E p \in Processes : ProcessExits(p)

Spec == Init /\ [][Next]_vars

(* Every thread keeps running.  A mutex goes to each thread that asks for  *)
(* it again and again: all of them sleep between two uses.                 *)
Fairness ==
    /\ SF_vars(MainLoop) /\ SF_vars(IpcThread) /\ SF_vars(MetricsThread)
    /\ \A c \in Clients : WF_vars(BusThread(c)) /\ WF_vars(RunThread(c))

FairSpec == Spec /\ Fairness
-----------------------------------------------------------------------------
(* The type invariant.                                                     *)
TypeOK ==
    /\ clients \in Seq(Clients) /\ IsInjective(clients)
    /\ clients_mtx \in {"none", "main", "ipc", "metrics"}
    /\ pc \in [main : {"reload", "send", "copy", "probe", "lock", "walk", "join"},
              ipc : {"idle", "copy", "probe", "lock", "walk", "join", "add"},
              metrics : {"idle", "read", "populate"}]
    /\ copy \in [Pruner -> SUBSET Clients]
    /\ it \in Nat
    /\ reloads \in 0 .. MaxReloads
    /\ to_send \subseteq Clients /\ todo \subseteq Clients /\ hud \subseteq Clients
    /\ {sending, requester} \subseteq Clients \union {NoClient}
    /\ link \in [Clients -> {"none", "open", "closed"}]
    /\ alive \subseteq Processes
    /\ active \in [Clients -> BOOLEAN] /\ stop \in [Clients -> BOOLEAN]
    /\ bus \in [Clients -> {"none", "running", "told", "exited"}]
    /\ run \in [Clients -> {"none", "top", "wait", "fence", "exited"}]
    /\ work \in [Clients -> Seq({"config", "dmabuf", "frame"})]

(* Who holds a shared pointer to c.                                        *)
Held(c) ==
    \/ c \in Listed \union copy["main"] \union copy["ipc"]
    \/ c = sending
    \/ work[c] # <<>>

(* NoThreadOutlivesItsClient: a client nobody refers to any more, and that *)
(* is therefore destroyed with its bus, event loop and Renderer, has no    *)
(* thread that still runs (ipc.cpp prune_clients, client.cpp ~Client); and *)
(* every state is well typed.                                              *)
NoThreadOutlivesItsClient ==
    /\ TypeOK
    /\ \A c \in Clients : ~Held(c) =>
           bus[c] \notin {"running", "told"} /\ run[c] \in {"none", "exited"}

(* OnlyConfigsAreLeft: the tasks of a client that was taken off the list,  *)
(* each of which keeps it alive, were dropped; only a config that the main *)
(* loop posted too late, to a client the ipc thread had just pruned, can   *)
(* be in its queue (client.cpp stop_and_join, server/main.cpp loop).       *)
OnlyConfigsAreLeft ==
    \A c \in Clients \ Listed : ToSet(work[c]) \subseteq {"config"}

(* DeadClientsGo: a client whose process is gone, or that was marked       *)
(* inactive, leaves the list, whichever thread prunes it and whatever its  *)
(* run thread waits for.                                                   *)
DeadClientsGo ==
    \A c \in Clients :
        c \in Listed /\ (pid[c] \notin alive \/ ~active[c]) ~> c \notin Listed

(* OldestIsPopulated: the oldest client of each process gets the values of *)
(* its HUD (metrics.cpp populate_tables).                                  *)
Oldest(c) == c \in Listed /\ First(c)
OldestIsPopulated ==
    \A c \in Clients : Oldest(c) ~> c \in hud \/ c \notin Listed

(* EveryClientIsPopulated: so does every client that stays connected, also *)
(* the second one of a process, for OpenGL besides Vulkan or for a device  *)
(* that was created anew.                                                  *)
Connected(c) == c \in Listed /\ link[c] = "open"
EveryClientIsPopulated ==
    \A c \in Clients : Connected(c) ~> c \in hud \/ ~Connected(c)
=============================================================================
