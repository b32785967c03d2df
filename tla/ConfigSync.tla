----------------------------- MODULE ConfigSync -----------------------------
(***************************************************************************)
(* How the FPS limit travels from the user's config file to the clients:   *)
(* the server's main loop polls the file's signature (server/main.cpp      *)
(* loop, server/config.h), reloads it and posts the limit to every         *)
(* client's work queue (ipc/client.cpp send_config), while the bus threads *)
(* of newly connected clients read the same option and post it themselves  *)
(* (on_connect).  The client stores what it receives (ipc_client.cpp       *)
(* on_config) and every present hands it to the limiter.                   *)
(*                                                                         *)
(* An option is read without Config::m (Config::get), and the main loop    *)
(* walks ipc->clients without clients_mtx: the walk sees the clients that  *)
(* were in the vector when it began.                                       *)
(***************************************************************************)
EXTENDS Integers, Sequences

CONSTANTS
    Clients,
    Limits,     \* the values an fps_limit entry may have
    MaxEdits,   \* bound: how often the file changes
    MaxQueued   \* bound: limits on the way to a client when a reload begins

Default == 0

ASSUME LimitsAssumption == Limits \subseteq Nat /\ Default \in Limits
ASSUME BoundsAssumption == MaxEdits \in Nat /\ MaxQueued \in Nat

(* A file that parses has a limit (the default when the entry is missing   *)
(* or does not convert) and a HUD table that is valid or not.              *)
Missing == [kind |-> "missing", limit |-> Default, table |-> FALSE]
Malformed == [kind |-> "malformed", limit |-> Default, table |-> FALSE]
Parsed == [kind : {"parsed"}, limit : Limits, table : BOOLEAN]
Content == {Missing, Malformed} \union Parsed

VARIABLES
    file,        \* the file's content
    edits,       \* changes so far; its signature changes with each
    loop_pc,     \* where MangoHudServer::loop is
    prev_sig,    \* Config::prev_sig, 0 for a missing file
    inited,      \* Config::inited
    doc,         \* what parse_table read
    option,      \* options_["fps_limit"]
    table,       \* the content whose table is shown, Missing for the default
    to_notify,   \* clients the main loop has still to send to
    stage,       \* of each client's connection
    seen,        \* the limit that on_connect read and has not posted
    work,        \* Client::work_q of each client
    wire,        \* its private bus
    fps_limit    \* IPCClient::fps_limit of each client

config == <<prev_sig, inited, doc, option, table>>
links == <<stage, seen, work, wire, fps_limit>>
vars == <<file, edits, loop_pc, config, to_notify, links>>

(* read_sig: a missing file has the signature that prev_sig starts with.   *)
Signature == IF file = Missing THEN 0 ELSE edits + 1

Init ==
    /\ file \in Content
    /\ edits = 0
    /\ loop_pc = "poll"
    /\ prev_sig = 0
    /\ inited = FALSE
    /\ doc = Missing
    /\ option = Default
    /\ table = Missing
    /\ to_notify = {}
    /\ stage = [c \in Clients |-> "absent"]
    /\ seen = [c \in Clients |-> Default]
    /\ work = [c \in Clients |-> <<>>]
    /\ wire = [c \in Clients |-> <<>>]
    /\ fps_limit = [c \in Clients |-> Default]
-----------------------------------------------------------------------------
(* The user.                                                               *)
Edit ==
    /\ edits < MaxEdits
    /\ edits' = edits + 1
    /\ file' \in Content \ {file}
    /\ UNCHANGED <<loop_pc, config, to_notify, links>>
-----------------------------------------------------------------------------
(* The main loop: maybe_reload_config, parse_table, send_config.           *)

(* Mutant: the file is read until it could be loaded, and never again.     *)
DetectOnce ==
    /\ loop_pc = "poll"
    /\ ~inited
    /\ prev_sig' = Signature
    /\ loop_pc' = "read"
    /\ UNCHANGED <<file, edits, inited, doc, option, table, to_notify, links>>

(* As long as no file was loaded each poll reloads, and sends again.       *)
Detect ==
    /\ loop_pc = "poll"
    /\ ~inited \/ Signature # prev_sig
    /\ \A c \in Clients : Len(work[c]) + Len(wire[c]) <= MaxQueued
    /\ prev_sig' = Signature
    /\ loop_pc' = "read"
    /\ UNCHANGED <<file, edits, inited, doc, option, table, to_notify, links>>

(* YAML::LoadFile.  A file that does not parse leaves the options alone.   *)
ReadFile ==
    /\ loop_pc = "read"
    /\ doc' = file
    /\ loop_pc' = IF file = Malformed THEN "table" ELSE "reset"
    /\ UNCHANGED <<file, edits, prev_sig, inited, option, table, to_notify, links>>

(* Config::update first gives every option its default ...                 *)
ResetOption ==
    /\ loop_pc = "reset"
    /\ option' = Default
    /\ loop_pc' = "load"
    /\ UNCHANGED <<file, edits, prev_sig, inited, doc, table, to_notify, links>>

(* Mutant: an entry that does not convert becomes minus one.               *)
LoadInvalid ==
    /\ loop_pc = "load"
    /\ option' = IF doc.limit = Default THEN -1 ELSE doc.limit
    /\ inited' = TRUE
    /\ loop_pc' = "table"
    /\ UNCHANGED <<file, edits, prev_sig, doc, table, to_notify, links>>

(* ... then load_yaml takes what the file has.                             *)
LoadOption ==
    /\ loop_pc = "load"
    /\ option' = doc.limit
    /\ inited' = TRUE
    /\ loop_pc' = "table"
    /\ UNCHANGED <<file, edits, prev_sig, doc, table, to_notify, links>>

(* Mutant: the signature is taken when the file has been processed.        *)
LoadThenSign ==
    /\ loop_pc = "table"
    /\ table' = IF doc.table THEN doc ELSE Missing
    /\ prev_sig' = Signature
    /\ loop_pc' = "notify"
    /\ to_notify' = {c \in Clients : stage[c] # "absent"}
    /\ UNCHANGED <<file, edits, inited, doc, option, links>>

(* parse_table_yaml or load_default, under Config::m; then the loop over   *)
(* the clients begins.                                                     *)
LoadTable ==
    /\ loop_pc = "table"
    /\ table' = IF doc.table THEN doc ELSE Missing
    /\ loop_pc' = "notify"
    /\ to_notify' = {c \in Clients : stage[c] # "absent"}
    /\ UNCHANGED <<file, edits, prev_sig, inited, doc, option, links>>

(* Mutant: the walk over the clients skips one.                            *)
Skip(c) ==
    /\ loop_pc = "notify" /\ c \in to_notify
    /\ to_notify' = to_notify \ {c}
    /\ UNCHANGED <<file, edits, loop_pc, config, links>>

Notify(c) ==
    /\ loop_pc = "notify" /\ c \in to_notify
    /\ work' = [work EXCEPT ![c] = Append(@, option)]
    /\ to_notify' = to_notify \ {c}
    /\ UNCHANGED <<file, edits, loop_pc, config, stage, seen, wire, fps_limit>>

Sleep ==
    /\ loop_pc = "notify" /\ to_notify = {}
    /\ loop_pc' = "poll"
    /\ UNCHANGED <<file, edits, config, to_notify, links>>

Loop == \/ Detect \/ ReadFile \/ ResetOption \/ LoadOption \/ LoadTable
        \/ (\E c \in Clients : Notify(c)) \/ Sleep
-----------------------------------------------------------------------------
(* The connection of a client.                                             *)

(* on_request_fd puts the client into the list before it gets its socket.  *)
Attach(c) ==
    /\ stage[c] = "absent"
    /\ stage' = [stage EXCEPT ![c] = "attached"]
    /\ UNCHANGED <<file, edits, loop_pc, config, to_notify, seen, work, wire, fps_limit>>

(* on_connect calls send_config, which reads the option ...                *)
ReadOption(c) ==
    /\ stage[c] = "attached"
    /\ stage' = [stage EXCEPT ![c] = "greeting"]
    /\ seen' = [seen EXCEPT ![c] = option]
    /\ UNCHANGED <<file, edits, loop_pc, config, to_notify, work, wire, fps_limit>>

(* ... and posts it.                                                       *)
PostOption(c) ==
    /\ stage[c] = "greeting"
    /\ stage' = [stage EXCEPT ![c] = "connected"]
    /\ seen' = [seen EXCEPT ![c] = Default]
    /\ work' = [work EXCEPT ![c] = Append(@, seen[c])]
    /\ UNCHANGED <<file, edits, loop_pc, config, to_notify, wire, fps_limit>>

(* Mutant: the queue of tasks is a stack.                                  *)
SendNewest(c) ==
    LET last == Len(work[c]) IN
    /\ stage[c] # "greeting" /\ work[c] # <<>>
    /\ wire' = [wire EXCEPT ![c] = Append(@, work[c][last])]
    /\ work' = [work EXCEPT ![c] = SubSeq(@, 1, last - 1)]
    /\ UNCHANGED <<file, edits, loop_pc, config, to_notify, stage, seen, fps_limit>>

(* The bus thread runs the posted tasks when it is in no handler.          *)
SendConfig(c) ==
    /\ stage[c] # "greeting" /\ work[c] # <<>>
    /\ wire' = [wire EXCEPT ![c] = Append(@, Head(work[c]))]
    /\ work' = [work EXCEPT ![c] = Tail(@)]
    /\ UNCHANGED <<file, edits, loop_pc, config, to_notify, stage, seen, fps_limit>>

(* IPCClient::on_config                                                    *)
OnConfig(c) ==
    /\ wire[c] # <<>>
    /\ fps_limit' = [fps_limit EXCEPT ![c] = Head(wire[c])]
    /\ wire' = [wire EXCEPT ![c] = Tail(@)]
    /\ UNCHANGED <<file, edits, loop_pc, config, to_notify, stage, seen, work>>

ServerBus(c) == ReadOption(c) \/ PostOption(c) \/ SendConfig(c)

Next ==
    \/ Edit
    \/ Loop
    \/ \E c \in Clients : Attach(c) \/ ServerBus(c) \/ OnConfig(c)

Spec == Init /\ [][Next]_vars

(* The main loop wakes up each second and both bus threads keep running.   *)
Fairness ==
    /\ WF_vars(Loop)
    /\ \A c \in Clients : WF_vars(ServerBus(c)) /\ WF_vars(OnConfig(c))

FairSpec == Spec /\ Fairness
-----------------------------------------------------------------------------
(* The type invariant.                                                     *)
TypeOK ==
    /\ file \in Content /\ edits \in 0 .. MaxEdits
    /\ loop_pc \in {"poll", "read", "reset", "load", "table", "notify"}
    /\ prev_sig \in 0 .. MaxEdits + 1 /\ inited \in BOOLEAN
    /\ doc \in Content /\ option \in Limits /\ table \in Content
    /\ to_notify \subseteq Clients
    /\ stage \in [Clients -> {"absent", "attached", "greeting", "connected"}]
    /\ seen \in [Clients -> Limits]
    /\ work \in [Clients -> Seq(Limits)]
    /\ wire \in [Clients -> Seq(Limits)]
    /\ fps_limit \in [Clients -> Limits]

(* ReloadIsCurrent: when the main loop rests and sees no change in the     *)
(* signature of an existing file, the options and the table are those of   *)
(* the file as it is now, however the edits fell between stat, exists and  *)
(* LoadFile (config.h maybe_reload_config takes the signature first).      *)
ReloadIsCurrent ==
    loop_pc = "poll" /\ inited /\ prev_sig = Signature /\ file # Missing =>
        /\ file # Malformed => option = file.limit
        /\ table = IF file.table THEN file ELSE Missing

(* FollowsReloads: a client that is connected when a reload begins ends up *)
(* with the limit of the last reload, however many follow (send_config,    *)
(* work_q and the bus keep the order).                                     *)
Connected(c) == stage[c] = "connected"
FollowsReloads ==
    \A c \in Clients :
        [](Connected(c) /\ loop_pc = "read" => <>[](fps_limit[c] = option))

(* EditsTakeEffect: once the file is readable for good its limit is in     *)
(* force, also when it was malformed at the server's start or changed      *)
(* while it was read (config.h maybe_reload_config).                       *)
EditsTakeEffect ==
    <>[](file \in Parsed) => <>[](option = file.limit)
=============================================================================
