-------------------------- MODULE WaylandPresenter --------------------------
(***************************************************************************)
(* The overlay of a Wayland application in mangohud-next (client/          *)
(* wayland.cpp, wayland.h): a thread attaches the buffers the server draws *)
(* to a subsurface of the application's, and gives a slot back to the      *)
(* server when the compositor has released its buffer.                     *)
(*                                                                         *)
(* The slots circulate as in FrameLoop, but the compositor takes the place *)
(* of the copy, and the client hands out the slots of every set of buffers *)
(* it imports, also those still in circulation.  A generation numbers the  *)
(* sets the servers created; a buffer is a slot of one.                    *)
(*                                                                         *)
(* Abstracted: "returned" is a slot's way from release_to_server through   *)
(* the client's work_q, the bus and the server's frame_queue; a frame is   *)
(* in "sent" when its rendering has ended (next_frame waits for that).     *)
(* Left out: focus and presentation feedback, a failing ioctl, a display   *)
(* without the protocols, and a connection lost before its handshake.      *)
(***************************************************************************)
EXTENDS Integers, Sequences, SequencesExt, FiniteSets

CONSTANTS
    N,            \* buffer_size, which Wayland sets to 4
    MaxResizes,   \* bound: how often the HUD changes its size
    MaxUpsets     \* bound: lost connections and surfaces created anew

ASSUME SizeAssumption == N \in Nat \ {0, 1}
ASSUME BoundsAssumption == MaxResizes \in Nat /\ MaxUpsets \in Nat

Slot == 0 .. N - 1
NoSlot == -1

(* Every slot, in the order of the loops over buffer_size and the buffers. *)
AllSlots == [i \in 1 .. N |-> i - 1]
Gen == 0 .. MaxResizes + MaxUpsets + 1
Buffer == [slot : Slot, gen : Gen \ {0}]
NoBuffer == [slot |-> NoSlot, gen |-> 0]

VARIABLES
    (* the client's bus thread *)
    bus,          \* "down", "joining" before the task of on_connect, "up"
    frame_queue,  \* IPCClient::frame_queue
    fdinfo,       \* generation in IPCClient::fdinfo, 0 when it is moved out
    import_generation,  \* generation of the last dmabuf message
    (* the Wayland thread and its surface *)
    pc,           \* where run_thread is
    taken,        \* next_fdinfo of update_import
    buffers,      \* generation of surface_data::buffers, 0 when it is empty
    busy,         \* slots with shm_buffer::busy
    attached,     \* surface_data::attached
    imported_generation,
    surfaces,     \* surfaces created so far
    (* the compositor *)
    shown,        \* the buffer of the overlay's last commit, or NoBuffer
    held,         \* buffers it has not released
    events,       \* slots of the buffers whose release is not dispatched
    (* the server *)
    returned,     \* slots on their way to Client::run
    buf_idx,      \* the local of Client::run: the slot it draws
    generation,   \* of resources->buffer
    sent,         \* messages to the client
    resizes, losses,
    doubled       \* history: a slot was handed out that was not back

ipc == <<frame_queue, fdinfo, import_generation>>
surface == <<buffers, busy, attached>>
thread == <<pc, taken, imported_generation>>
compositor == <<shown, held, events>>
server == <<buf_idx, generation, sent>>
counters == <<surfaces, resizes, losses>>
vars == <<bus, ipc, surface, thread, compositor, returned, server, counters,
          doubled>>

connected == bus # "down"
FrameMsg(s) == [kind |-> "frame_ready", slot |-> s]
DmabufMsg(g) == [kind |-> "dmabuf", gen |-> g]

(* The constructor of Wayland has started the bus thread, which connects.  *)
Init ==
    /\ bus = "joining"
    /\ frame_queue = <<>> /\ fdinfo = 0 /\ import_generation = 0
    /\ pc = "dispatch" /\ taken = 0 /\ imported_generation = 0
    /\ buffers = 0 /\ busy = {} /\ attached = FALSE
    /\ shown = NoBuffer /\ held = {} /\ events = <<>>
    /\ returned = <<>> /\ buf_idx = NoSlot /\ generation = 0 /\ sent = <<>>
    /\ surfaces = 1 /\ resizes = 0 /\ losses = 0
    /\ doubled = FALSE
-----------------------------------------------------------------------------
(* The connection.                                                         *)

(* The task of on_connect puts every slot into the client's own queue; the *)
(* server answers the handshake with buffers of its own.                   *)
Joins ==
    /\ bus = "joining"
    /\ bus' = "up"
    /\ frame_queue' = frame_queue \o AllSlots
    /\ generation' = generation + 1
    /\ sent' = <<DmabufMsg(generation + 1)>>
    /\ UNCHANGED <<fdinfo, import_generation, surface, thread, compositor,
                   returned, buf_idx, counters, doubled>>

(* What the server and the bus had is gone; tasks of work_q are not.       *)
Disconnects ==
    /\ bus = "up" /\ losses + surfaces <= MaxUpsets
    /\ bus' = "down"
    /\ losses' = losses + 1
    /\ sent' = <<>> /\ buf_idx' = NoSlot
    /\ \E i \in 1 .. Len(returned) + 1 :
           returned' = SubSeq(returned, i, Len(returned))
    /\ UNCHANGED <<ipc, surface, thread, compositor, generation, surfaces,
                   resizes, doubled>>

Reconnects ==
    /\ bus = "down"
    /\ bus' = "joining"
    /\ UNCHANGED <<ipc, surface, thread, compositor, returned, server,
                   counters, doubled>>

(* Without an OverlayVK, on_dmabuf leaves the import to the Wayland thread. *)
on_dmabuf ==
    /\ sent # <<>> /\ Head(sent).kind = "dmabuf"
    /\ sent' = Tail(sent)
    /\ fdinfo' = Head(sent).gen
    /\ import_generation' = Head(sent).gen
    /\ UNCHANGED <<bus, frame_queue, surface, thread, compositor, returned,
                   buf_idx, generation, counters, doubled>>

on_frame ==
    /\ sent # <<>> /\ Head(sent).kind = "frame_ready"
    /\ sent' = Tail(sent)
    /\ frame_queue' = Append(frame_queue, Head(sent).slot)
    /\ UNCHANGED <<bus, fdinfo, import_generation, surface, thread, compositor,
                   returned, buf_idx, generation, counters, doubled>>
-----------------------------------------------------------------------------
(* The server's run thread.                                                *)

Acquires ==
    /\ bus = "up" /\ buf_idx = NoSlot /\ returned # <<>>
    /\ buf_idx' = Head(returned)
    /\ returned' = Tail(returned)
    /\ UNCHANGED <<bus, ipc, surface, thread, compositor, generation, sent,
                   counters, doubled>>

Renders ==
    /\ bus = "up" /\ buf_idx # NoSlot
    /\ sent' = Append(sent, FrameMsg(buf_idx))
    /\ buf_idx' = NoSlot
    /\ UNCHANGED <<bus, ipc, surface, thread, compositor, returned, generation,
                   counters, doubled>>

(* The HUD no longer fits: render() makes larger buffers instead of        *)
(* drawing, and run() announces them and keeps the slot.                   *)
Resizes ==
    /\ bus = "up" /\ buf_idx # NoSlot /\ resizes < MaxResizes
    /\ resizes' = resizes + 1
    /\ generation' = generation + 1
    /\ sent' = Append(sent, DmabufMsg(generation + 1))
    /\ UNCHANGED <<bus, ipc, surface, thread, compositor, returned, buf_idx,
                   surfaces, losses, doubled>>
-----------------------------------------------------------------------------
(* The compositor lets go of a buffer that another commit has replaced.    *)
(* The event of a buffer that was destroyed finds no listener.             *)
Releases ==
    \E b \in held \ {shown} :
        /\ held' = held \ {b}
        /\ events' = IF b.gen = buffers THEN Append(events, b.slot) ELSE events
        /\ UNCHANGED <<bus, ipc, surface, thread, shown, returned, server,
                       counters, doubled>>
-----------------------------------------------------------------------------
(* The Wayland thread: run_thread.                                         *)

(* release_to_server gives up when the client is not connected.            *)
GiveBack(slots) == IF connected THEN returned \o slots ELSE returned

(* Mutant: buffer_release only clears busy.                                *)
DispatchKeeps ==
    /\ busy' = busy \ Range(events)
    /\ returned' = returned
    /\ events' = <<>>

(* dispatch_events: buffer_release clears busy and returns the slot.       *)
DispatchEvents ==
    /\ busy' = busy \ Range(events)
    /\ returned' = GiveBack(events)
    /\ events' = <<>>

(* A round of the loop starts with the events.  What happens elsewhere     *)
(* before update_import runs might as well have happened before them.      *)
SeesLoss ==
    /\ pc = "dispatch" /\ ~connected
    /\ DispatchEvents
    /\ pc' = "detach"
    /\ UNCHANGED <<bus, ipc, buffers, attached, taken, imported_generation,
                   shown, held, server, counters, doubled>>

(* The server is gone: drop its frames, show nothing.                      *)
detach ==
    /\ pc = "detach"
    /\ pc' = "dispatch"
    /\ frame_queue' = <<>>
    /\ busy' = {}
    /\ shown' = IF attached THEN NoBuffer ELSE shown
    /\ attached' = FALSE
    /\ UNCHANGED <<bus, fdinfo, import_generation, buffers, taken,
                   imported_generation, held, events, returned, server,
                   counters, doubled>>

(* Mutant: buffers are only imported while there are none.                 *)
HasBuffers == buffers # 0 \/ fdinfo = 0

(* The early returns of update_import.                                     *)
NothingToImport ==
    \/ import_generation = imported_generation /\ buffers # 0
    \/ fdinfo = 0

(* Mutant: the frames are dropped before the early return.                 *)
SkipsAndClears ==
    /\ pc = "dispatch" /\ connected /\ NothingToImport
    /\ DispatchEvents
    /\ pc' = "present"
    /\ frame_queue' = <<>>
    /\ UNCHANGED <<bus, fdinfo, import_generation, buffers, attached, taken,
                   imported_generation, shown, held, server, counters, doubled>>

SkipsImport ==
    /\ pc = "dispatch" /\ connected /\ NothingToImport
    /\ DispatchEvents
    /\ pc' = "present"
    /\ UNCHANGED <<bus, ipc, buffers, attached, taken, imported_generation,
                   shown, held, server, counters, doubled>>

(* update_import takes fdinfo out of the IPCClient and, if something is    *)
(* attached, takes it off and waits for the compositor to have done so.    *)
TakesImport ==
    /\ pc = "dispatch" /\ connected /\ ~NothingToImport
    /\ DispatchEvents
    /\ pc' = "rebuild"
    /\ taken' = import_generation
    /\ fdinfo' = 0
    /\ shown' = IF attached THEN NoBuffer ELSE shown
    /\ UNCHANGED <<bus, frame_queue, import_generation, buffers, attached,
                   imported_generation, held, server, counters, doubled>>

(* Slots that are not back with the client or on their way to the server.  *)
FramesSent == {sent[i].slot : i \in {j \in DOMAIN sent : sent[j].kind = "frame_ready"}}
OnTheWay == Range(returned) \union ({buf_idx} \ {NoSlot}) \union FramesSent

(* The rest of update_import, after the round trip has dispatched: drop    *)
(* the old buffers and frames, make new buffers and hand out every slot.   *)
Rebuilds ==
    LET dispatched == IF attached THEN events ELSE <<>>
    IN  /\ pc = "rebuild"
        /\ pc' = "present"
        /\ attached' = FALSE
        /\ buffers' = taken
        /\ busy' = {}
        /\ frame_queue' = <<>>
        /\ imported_generation' = taken
        /\ taken' = 0
        /\ events' = <<>>
        /\ returned' = GiveBack(dispatched \o AllSlots)
        /\ doubled' = (doubled \/ OnTheWay # {} \/ dispatched # <<>>)
        /\ UNCHANGED <<bus, fdinfo, import_generation, shown, held, server,
                       counters>>

(* Mutant: the slot is given back without waiting for the compositor.      *)
PresentsAndReturns ==
    /\ pc = "present"
    /\ buffers # 0 /\ frame_queue # <<>> /\ Head(frame_queue) \notin busy
    /\ pc' = "dispatch"
    /\ frame_queue' = Tail(frame_queue)
    /\ shown' = [slot |-> Head(frame_queue), gen |-> buffers]
    /\ held' = held \union {shown'}
    /\ attached' = TRUE
    /\ returned' = GiveBack(<<Head(frame_queue)>>)
    /\ UNCHANGED <<bus, fdinfo, import_generation, buffers, busy, taken,
                   imported_generation, events, server, counters, doubled>>

(* present(): a frame for a buffer that is still busy is dropped.          *)
Presents ==
    /\ pc = "present"
    /\ buffers # 0 /\ frame_queue # <<>> /\ Head(frame_queue) \notin busy
    /\ pc' = "dispatch"
    /\ frame_queue' = Tail(frame_queue)
    /\ busy' = busy \union {Head(frame_queue)}
    /\ shown' = [slot |-> Head(frame_queue), gen |-> buffers]
    /\ held' = held \union {shown'}
    /\ attached' = TRUE
    /\ UNCHANGED <<bus, fdinfo, import_generation, buffers, taken,
                   imported_generation, events, returned, server, counters,
                   doubled>>

PresentsNothing ==
    /\ pc = "present"
    /\ \/ (buffers = 0 \/ frame_queue = <<>>) /\ UNCHANGED frame_queue
       \/ /\ buffers # 0 /\ frame_queue # <<>> /\ Head(frame_queue) \in busy
          /\ frame_queue' = Tail(frame_queue)
    /\ pc' = "dispatch"
    /\ UNCHANGED <<bus, fdinfo, import_generation, surface, taken,
                   imported_generation, compositor, returned, server, counters,
                   doubled>>

WaylandThread == SeesLoss \/ detach \/ SkipsImport \/ TakesImport
                 \/ Rebuilds \/ Presents \/ PresentsNothing
-----------------------------------------------------------------------------
(* The application destroys its surface and draws to another: the thread   *)
(* ends at the end of its loop and starts again for the new surface.  The  *)
(* generation imported last is kept.                                       *)
NewSurface ==
    /\ pc = "dispatch" /\ losses + surfaces <= MaxUpsets
    /\ surfaces' = surfaces + 1
    /\ buffers' = 0 /\ busy' = {} /\ attached' = FALSE
    /\ shown' = NoBuffer /\ events' = <<>>
    /\ UNCHANGED <<bus, ipc, thread, held, returned, server, resizes,
                   losses, doubled>>

Next == Joins \/ Disconnects \/ Reconnects \/ on_dmabuf \/ on_frame
        \/ Acquires \/ Renders \/ Resizes \/ Releases \/ WaylandThread
        \/ NewSurface

Spec == Init /\ [][Next]_vars

(* The threads run, the compositor releases what it no longer shows, and   *)
(* the application reads the events of its display.  Nothing promises that *)
(* a lost server comes back.                                               *)
Fairness ==
    /\ WF_vars(Joins) /\ WF_vars(on_dmabuf \/ on_frame)
    /\ WF_vars(Acquires \/ Renders)
    /\ WF_vars(Releases)
    /\ WF_vars(WaylandThread)

FairSpec == Spec /\ Fairness
-----------------------------------------------------------------------------
TypeOK ==
    /\ bus \in {"down", "joining", "up"}
    /\ frame_queue \in Seq(Slot) /\ returned \in Seq(Slot)
    /\ {fdinfo, import_generation, taken, buffers, imported_generation,
        generation} \subseteq Gen
    /\ pc \in {"dispatch", "detach", "rebuild", "present"}
    /\ busy \subseteq Slot
    /\ attached \in BOOLEAN /\ doubled \in BOOLEAN
    /\ shown \in Buffer \union {NoBuffer}
    /\ held \subseteq Buffer
    /\ events \in Seq(Slot)
    /\ buf_idx \in Slot \union {NoSlot}
    /\ \A i \in DOMAIN sent :
           \/ sent[i].kind = "dmabuf" /\ sent[i].gen \in Gen
           \/ sent[i].kind = "frame_ready" /\ sent[i].slot \in Slot
    /\ resizes \in 0 .. MaxResizes
    /\ surfaces \in 1 .. MaxUpsets + 1 /\ losses \in 0 .. MaxUpsets

(* ServerDrawsWhatWasReleased: the server does not draw into a buffer the  *)
(* compositor still reads, until an import hands out slots that were not   *)
(* back, which the first one never does.  Every state is well typed, too.  *)
ServerDrawsWhatWasReleased ==
    /\ TypeOK
    /\ generation <= 1 => ~doubled
    /\ ~doubled /\ buf_idx # NoSlot =>
           [slot |-> buf_idx, gen |-> generation] \notin held

(* SlotsStayInPlay: once the current set is imported, every slot is with   *)
(* the server, on its way, or with the compositor, which will release it.  *)
WithCompositor ==
    {s \in busy : [slot |-> s, gen |-> buffers] \in held \/ s \in Range(events)}
SlotsStayInPlay ==
    bus = "up" /\ buffers = generation =>
        Slot = OnTheWay \union Range(frame_queue) \union WithCompositor

(* NewSetsAreImported: while the surface stays, the buffers announced last *)
(* are those the overlay shows.                                            *)
NewSetsAreImported ==
    (bus = "up" /\ buffers # generation)
        ~> (buffers = generation \/ ~connected \/ surfaces > 1)

(* KeepsPresenting: with a server and the current buffers, new frames are  *)
(* committed for ever.                                                     *)
KeepsPresenting ==
    <>[](connected /\ buffers = generation) => []<><<Presents>>_vars
=============================================================================
