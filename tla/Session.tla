------------------------------ MODULE Session ------------------------------
(***************************************************************************)
(* The connection between one client and a server that may be started      *)
(* before or after it, stop and be started again: the bus thread of        *)
(* src/mangohud-next/ipc/ipc_client.cpp, the two application calls that     *)
(* post work to it (send_resolution and frame_ready), and what the server's *)
(* Client object keeps of them.                                            *)
(*                                                                         *)
(* FrameLoop models one connection in detail.  Here a frame is drawn and   *)
(* rendered in one step each, buffers are announced once per connection    *)
(* and every call of a driver succeeds.  What matters is what survives a   *)
(* connection: posted work, slots in the client's hands, the buffers and   *)
(* the slot the overlay shows, and the swapchain size the client believes  *)
(* it has sent.                                                            *)
(***************************************************************************)
EXTENDS Integers, Sequences, FiniteSets

CONSTANTS
    BufferSize,    \* shared buffers, IPCClient::buffer_size
    Sizes,         \* the sizes a swapchain may have
    NoSize,        \* no size yet: width and height 0
    MaxStarts,     \* bound: times the server is started
    MaxResizes     \* bound: swapchains the application creates

ASSUME BufferSizeAssumption == BufferSize \in Nat \ {0}
ASSUME SizesAssumption == NoSize \notin Sizes
ASSUME BoundsAssumption == MaxStarts \in Nat /\ MaxResizes \in Nat

Slots == 0 .. BufferSize - 1
NoSlot == -1

Hello == [kind |-> "on_connect"]
Size(z) == [kind |-> "resolution", size |-> z]
Frame(s) == [kind |-> "frame_ready", slot |-> s]
Dmabuf == [kind |-> "dmabuf"]
Work == {Hello} \union {Size(z) : z \in Sizes} \union {Frame(s) : s \in Slots}
News == {Dmabuf} \union {Frame(s) : s \in Slots}

VARIABLES
    (* The client process. *)
    bus,            \* the bus thread: not started, connecting, in its loop
    connected,      \* IPCClient::connected
    work_q,         \* IPCClient::work_q
    signalling,     \* size that send_resolution_signal is about to send
    resolution,     \* resolution_width and resolution_height
    sent,           \* sent_resolution_width and sent_resolution_height
    frame_queue,    \* IPCClient::frame_queue
    current_slot,   \* OverlayVK::current_slot
    last_slot,      \* OverlayVK::last_slot, whose image is in the cache
    imported,       \* OverlayVK::dmabufs is not empty
    resizes,        \* swapchains created so far
    (* The connection. *)
    link,           \* "none", "open", or "closed" by the end of the server
    to_server, to_client,
    (* The server process. *)
    up,             \* the server runs
    starts,         \* times it was started
    greeted,        \* its Client has read on_connect
    announced,      \* its Renderer's buffers are sent: send_dmabuf is reset
    known,          \* Client::resolutionWidth and resolutionHeight
    server_queue    \* Client::frame_queue

shown == <<current_slot, last_slot, imported>>
overlay == <<resolution, frame_queue, shown, resizes>>
client == <<bus, connected, work_q, signalling, sent>>
wire == <<link, to_server, to_client>>
server == <<up, starts, greeted, announced, known, server_queue>>
vars == <<client, overlay, wire, server>>

TypeOK ==
    /\ bus \in {"new", "connect", "loop"}
    /\ connected \in BOOLEAN
    /\ work_q \in Seq(Work)
    /\ {signalling, resolution, sent, known} \subseteq Sizes \union {NoSize}
    /\ frame_queue \in Seq(Slots) /\ server_queue \in Seq(Slots)
    /\ {current_slot, last_slot} \subseteq Slots \union {NoSlot}
    /\ link \in {"none", "open", "closed"}
    /\ to_server \in Seq(Work) /\ to_client \in Seq(News)
    /\ {imported, up, greeted, announced} \subseteq BOOLEAN
    /\ starts \in 0 .. MaxStarts /\ resizes \in 0 .. MaxResizes

Init ==
    /\ bus = "new" /\ connected = FALSE /\ work_q = <<>>
    /\ signalling = NoSize /\ resolution = NoSize /\ sent = NoSize
    /\ frame_queue = <<>> /\ current_slot = NoSlot /\ last_slot = NoSlot
    /\ imported = FALSE /\ resizes = 0
    /\ link = "none" /\ to_server = <<>> /\ to_client = <<>>
    /\ up = FALSE /\ starts = 0
    /\ greeted = FALSE /\ announced = FALSE /\ known = NoSize /\ server_queue = <<>>
----------------------------------------------------------------------------
(* The application's threads, inside the layer.                            *)

(* A present starts the bus thread once: IPCClient::start.                 *)
Start ==
    /\ bus = "new"
    /\ bus' = "connect"
    /\ UNCHANGED <<connected, work_q, signalling, sent, overlay, wire, server>>

(* send_resolution: remember the size, post it when it differs from the    *)
(* size sent last and there is a connection.  The post follows the         *)
(* unlock; nothing the bus thread does in between can tell.                *)
SendResolution(z) ==
    /\ resizes < MaxResizes
    /\ resizes' = resizes + 1
    /\ resolution' = z
    /\ work_q' = IF connected /\ sent # z THEN Append(work_q, Size(z)) ELSE work_q
    /\ UNCHANGED <<bus, connected, signalling, sent, frame_queue, shown,
                   wire, server>>

(* OverlayVK::draw does nothing before buffers are imported; the buffers   *)
(* of a connection that was lost stay.                                     *)
Drawing == connected /\ imported

(* The overlay takes the oldest frame; its fence has signalled, or it has  *)
(* none.  A draw that is given up keeps the slot for the next one.         *)
NextFrame ==
    /\ Drawing /\ current_slot = NoSlot /\ frame_queue # <<>>
    /\ current_slot' = Head(frame_queue)
    /\ frame_queue' = Tail(frame_queue)
    /\ UNCHANGED <<client, resolution, last_slot, imported, resizes, wire, server>>

(* copy_dmabuf_to_cache copies the buffer of a slot other than the last    *)
(* and posts frame_ready.  The cache of the last slot is valid: last_slot  *)
(* and the cache are set together here and forgotten together in OnDmabuf. *)
DrawCopy ==
    /\ Drawing /\ current_slot \notin {NoSlot, last_slot}
    /\ work_q' = Append(work_q, Frame(current_slot))
    /\ last_slot' = current_slot
    /\ current_slot' = NoSlot
    /\ UNCHANGED <<bus, connected, signalling, sent, resolution, frame_queue,
                   imported, resizes, wire, server>>

(* It draws the slot it drew last from the cache.  Nothing was copied, so  *)
(* nothing is posted: the slot is dropped.                                 *)
DrawCached ==
    /\ Drawing /\ current_slot # NoSlot /\ current_slot = last_slot
    /\ current_slot' = NoSlot
    /\ UNCHANGED <<client, resolution, frame_queue, last_slot, imported, resizes,
                   wire, server>>
----------------------------------------------------------------------------
(* The client's bus thread.                                                *)

(* connect_bus fails while no server answers; bus_thread sleeps a second   *)
(* and tries again.                                                        *)
ConnectFails ==
    /\ bus = "connect" /\ ~up
    /\ UNCHANGED vars

(* connect_bus, and on_connect, which only posts.  Work posted for an      *)
(* earlier connection is still in front of it.                             *)
Connect ==
    /\ bus = "connect" /\ up
    /\ bus' = "loop"
    /\ link' = "open" /\ to_server' = <<>> /\ to_client' = <<>>
    /\ work_q' = Append(work_q, Hello)
    /\ connected' = TRUE
    /\ UNCHANGED <<signalling, sent, overlay, server>>

Dispatching == bus = "loop" /\ signalling = NoSize

(* sd_bus_send: fails once the other end is closed.                        *)
Sent(msg) == to_server' = IF link = "open" THEN Append(to_server, msg) ELSE to_server

TakesWork(kind) ==
    /\ Dispatching /\ work_q # <<>> /\ Head(work_q).kind = kind
    /\ work_q' = Tail(work_q)

(* Mutant: on_connect hands out the slots only the first time.             *)
HelloOnce ==
    /\ TakesWork("on_connect")
    /\ Sent(Hello)
    /\ frame_queue' = IF link = "open" /\ starts = 1
                        THEN frame_queue \o [k \in 1 .. BufferSize |-> k - 1]
                        ELSE frame_queue
    /\ signalling' = IF link = "open" THEN resolution ELSE signalling
    /\ UNCHANGED <<bus, connected, sent, resolution, shown, resizes,
                   link, to_client, server>>

(* Mutant: on_connect relies on sent_resolution_* and sends only a new size. *)
HelloNewSize ==
    /\ TakesWork("on_connect")
    /\ Sent(Hello)
    /\ IF link = "open"
         THEN /\ frame_queue' = frame_queue \o [k \in 1 .. BufferSize |-> k - 1]
              /\ signalling' = IF resolution = sent THEN NoSize ELSE resolution
         ELSE UNCHANGED <<frame_queue, signalling>>
    /\ UNCHANGED <<bus, connected, sent, resolution, shown, resizes,
                   link, to_client, server>>

(* The task of on_connect: greet, hand every slot to the overlay, read the *)
(* size under the lock.  A failed send leaves out the rest.                *)
RunHello ==
    /\ TakesWork("on_connect")
    /\ Sent(Hello)
    /\ IF link = "open"
         THEN /\ frame_queue' = frame_queue \o [k \in 1 .. BufferSize |-> k - 1]
              /\ signalling' = resolution
         ELSE UNCHANGED <<frame_queue, signalling>>
    /\ UNCHANGED <<bus, connected, sent, resolution, shown, resizes,
                   link, to_client, server>>

RunResolution ==
    /\ TakesWork("resolution")
    /\ signalling' = Head(work_q).size
    /\ UNCHANGED <<bus, connected, sent, overlay, wire, server>>

(* send_resolution_signal, and the lock under which both tasks record it.  *)
SendSize ==
    /\ bus = "loop" /\ signalling # NoSize
    /\ Sent(Size(signalling))
    /\ sent' = IF link = "open" THEN signalling ELSE sent
    /\ signalling' = NoSize
    /\ UNCHANGED <<bus, connected, work_q, overlay, link, to_client, server>>

(* frame_ready's task throws when it cannot send and the slot is lost.     *)
RunFrame ==
    /\ TakesWork("frame_ready")
    /\ Sent(Head(work_q))
    /\ UNCHANGED <<bus, connected, signalling, sent, overlay, link, to_client, server>>

Hears(kind) ==
    /\ Dispatching /\ to_client # <<>> /\ Head(to_client).kind = kind
    /\ to_client' = Tail(to_client)

(* init_dmabufs: new buffers, and nothing of them is in the cache.         *)
OnDmabuf ==
    /\ Hears("dmabuf")
    /\ imported' = TRUE
    /\ last_slot' = NoSlot
    /\ UNCHANGED <<client, resolution, frame_queue, current_slot, resizes,
                   link, to_server, server>>

OnFrame ==
    /\ Hears("frame_ready")
    /\ frame_queue' = Append(frame_queue, Head(to_client).slot)
    /\ UNCHANGED <<client, resolution, shown, resizes, link, to_server, server>>

(* Mutant: a lost connection does not end the event loop.                 *)
DisconnectedForGood ==
    /\ Dispatching /\ link = "closed"
    /\ connected' = FALSE
    /\ UNCHANGED <<bus, work_q, signalling, sent, overlay, wire, server>>

(* on_bus_disconnected ends the loop, bus_thread closes the bus and goes   *)
(* round.  After a failed send the bus reports it before what it has read. *)
OnDisconnected ==
    /\ Dispatching /\ link = "closed"
    /\ connected' = FALSE
    /\ bus' = "connect"
    /\ link' = "none" /\ to_client' = <<>>
    /\ UNCHANGED <<work_q, signalling, sent, overlay, to_server, server>>
----------------------------------------------------------------------------
(* The server process.                                                     *)

ServerStarts ==
    /\ ~up /\ starts < MaxStarts
    /\ up' = TRUE /\ starts' = starts + 1
    /\ UNCHANGED <<client, overlay, wire, greeted, announced, known, server_queue>>

ServerStops ==
    /\ up
    /\ up' = FALSE /\ greeted' = FALSE /\ announced' = FALSE
    /\ known' = NoSize /\ server_queue' = <<>>
    /\ link' = IF link = "open" THEN "closed" ELSE link
    /\ to_server' = <<>>
    /\ UNCHANGED <<client, overlay, to_client, starts>>

Receives(kind) ==
    /\ link = "open" /\ to_server # <<>> /\ Head(to_server).kind = kind
    /\ to_server' = Tail(to_server)
    /\ UNCHANGED <<client, overlay, link, to_client, up, starts, announced>>

ServerGreeted ==
    /\ Receives("on_connect")
    /\ greeted' = TRUE
    /\ UNCHANGED <<known, server_queue>>

ServerSized ==
    /\ Receives("resolution")
    /\ known' = Head(to_server).size
    /\ UNCHANGED <<greeted, server_queue>>

ServerReceivesFrame ==
    /\ Receives("frame_ready")
    /\ server_queue' = Append(server_queue, Head(to_server).slot)
    /\ UNCHANGED <<greeted, known>>

(* Client::run: once on_connect told the API it makes the buffers and      *)
(* announces them, then it renders into the oldest slot.                   *)
ServerAnnounces ==
    /\ link = "open" /\ greeted /\ ~announced
    /\ announced' = TRUE
    /\ to_client' = Append(to_client, Dmabuf)
    /\ UNCHANGED <<client, overlay, link, to_server, up, starts, greeted, known,
                   server_queue>>

ServerRenders ==
    /\ link = "open" /\ announced /\ server_queue # <<>>
    /\ server_queue' = Tail(server_queue)
    /\ to_client' = Append(to_client, Frame(Head(server_queue)))
    /\ UNCHANGED <<client, overlay, link, to_server, up, starts, greeted, announced,
                   known>>
----------------------------------------------------------------------------
Draw == DrawCopy \/ DrawCached
App == Start \/ (\E z \in Sizes : SendResolution(z)) \/ NextFrame \/ Draw
BusThread == \/ ConnectFails \/ Connect
             \/ RunHello \/ RunResolution \/ SendSize \/ RunFrame
             \/ OnDmabuf \/ OnFrame \/ OnDisconnected
ServerRun == ServerAnnounces \/ ServerRenders
ServerBus == ServerGreeted \/ ServerSized \/ ServerReceivesFrame
Next == App \/ BusThread \/ ServerStarts \/ ServerStops \/ ServerBus \/ ServerRun

(* The application presents, so it starts the thread and keeps drawing;    *)
(* sd_event serves each of its sources.  Nobody has to start the server.   *)
Fairness ==
    /\ WF_vars(Start)
    /\ WF_vars(Connect)
    /\ WF_vars(RunHello \/ RunResolution \/ SendSize \/ RunFrame)
    /\ WF_vars(OnDmabuf \/ OnFrame) /\ WF_vars(OnDisconnected)
    /\ WF_vars(ServerBus) /\ WF_vars(ServerRun)
    /\ WF_vars(NextFrame) /\ WF_vars(Draw)

Spec == Init /\ [][Next]_vars /\ Fairness
----------------------------------------------------------------------------
Times(s, seq) == Cardinality({k \in DOMAIN seq : seq[k] = s})

(* How many times slot s is in play: as a frame the overlay may draw or    *)
(* draws, on its way, or as a slot the server may render into.             *)
Copies(s) ==
    Times(s, frame_queue) + (IF current_slot = s THEN 1 ELSE 0)
    + Times(Frame(s), work_q) + Times(Frame(s), to_server)
    + Times(s, server_queue) + Times(Frame(s), to_client)

OutOfPlay == {s \in Slots : Copies(s) = 0}

(* A connection that was made works, whatever an earlier one left in the   *)
(* queues or took away with it (ipc_client.cpp:376-380): once the server   *)
(* has been greeted at most one of three or more slots is out of play, the *)
(* slot the overlay still showed from the connection before, which a draw  *)
(* from the cache drops (vulkan.cpp:456, 580-592).  A reconnection adds    *)
(* one copy to what is left of the last connection, and nothing else does. *)
(* Every state is well typed, too.                                         *)
SlotsStayInPlay ==
    /\ TypeOK
    /\ greeted /\ BufferSize > 2 => Cardinality(OutOfPlay) <= 1
    /\ \A s \in Slots : Copies(s) <= starts

Quiet ==
    /\ greeted /\ signalling = NoSize
    /\ \A k \in DOMAIN work_q : work_q[k].kind = "frame_ready"
    /\ \A k \in DOMAIN to_server : to_server[k].kind = "frame_ready"

(* What the client takes for the size it sent is what this server knows,   *)
(* although sent_resolution_* outlives the connection it was sent on       *)
(* (ipc_client.cpp:390-394, 436-450).                                      *)
SentIsKnown == Quiet /\ resolution # NoSize => known = sent

(* Server and client may be started in any order and the server may be     *)
(* started again: once it stays up, the client's connection is made and    *)
(* stays, and with three or more buffers frames go round again: for ever   *)
(* there is a new one for the overlay to draw                              *)
(* (ipc_client.cpp:310-334, 376-380).                                      *)
Reconnects ==
    <>[]up => /\ <>[](connected /\ greeted)
              /\ BufferSize > 2 => []<>(current_slot \notin {NoSlot, last_slot})
=============================================================================
