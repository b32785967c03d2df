----------------------------- MODULE FrameLoop -----------------------------
(***************************************************************************)
(* The frame loop of mangohud-next: one Vulkan application (client/        *)
(* vulkan.cpp, ipc/ipc_client.cpp) and its Client object in the server     *)
(* (ipc/client.cpp), from the handshake of one session on.                 *)
(*                                                                         *)
(* The buffers are numbered 0 .. N-1 and circulate as "frame_ready"        *)
(* messages: client frame_queue -> current_slot -> client work queue ->    *)
(* bus -> server frame_queue -> buf_idx -> server work queue -> bus ->     *)
(* client frame_queue.  Six threads move them: the application's present   *)
(* thread, the client's bus thread, the server's bus and run threads of    *)
(* this client, and the GPUs of both processes.                            *)
(*                                                                         *)
(* Abstracted: the fence fd that travels with a frame is the membership of *)
(* its slot in "reading" (the client's GPU) or "writing" (the server's):   *)
(* there is one outstanding access per slot and side.  A generation counts *)
(* the buffer sets the server created, as the contents of dmabuf messages. *)
(***************************************************************************)
EXTENDS Integers, Sequences, FiniteSets

CONSTANTS
    N,             \* buffer_size: the swapchain's image count
    MaxResizes,    \* bound: how often the HUD changes its size
    MaxFaults      \* bound: failing driver and bus calls

ASSUME NAssumption == N \in Nat \ {0}
ASSUME BoundsAssumption == MaxResizes \in Nat /\ MaxFaults \in Nat

Slot == 0 .. N - 1
NoSlot == -1
Gen == 0 .. MaxResizes + 1

VARIABLES
    (* the client process *)
    client_queue,   \* IPCClient::frame_queue
    current_slot,   \* OverlayVK::current_slot
    last_slot,      \* OverlayVK::last_slot
    valid,          \* slots whose cached image is valid
    imported,       \* generation of OverlayVK::dmabufs, 0 when it is empty
    client_work,    \* IPCClient::work_q
    (* the private bus between them *)
    to_server,
    to_client,
    (* the server process *)
    api_known,      \* resources->api # Backend::NONE
    server_queue,   \* Client::frame_queue
    buf_idx,        \* the local of Client::run
    run_pc,         \* where Client::run is
    send_dmabuf,    \* resources->send_dmabuf
    generation,     \* of resources->buffer, 0 when there is no Renderer
    server_work,    \* Client::work_q
    (* the GPUs and the environment *)
    reading,        \* slots with a copy in flight on the client's GPU
    writing,        \* slots with a rendering in flight on the server's GPU
    faults,         \* failed calls so far
    unfenced        \* history: slots taken over while their copy was in flight

overlay == <<current_slot, last_slot, valid, imported>>
run == <<buf_idx, run_pc, send_dmabuf, generation>>
gpu == <<reading, writing>>
vars == <<client_queue, overlay, client_work, to_server, to_client, api_known,
          server_queue, run, server_work, gpu, faults, unfenced>>

Frame == [slot : Slot, gen : Gen]
ClientMsg == [kind : {"on_connect"}, slot : {NoSlot}]
             \union [kind : {"frame_ready"}, slot : Slot]
ServerMsg == [kind : {"dmabuf"}, slot : {NoSlot}, gen : Gen]
             \union [kind : {"frame_ready"}, slot : Slot, gen : Gen]

FrameReady(s) == [kind |-> "frame_ready", slot |-> s]

(* A call into the driver or the bus fails.                                *)
Fault ==
    /\ faults < MaxFaults
    /\ faults' = faults + 1

(* IPCClient::bus_thread has connected, and on_connect posted the handshake *)
Init ==
    /\ client_queue = <<>>
    /\ current_slot = NoSlot
    /\ last_slot = NoSlot
    /\ valid = {}
    /\ imported = 0
    /\ client_work = <<[kind |-> "on_connect", slot |-> NoSlot]>>
    /\ to_server = <<>>
    /\ to_client = <<>>
    /\ api_known = FALSE
    /\ server_queue = <<>>
    /\ buf_idx = NoSlot
    /\ run_pc = "boot"
    /\ send_dmabuf = FALSE
    /\ generation = 0
    /\ server_work = <<>>
    /\ reading = {}
    /\ writing = {}
    /\ faults = 0
    /\ unfenced = {}
-----------------------------------------------------------------------------
(* The client's present thread: OverlayVK::draw, under OverlayVK::m.       *)

(* Mutant: the fence of the front frame is not looked at.                  *)
CanTakeUnfenced ==
    current_slot = NoSlot /\ client_queue # <<>>

(* IPCClient::next_frame pops the front frame if its fence has signalled.  *)
CanTake ==
    /\ current_slot = NoSlot
    /\ client_queue # <<>>
    /\ Head(client_queue).slot \notin writing

Held ==
    IF CanTake THEN Head(client_queue).slot ELSE current_slot

NextFrame ==
    client_queue' = IF CanTake THEN Tail(client_queue) ELSE client_queue

(* The slot that copy_dmabuf_to_cache draws, and whether it copies the     *)
(* shared buffer first or draws what it cached before.                     *)
Drawn == IF Held # NoSlot THEN Held ELSE last_slot

RefreshCache ==
    \/ Held # NoSlot /\ Held # last_slot
    \/ Drawn \notin valid

Drawing == imported > 0 /\ Drawn # NoSlot

DrawCopy ==
    /\ Drawing /\ RefreshCache
    /\ NextFrame
    /\ current_slot' = NoSlot
    /\ last_slot' = Drawn
    /\ valid' = valid \union {Drawn}
    /\ reading' = reading \union {Drawn}
    /\ unfenced' = unfenced \ {Drawn}
    /\ client_work' = Append(client_work, FrameReady(Drawn))
    /\ UNCHANGED <<imported, to_server, to_client, api_known, server_queue,
                   run, server_work, writing, faults>>

(* Without a copy there is no fence to pass on: a frame taken is dropped.  *)
DrawCached ==
    /\ Drawing /\ ~RefreshCache
    /\ NextFrame
    /\ current_slot' = NoSlot
    /\ UNCHANGED <<last_slot, valid, imported, client_work, to_server,
                   to_client, api_known, server_queue, run, server_work, gpu,
                   faults, unfenced>>

(* An early return before the copy is recorded keeps the slot for the next *)
(* draw.  It takes no fault: the fence of the swapchain image may still be *)
(* pending after 100 ms, and is for ever once a reset fence was not        *)
(* submitted (the other images keep drawing).                              *)
DrawAborts ==
    /\ Drawing
    /\ NextFrame
    /\ current_slot' = Held
    /\ UNCHANGED <<last_slot, valid, imported, client_work, to_server,
                   to_client, api_known, server_queue, run, server_work, gpu,
                   faults, unfenced>>

(* vkEndCommandBuffer fails after last_slot and valid were set: nothing is *)
(* submitted, and the retry takes the slot for one that is already cached. *)
EndCommandBufferFails ==
    /\ Drawing /\ RefreshCache /\ Fault
    /\ NextFrame
    /\ current_slot' = Held
    /\ last_slot' = Drawn
    /\ valid' = valid \union {Drawn}
    /\ UNCHANGED <<imported, client_work, to_server, to_client, api_known,
                   server_queue, run, server_work, gpu, unfenced>>

(* vkQueueSubmit fails, or the semaphore yields no sync fd: no frame_ready *)
ExportFails ==
    /\ Drawing /\ RefreshCache /\ Fault
    /\ NextFrame
    /\ current_slot' = NoSlot
    /\ last_slot' = Drawn
    /\ valid' = valid \union {Drawn}
    /\ \/ UNCHANGED <<reading, unfenced>>
       \/ /\ reading' = reading \union {Drawn}
          /\ unfenced' = unfenced \ {Drawn}
    /\ UNCHANGED <<imported, client_work, to_server, to_client, api_known,
                   server_queue, run, server_work, writing>>

Draw == DrawCopy \/ DrawCached
DrawFails == DrawAborts \/ EndCommandBufferFails \/ ExportFails
-----------------------------------------------------------------------------
(* The client's bus thread.                                                *)

(* Mutant: the slots are numbered from one.                                *)
HandshakeFromOne ==
    /\ client_work # <<>> /\ Head(client_work).kind = "on_connect"
    /\ client_work' = Tail(client_work)
    /\ to_server' = Append(to_server, Head(client_work))
    /\ client_queue' = client_queue \o [i \in 1 .. N |-> [slot |-> i, gen |-> 0]]
    /\ UNCHANGED <<overlay, to_client, api_known, server_queue, run,
                   server_work, gpu, faults, unfenced>>

(* The task posted by IPCClient::on_connect: announce the client, then put *)
(* every slot, without a fence, into the client's own queue.               *)
ClientSendsHandshake ==
    /\ client_work # <<>> /\ Head(client_work).kind = "on_connect"
    /\ client_work' = Tail(client_work)
    /\ to_server' = Append(to_server, Head(client_work))
    /\ client_queue' = client_queue \o [i \in 1 .. N |-> [slot |-> i - 1, gen |-> 0]]
    /\ UNCHANGED <<overlay, to_client, api_known, server_queue, run,
                   server_work, gpu, faults, unfenced>>

(* The task posted by IPCClient::frame_ready.                              *)
ClientSendsFrame ==
    /\ client_work # <<>> /\ Head(client_work).kind = "frame_ready"
    /\ client_work' = Tail(client_work)
    /\ to_server' = Append(to_server, Head(client_work))
    /\ UNCHANGED <<client_queue, overlay, to_client, api_known, server_queue,
                   run, server_work, gpu, faults, unfenced>>

(* sd_bus_emit_signal fails; the exception ends in the packaged_task.      *)
ClientSendFails ==
    /\ client_work # <<>> /\ Head(client_work).kind = "frame_ready"
    /\ Fault
    /\ client_work' = Tail(client_work)
    /\ UNCHANGED <<client_queue, overlay, to_server, to_client, api_known,
                   server_queue, run, server_work, gpu, unfenced>>

(* Mutant: the cache is cleared but the slot shown last is remembered.     *)
ImportKeepsShown ==
    /\ to_client # <<>> /\ Head(to_client).kind = "dmabuf"
    /\ to_client' = Tail(to_client)
    /\ imported' = Head(to_client).gen
    /\ valid' = {}
    /\ reading' = {}
    /\ unfenced' = {}
    /\ UNCHANGED <<client_queue, current_slot, last_slot, client_work,
                   to_server, api_known, server_queue, run, server_work,
                   writing, faults>>

(* on_dmabuf, init_dmabufs: idle the device, forget every cached image.    *)
ClientImports ==
    /\ to_client # <<>> /\ Head(to_client).kind = "dmabuf"
    /\ to_client' = Tail(to_client)
    /\ imported' = Head(to_client).gen
    /\ last_slot' = NoSlot
    /\ valid' = {}
    /\ reading' = {}
    /\ unfenced' = {}
    /\ UNCHANGED <<client_queue, current_slot, client_work, to_server,
                   api_known, server_queue, run, server_work, writing, faults>>

(* IPCClient::on_frame                                                     *)
ClientReceivesFrame ==
    /\ to_client # <<>> /\ Head(to_client).kind = "frame_ready"
    /\ to_client' = Tail(to_client)
    /\ client_queue' = Append(client_queue, [slot |-> Head(to_client).slot,
                                             gen |-> Head(to_client).gen])
    /\ UNCHANGED <<overlay, client_work, to_server, api_known, server_queue,
                   run, server_work, gpu, faults, unfenced>>

ClientBus == ClientSendsHandshake \/ ClientSendsFrame
             \/ ClientImports \/ ClientReceivesFrame
-----------------------------------------------------------------------------
(* The server's bus thread for this client.                                *)

ServerConnects ==
    /\ to_server # <<>> /\ Head(to_server).kind = "on_connect"
    /\ to_server' = Tail(to_server)
    /\ api_known' = TRUE
    /\ UNCHANGED <<client_queue, overlay, client_work, to_client, server_queue,
                   run, server_work, gpu, faults, unfenced>>

(* Mutant: the newest frame is served first.                               *)
ReceiveNewestFirst ==
    /\ to_server # <<>> /\ Head(to_server).kind = "frame_ready"
    /\ to_server' = Tail(to_server)
    /\ server_queue' = <<[slot |-> Head(to_server).slot]>> \o server_queue
    /\ run_pc' = IF run_pc = "waiting" THEN "woken" ELSE run_pc
    /\ UNCHANGED <<client_queue, overlay, client_work, to_client, api_known,
                   buf_idx, send_dmabuf, generation, server_work, gpu, faults,
                   unfenced>>

(* Client::on_frame: push, then notify.  A run thread that is not waiting  *)
(* at that moment misses the notification.                                 *)
ServerReceivesFrame ==
    /\ to_server # <<>> /\ Head(to_server).kind = "frame_ready"
    /\ to_server' = Tail(to_server)
    /\ server_queue' = Append(server_queue, [slot |-> Head(to_server).slot])
    /\ run_pc' = IF run_pc = "waiting" THEN "woken" ELSE run_pc
    /\ UNCHANGED <<client_queue, overlay, client_work, to_client, api_known,
                   buf_idx, send_dmabuf, generation, server_work, gpu, faults,
                   unfenced>>

(* The tasks posted by Client::send_dmabuf and Client::frame_ready.        *)
ServerSends ==
    /\ server_work # <<>>
    /\ server_work' = Tail(server_work)
    /\ to_client' = Append(to_client, Head(server_work))
    /\ UNCHANGED <<client_queue, overlay, client_work, to_server, api_known,
                   server_queue, run, gpu, faults, unfenced>>

(* sd_bus_emit_signal fails in the task of frame_ready: it only logs.      *)
ServerSendFails ==
    /\ server_work # <<>> /\ Head(server_work).kind = "frame_ready"
    /\ Fault
    /\ server_work' = Tail(server_work)
    /\ UNCHANGED <<client_queue, overlay, client_work, to_server, to_client,
                   api_known, server_queue, run, gpu, unfenced>>

ServerBus == ServerConnects \/ ServerReceivesFrame \/ ServerSends
-----------------------------------------------------------------------------
(* The server's run thread: Client::run.                                   *)

(* The API is known: create the Renderer and with it the buffers.          *)
RunStarts ==
    /\ run_pc = "boot" /\ api_known
    /\ run_pc' = "top"
    /\ generation' = 1
    /\ send_dmabuf' = TRUE
    /\ UNCHANGED <<client_queue, overlay, client_work, to_server, to_client,
                   api_known, server_queue, buf_idx, server_work, gpu, faults,
                   unfenced>>

RunSendsDmabuf ==
    /\ run_pc = "top" /\ send_dmabuf
    /\ send_dmabuf' = FALSE
    /\ server_work' = Append(server_work, [kind |-> "dmabuf", slot |-> NoSlot,
                                           gen |-> generation])
    /\ UNCHANGED <<client_queue, overlay, client_work, to_server, to_client,
                   api_known, server_queue, buf_idx, run_pc, generation, gpu,
                   faults, unfenced>>

(* try_acquire_buffer: cv.wait_for without a predicate, for 500 ms.        *)
RunWaits ==
    /\ run_pc = "top" /\ ~send_dmabuf /\ buf_idx = NoSlot
    /\ run_pc' = "waiting"
    /\ UNCHANGED <<client_queue, overlay, client_work, to_server, to_client,
                   api_known, server_queue, buf_idx, send_dmabuf, generation,
                   server_work, gpu, faults, unfenced>>

(* Mutant: the wait has no timeout.                                        *)
WaitForNotification == FALSE

WaitTimesOut ==
    /\ run_pc = "waiting"
    /\ run_pc' = "woken"
    /\ UNCHANGED <<client_queue, overlay, client_work, to_server, to_client,
                   api_known, server_queue, buf_idx, send_dmabuf, generation,
                   server_work, gpu, faults, unfenced>>

RunFindsNothing ==
    /\ run_pc = "woken" /\ server_queue = <<>>
    /\ run_pc' = "top"
    /\ UNCHANGED <<client_queue, overlay, client_work, to_server, to_client,
                   api_known, server_queue, buf_idx, send_dmabuf, generation,
                   server_work, gpu, faults, unfenced>>

(* Mutant: the wait for the fence is left out.                             *)
AcquireUnfenced ==
    /\ run_pc = "woken" /\ server_queue # <<>>
    /\ run_pc' = "top"
    /\ buf_idx' = Head(server_queue).slot
    /\ server_queue' = Tail(server_queue)
    /\ UNCHANGED <<client_queue, overlay, client_work, to_server, to_client,
                   api_known, send_dmabuf, generation, server_work, gpu,
                   faults, unfenced>>

(* The front frame, after the wait for its fence.                          *)
RunAcquires ==
    /\ run_pc = "woken" /\ server_queue # <<>>
    /\ Head(server_queue).slot \notin reading
    /\ run_pc' = "top"
    /\ buf_idx' = Head(server_queue).slot
    /\ server_queue' = Tail(server_queue)
    /\ UNCHANGED <<client_queue, overlay, client_work, to_server, to_client,
                   api_known, send_dmabuf, generation, server_work, gpu,
                   faults, unfenced>>

(* sync_fd_blocking reports success when the fence is still pending after  *)
(* one second: the slot is taken over while the client reads it.           *)
RunGivesUpWait ==
    /\ run_pc = "woken" /\ server_queue # <<>>
    /\ Head(server_queue).slot \in reading
    /\ run_pc' = "top"
    /\ buf_idx' = Head(server_queue).slot
    /\ server_queue' = Tail(server_queue)
    /\ unfenced' = unfenced \union {Head(server_queue).slot}
    /\ UNCHANGED <<client_queue, overlay, client_work, to_server, to_client,
                   api_known, send_dmabuf, generation, server_work, gpu,
                   faults>>

(* Mutant: rendering does not wait until the new buffers were announced.   *)
RenderUnannounced == run_pc = "top" /\ buf_idx # NoSlot

AboutToRender == run_pc = "top" /\ ~send_dmabuf /\ buf_idx # NoSlot

(* Mutant: the run thread keeps the slot it passed on.                     *)
RenderAndKeep ==
    /\ AboutToRender
    /\ writing' = writing \union {buf_idx}
    /\ server_work' = Append(server_work, [kind |-> "frame_ready", slot |-> buf_idx,
                                           gen |-> generation])
    /\ UNCHANGED <<client_queue, overlay, client_work, to_server, to_client,
                   api_known, server_queue, run, reading, faults, unfenced>>

RunRenders ==
    /\ AboutToRender
    /\ writing' = writing \union {buf_idx}
    /\ server_work' = Append(server_work, [kind |-> "frame_ready", slot |-> buf_idx,
                                           gen |-> generation])
    /\ buf_idx' = NoSlot
    /\ UNCHANGED <<client_queue, overlay, client_work, to_server, to_client,
                   api_known, server_queue, run_pc, send_dmabuf, generation,
                   reading, faults, unfenced>>

(* ImGuiCtx::draw found a new HUD size: configure builds new buffers, the  *)
(* slot stays with the run thread, which sends them before it tries again. *)
(* Destroying the old buffers idles a Vulkan device; EGL does not wait.    *)
RunResizes ==
    /\ AboutToRender
    /\ generation <= MaxResizes
    /\ generation' = generation + 1
    /\ send_dmabuf' = TRUE
    /\ writing' \in {{}, writing}
    /\ UNCHANGED <<client_queue, overlay, client_work, to_server, to_client,
                   api_known, server_queue, buf_idx, run_pc, server_work,
                   reading, faults, unfenced>>

(* vkGetFenceFdKHR fails after the submission.  Its out parameter is never *)
(* initialised: -1 makes run() try again, anything else is posted as a     *)
(* frame_ready whose descriptor cannot be sent, and the slot is lost.      *)
RunExportFails ==
    /\ AboutToRender /\ Fault
    /\ writing' = writing \union {buf_idx}
    /\ buf_idx' \in {buf_idx, NoSlot}
    /\ UNCHANGED <<client_queue, overlay, client_work, to_server, to_client,
                   api_known, server_queue, run_pc, send_dmabuf, generation,
                   server_work, reading, unfenced>>

Run == \/ RunStarts \/ RunSendsDmabuf \/ RunWaits \/ WaitTimesOut
       \/ RunFindsNothing \/ RunAcquires \/ RunGivesUpWait
       \/ RunRenders \/ RunResizes
-----------------------------------------------------------------------------
(* The GPUs finish a submission, whose fence then signals.                 *)
CopyDone(s) ==
    /\ s \in reading
    /\ reading' = reading \ {s}
    /\ unfenced' = unfenced \ {s}
    /\ UNCHANGED <<client_queue, overlay, client_work, to_server, to_client,
                   api_known, server_queue, run, server_work, writing, faults>>

RenderingDone(s) ==
    /\ s \in writing
    /\ writing' = writing \ {s}
    /\ UNCHANGED <<client_queue, overlay, client_work, to_server, to_client,
                   api_known, server_queue, run, server_work, reading, faults,
                   unfenced>>

Next ==
    \/ Draw \/ DrawFails
    \/ ClientBus \/ ClientSendFails
    \/ ServerBus \/ ServerSendFails
    \/ Run \/ RunExportFails
    \/ \E s \in Slot : CopyDone(s) \/ RenderingDone(s)

Spec == Init /\ [][Next]_vars

(* Every thread keeps running, the application keeps presenting, and GPU   *)
(* work finishes.  Nothing forces a fault or a change of the HUD's size.   *)
Fairness ==
    /\ WF_vars(Draw)
    /\ WF_vars(ClientSendsHandshake \/ ClientSendsFrame)
    /\ WF_vars(ClientImports \/ ClientReceivesFrame)
    /\ WF_vars(ServerConnects \/ ServerReceivesFrame)
    /\ WF_vars(ServerSends)
    /\ WF_vars(Run)
    /\ \A s \in Slot : WF_vars(CopyDone(s)) /\ WF_vars(RenderingDone(s))

FairSpec == Spec /\ Fairness
-----------------------------------------------------------------------------
(* The type invariant.                                                     *)
TypeOK ==
    /\ client_queue \in Seq(Frame)
    /\ current_slot \in Slot \union {NoSlot}
    /\ last_slot \in Slot \union {NoSlot}
    /\ valid \in SUBSET Slot
    /\ imported \in Gen
    /\ client_work \in Seq(ClientMsg)
    /\ to_server \in Seq(ClientMsg)
    /\ to_client \in Seq(ServerMsg)
    /\ api_known \in BOOLEAN
    /\ server_queue \in Seq([slot : Slot])
    /\ buf_idx \in Slot \union {NoSlot}
    /\ run_pc \in {"boot", "top", "waiting", "woken"}
    /\ send_dmabuf \in BOOLEAN
    /\ generation \in Gen
    /\ server_work \in Seq(ServerMsg)
    /\ reading \in SUBSET Slot
    /\ writing \in SUBSET Slot
    /\ faults \in 0 .. MaxFaults
    /\ unfenced \in SUBSET reading

(* The places a slot passes through, in the order it passes them.          *)
Stage == {"client_queue", "current_slot", "client_work", "to_server",
          "server_queue", "buf_idx", "server_work", "to_client"}

Single(s) == IF s = NoSlot THEN <<>> ELSE <<[slot |-> s]>>

pipe == [client_queue |-> client_queue, current_slot |-> Single(current_slot),
         client_work  |-> client_work,  to_server    |-> to_server,
         server_queue |-> server_queue, buf_idx      |-> Single(buf_idx),
         server_work  |-> server_work,  to_client    |-> to_client]

SlotsIn(seq) == {seq[i].slot : i \in DOMAIN seq} \ {NoSlot}

(* No slot occurs twice in p, a function from stages to sequences.         *)
Unique(p) ==
    \A a, b \in Stage :
        \A i \in DOMAIN p[a], j \in DOMAIN p[b] :
            p[a][i].slot = p[b][j].slot /\ p[a][i].slot # NoSlot => a = b /\ i = j

(* OneHolder: a slot is in at most one place of both processes and the bus *)
(* between them, and there only once.  Two holders would let both sides    *)
(* use the buffer, or one side use it twice (ipc_client.cpp frame_ready,   *)
(* next_frame; client.cpp try_acquire_buffer, run).                        *)
OneHolder == Unique(pipe)

(* ExclusiveAccess: the server's GPU never renders into a buffer that the  *)
(* client's GPU is still copying, and the other way round, except where    *)
(* the server gave up the wait for the fence of that very copy.            *)
ExclusiveAccess == (reading \ unfenced) \intersect writing = {}

Handshaken == client_work = <<>> \/ Head(client_work).kind # "on_connect"

(* A slot belongs to the side that has it, the bus towards a side included. *)
ClientSlots == UNION {SlotsIn(server_work), SlotsIn(to_client),
                      SlotsIn(client_queue), {current_slot}}
ServerSlots == UNION {SlotsIn(client_work), SlotsIn(to_server),
                      SlotsIn(server_queue), {buf_idx}}

Lost == Slot \ (ClientSlots \union ServerSlots)

(* LostOnlyByFaults: once they are handed out, slots disappear one per     *)
(* failed call and never otherwise.  DrawCached drops a frame that is      *)
(* already cached, so this rests on the frames arriving in rotation: the   *)
(* next one is never the one shown last, while two of them are left.       *)
LostOnlyByFaults ==
    Handshaken /\ faults + 2 <= N => Cardinality(Lost) <= faults

(* BuffersBeforeFrames: a frame rendered into new buffers never reaches    *)
(* the client before it imported these buffers (client.cpp run sends the   *)
(* dmabuf message first and both messages keep their order).               *)
BuffersBeforeFrames ==
    \A i \in DOMAIN client_queue : client_queue[i].gen <= imported

(* CommandBufferIdle: the server records a slot's command buffer and       *)
(* resets its fence (imgui/vk.h record_cmd waits for neither) only after   *)
(* the previous rendering into the slot finished; the client's wait for    *)
(* that fence is all that ensures it.                                      *)
CommandBufferIdle == faults = 0 => buf_idx \notin writing

(* SlotKeepsCycling: a slot is copied again and again, or it was lost.     *)
SlotKeepsCycling ==
    \A s \in Slot : []<>(s \in reading) \/ <>[](s \in Lost)

owner == [s \in Slot |-> IF s \in ClientSlots THEN "client"
                         ELSE IF s \in ServerSlots THEN "server"
                         ELSE "none"]

(* A copy that the server no longer waits for counts as finished.          *)
Exchange == INSTANCE SlotExchange WITH
    Slot <- Slot,
    owner <- owner,
    reading <- reading \ unfenced,
    writing <- writing
ExchangeSpec == Exchange!Spec
=============================================================================
