# A verification project for MangoHud

TLA+ modules, model-checking runs and machine-checked proofs about
`src/mangohud-next`, the rewrite of MangoHud in which a server process renders
the overlay and the applications only copy it into their frames. Paths below
are relative to `src/mangohud-next/` unless they start with `src/`.

`PROJECT.json` lists the components, the runs, the source lines of every
definition, the mutants that show each property can fail, the hazards the
properties are for, the disagreements found and the theorems.

## 1. The system

```
 application process                               server process
 +------------------------------+   private bus   +------------------------------+
 | present / swap thread        |   (sd-bus, fds) | per client: bus thread       |
 |   layer.cpp hooks            |                 |   handlers, work_q           |
 |   OverlayVK / OverlayGL draw |   on_connect    | per client: run thread       |
 |   fps limiters               |   frame_ready   |   announce, acquire, render  |
 | bus thread (IPCClient)       | <-------------> | Renderer: methods, buffers   |
 |   connect, handlers, work_q  |   dmabuf        | ipc thread: accepts, prunes  |
 | Wayland presenter thread     |   config        | main thread: config, prunes  |
 +------------------------------+   resolution    | metrics thread: fills HUDs   |
                                    import_failed | exec thread, GPU pollers     |
                                    samples, log  +------------------------------+
```

A client connects, says who it is (`on_connect`) and puts the numbers of all
buffers into its own queue of ready frames. The server's `Renderer` picks a
method, creates the buffers and announces them (`dmabuf`). From then on the
buffers' numbers ("slots") go round: the client copies a slot into its frame and
sends it back with the fence of its copy, the server waits for that fence,
renders the HUD into the slot and sends it with the fence of its rendering.

### Components

| Component | State | Operations | What makes it correct |
|---|---|---|---|
| Frame exchange: `client/vulkan.cpp`, `ipc/ipc_client.*`, `ipc/client.cpp`, `render/` | two frame queues, two work queues, the slot at hand on either side, the cache, the buffers' generation, GPU work | draw, import, acquire, render, resize, send, receive | one holder per slot; the GPUs never share a slot; slots are not lost; frames never precede their buffers; the loop never stops |
| Render method negotiation: `Renderer`, `IPCClient::on_dmabuf`, `OverlayGL::draw` | position in the list of methods, the buffers' descriptors, the pending announcement | configure, announce, import, import failed | the first usable method is found; both sides end with the same buffers; the server survives |
| Client session: `ipc/ipc_client.*` | connection, work queue, frames, size sent | connect, greet, lose, reconnect, report the size | reconnects and draws again; at most the slot shown last is out of play afterwards; the server knows the size |
| Client list: `ipc/ipc.*`, `ipc/client.cpp`, `server/` | list under `clients_mtx`, the threads of each client | accept, prune, join, notify, populate | dead clients go, nothing uses a destroyed client, no deadlock, every HUD filled |
| Configuration: `server/config.*`, `Client::send_config` | file signature, options, HUD table, limit of each client | poll, reload, post, receive | what is in force is what the file says, in the server and in each client |
| Frame limiters: `client/fps_limiter.h` | target, overhead, time stamps; fences; present ids | set limit, limit, throttle | frames keep to the limit without drift |
| OpenGL overlay: `client/gl.cpp` | imports, slot at hand | draw, release | as the frame exchange |
| Wayland presenter: `client/wayland.cpp` | the set at hand and the one announced, busy buffers, what is attached | dispatch, detach, import, present, release | a buffer the compositor reads is not drawn into; no slot is lost; the HUD is refreshed |
| Shell command metrics: `server/metrics/exec.*` | one entry and at most one process per command | get, tick, spawn, time out | a value asked for stays available; every process is reaped |
| GPU polling: `server/metrics/gpu/gpu.cpp`, `metrics.cpp` | the polling thread and the time of the last request | request, poll, stop when idle | polled while asked for, stopped when not |
| Metrics, GPU drivers, HUD drawing | samples and values | read, format | pure input and layout |
| Legacy logging: `src/src/logging.*`, `overlay.cpp` | the Logger, its file and rows, the sampling thread | start, stop, log, wait, sample | a log has its own rows in its own file and ends; nothing waits for ever |
| Legacy overlay: the rest of `src/src/` | the in-process overlay | draw, control, reload, limit | reload threads against the drawing thread |

Hard to test here: two GPUs and six threads take turns on one buffer; bus
messages are overtaken by calls that change what they mean; the server or the
client comes and goes at any moment; drivers fail in one step of several; the
threads of the server share three kinds of locks and some state without any.
`PROJECT.json` lists each of these at its line.

## 2. Modules

| Module | Models | Composes with |
|---|---|---|
| `SlotExchange` | the promise of the frame exchange, per slot: who owns it, which GPU accesses it | implemented by `FrameLoop` |
| `FrameLoop` | one Vulkan client over one connection, all threads and both GPUs | `INSTANCE SlotExchange` with `owner` as its mapping |
| `FrameLoopProofs` | theorems about `FrameLoop`, among them that it implements `SlotExchange` | extends it |
| `WaylandPresenter`, `WaylandPresenterProofs` | the other consumer of the buffers: Wayland thread, compositor and server, and theorems about them | |
| `RenderNegotiation`, `RenderNegotiationProofs` | the walk over the render methods, for Vulkan and OpenGL clients, and theorems about it | |
| `Session`, `SessionProofs` | connection, reconnection and size of one client, and theorems about it | |
| `ClientList`, `MCClientList`, `ClientListProofs` | the server's clients, their threads and the three threads that share the list, and theorems about them | |
| `ConfigSync`, `FrameLimitProofs` | the configuration file and the limit of each client, and theorems about it | |
| `FpsLimiter`, `FrameLimitProofs` | the sleep of `fpsLimiter`, and theorems about it | |
| `MetricsOnDemand`, `MetricsOnDemandProofs` | shell commands and GPU polling, which run only while a HUD asks, and theorems about them | |
| `LegacyLogging`, `LegacyLoggingProofs` | the benchmark log of the legacy overlay and its threads, and theorems about it | |

In every module a variable has the name of the field it stands for, and an
action is the whole of a handler, or of a step of a thread between two points
where another thread can get in: a lock is released, a thread waits, or a value
is read that is used later. Messages of one direction of a connection stay in
order. A task in a work queue is a step of its own, because other tasks and
messages come between its posting and its execution.

### FrameLoop

Slots are numbered and pass through eight places: `client_queue`,
`current_slot`, `client_work`, `to_server`, `server_queue`, `buf_idx`,
`server_work`, `to_client`. A fence is the membership of its slot in `reading`
(a copy on the client's GPU) or `writing` (a rendering on the server's GPU).
`generation` counts the buffer sets, `imported` is the one the overlay imported.

| Code | Actions |
|---|---|
| `OverlayVK::draw`, `copy_dmabuf_to_cache` | `DrawCopy`, `DrawCached`, `DrawAborts`, `EndCommandBufferFails`, `ExportFails` |
| `IPCClient::on_work_event` and the tasks it runs | `ClientSendsHandshake`, `ClientSendsFrame`, `ClientSendFails` |
| `IPCClient::on_dmabuf`, `on_frame` | `ClientImports`, `ClientReceivesFrame` |
| the server's `Client::on_connect`, `on_frame`, `on_work_event` | `ServerConnects`, `ServerReceivesFrame`, `ServerSends`, `ServerSendFails` |
| `Client::run`, `try_acquire_buffer`, `send_dmabuf`, `Renderer::render` | `RunStarts`, `RunSendsDmabuf`, `RunWaits`, `WaitTimesOut`, `RunFindsNothing`, `RunAcquires`, `RunGivesUpWait`, `RunRenders`, `RunResizes`, `RunExportFails` |
| the two GPUs | `CopyDone`, `RenderingDone` |

A present is one action because it runs under `OverlayVK::m`, which only the
import takes as well. `RunWaits`, `WaitTimesOut` and `ServerReceivesFrame` model
the wait without a predicate: a notification reaches the run thread only while
it waits. Each failing call counts against `MaxFaults`. A wait for the fence of
a copy ends after one second as if it had signalled (`render/shared.h:62`):
`RunGivesUpWait` may do so at any time, and `unfenced` remembers the slot until
its copy is done or belongs to buffers that are gone.

`SlotExchange` is the promise behind all this. A slot is the client's, the
server's or lost; only its owner starts an access, and it changes hands towards
a side when that side's access is over. The mapping gives a slot to the side in
whose queues it is, the bus towards that side included, and counts a copy whose
fence is not waited for as finished: `reading <- reading \ unfenced`.

Left out: failed imports (see `RenderNegotiation`), a `poll` that fails because
of a bad descriptor, the lost wake-ups of a data race on the deque of frames
(`client.cpp` fills it under `frame_m` and empties it under `m`: the push is
taken to be atomic), and a descriptor that `vkGetFenceFdKHR` leaves
uninitialised is taken to be one that cannot be sent. `RunExportFails` has both
outcomes of the last.

### RenderNegotiation

`kinds` says how each method will turn out for this client: refused by EGL,
broken (a buffer without a descriptor, which the Vulkan path only logs),
foreign (the client cannot import) or good. The server's run thread
(`RunLooks`, `RunSends`, `RunThrows`, `RunRenders`, `RunResizes`) and its bus
thread (`BusResets`, `BusFills`, `BusFinishes`: `consumer_import_failed` in the
three steps another thread can tell apart) share the buffers. The client is a
Vulkan one that imports in the handler (`VkImports`) or an OpenGL one that
stores the announcement and imports it when it draws (`GlReceives`, `GlTakes`,
`GlImports`, `GlFails`). A step of the run thread in `Renderer::render` needs
`Renderer::m`, hence `failed_pc = "idle"`; `send_dmabuf` does not.

### Session

One client and a server that starts and stops. Work queue, frame queue, the
imported buffers, the slot at hand and the slot in the overlay's cache outlive a
connection, and the two directions of the bus do not, as in the code.

| Code | Actions |
|---|---|
| `IPCClient::start`, `bus_thread`, `connect_bus`, `on_bus_disconnected` | `Start`, `ConnectFails`, `Connect`, `OnDisconnected` |
| the tasks of `on_connect`, `send_resolution` and `frame_ready` | `RunHello`, `RunResolution`, `SendSize`, `RunFrame` |
| `on_dmabuf` and `init_dmabufs`, `on_frame` | `OnDmabuf`, `OnFrame` |
| the swapchain hook | `SendResolution` |
| `OverlayVK::draw`, `copy_dmabuf_to_cache` | `NextFrame`, `DrawCopy`, `DrawCached` |
| the server's `on_connect`, `resolution`, `on_frame`, `Client::run` | `ServerGreeted`, `ServerSized`, `ServerReceivesFrame`, `ServerAnnounces`, `ServerRenders` |
| the server process | `ServerStarts`, `ServerStops` |

The overlay draws once buffers were imported (`imported`) and while there is a
connection, so after a reconnection it draws with the buffers of the last one
until the announcement of the new ones (`announced`) arrives. `last_slot` is
the slot in its cache: a slot that equals it is drawn from the cache and dropped
without `frame_ready` (`DrawCached`); only an import forgets it. One drawn frame
and one rendering are one step here; their fences are those of `FrameLoop`.
Left out: announcements after the first of a connection (a HUD that changes its
size, a method that is given up: `FrameLoop`, `RenderNegotiation`), imports and
other calls of the driver that fail (there, too), `stop()`, the answer to an
incompatible version, samples, log lines.

### ClientList

Each of the main, ipc and metrics threads has a program counter; pruning is the
copy of the list, the probe of its members, the lock, the walk of the iterator
(`it`) over the list and one join per inactive client it meets. A client that
becomes inactive behind the iterator stays for the next prune. Each client has a bus and a run thread, `active`, `stop`, a work queue
(`MaxTasks` bounds what it posts itself) and its process. `NoClient` stands for
no client. Left out: the reuse of process ids. The main loop's walk without the
lock (undefined behaviour while another thread inserts) sees the clients that
are still listed.

### ConfigSync

The main loop's reload is taken apart where something can happen in between:
signature, existence, reset of the options, load, table, notification. A file is
missing, malformed, or has a limit and perhaps a table; each edit changes its
signature. A connecting client goes through `absent`, `attached`, `greeting`
and `connected`.

### WaylandPresenter

`bus`, `frame_queue`, `fdinfo` and `import_generation` are the `IPCClient` as
its bus thread leaves it (`Joins`, `Disconnects`, `Reconnects`, `on_dmabuf`,
`on_frame`). The thread of the presenter is a loop with a program counter:
`SeesLoss` and `detach`, or `SkipsImport`, `TakesImport` and `Rebuilds`, then
`Presents` or `PresentsNothing`. `shown` and `held` are the compositor's: the
buffer of the last commit and those it still reads. `Releases` puts a release
into `events`, which the thread finds when it dispatches; one that meets a
destroyed buffer finds no listener. `Acquires`, `Renders`
and `Resizes` are the server, as far as slots are concerned. `doubled` is a
history variable: an import has handed out slots that were not back, see
section 6. The real number of buffers is four; one would never be refreshed,
hence the assumption of two.
Left out: focus and presentation feedback, missing protocols, failing ioctls, a
connection that is lost before its handshake.

### MetricsOnDemand

Time passes in half seconds, the period of `Metrics::update`, and only when
everything due has happened; the deadline of a process, 750 ms, is rounded up.
`get` has two steps because it dates a request only after it unlocked the map,
`tick` has three (`collecting`, `pruning`, `spawning`); an entry `get` found and
the worker then erased is `orphan`. `StopPollingIfIdle` and `Join` are one call
under `worker_mutex`, so requests wait in between. A command is reliable or not:
it is started, ends in time and succeeds, or none of these is promised.

### LegacyLogging

Every thread has a program counter: `try_log`, the row, the file, the decision
about the duration, and `stop_logging` with its file, summary and clearing are
separate steps, since the Logger has no lock. A row is the number of the log it
was dated by. `HwTests`, `HwBlocks` and `HwUpdates` are `hw_info_updater::run`,
whose wake-up is lost between the test of its condition and the wait
(`overlay.cpp` notifies under another mutex). `clean` records that every log so
far started with no log thread alive and no file open.
Left out: the reload, after which log threads use a destroyed `Logger`, the
upload, and the undefined outcome of two threads inside one vector or stream.

### FpsLimiter

Time is in ticks and a frame is one step, with any length from `Works` and a
sleep that ends late by any amount in `Lates`. `ahead` is a history variable:
the time by which the game is ahead of its limit since the last frame that did
not sleep or change of the limit. The conversion of a float to a target is left
out. The legacy `src/src/fps_limiter.h` computes the same sleep. The proofs of
this module and of `ConfigSync` share `FrameLimitProofs`, the way of the limit
from the file to the sleep; hence the names `LimiterInit`, `LimiterNext` and
`LimiterSpec`.

## 3. Runs

| Run | Question | Bounds |
|---|---|---|
| `frame_loop` | safety of the frame loop, that it implements `SlotExchange`, and whether slots keep cycling in spite of missed notifications | 3 slots, 1 resize, 1 fault |
| `negotiation` | agreement and termination; with a HUD of constant size, is the first usable method found and kept | 2 GPUs (6 methods) of every kind, 2 resizes |
| `negotiation_skipped` | violated, see section 6 | 3 methods, 1 resize |
| `session` | slots across reconnections, the cached slot that is dropped, reconnection, frames, the size known | 3 slots, 2 server starts, 2 swapchains of one size |
| `wayland_presenter` | who draws into what the compositor shows; slots, new sets, refreshing and detaching | 2 slots, 1 resize, 1 loss or new surface |
| `client_list` | lifetime of clients and their threads | 2 connections of 1 process, 1 reload, 1 task |
| `client_list_liveness` | dead clients go, locks are released, HUDs are filled | 2 connections |
| `client_list_shared` | violated, see section 6 | 2 connections |
| `config_reload` | what is in force after any interleaving of edits and reloads | 1 client, 2 limits, 2 edits |
| `metrics_on_demand` | values stay, processes end, nothing runs unasked | the times of the code; 2 rounds of requests per half second |
| `legacy_logging` | rows, files and summaries of each log; starting, ending, waiting | 2 logs, any thread and duration |
| `fps_limiter` | drift, and the limit of light games | targets 0, 5, 7; frames to 9; oversleep to 4 |

The client list is checked in two runs because the symmetry of the connections,
which keeps the safety run small, is not sound for liveness.

Why the bounds are enough. Three slots are the least with which one is shown,
one is rendered and one is under way, and with one fault two are left, without
which the overlay freezes (a frame for the slot shown already is dropped). A
resize in flight meets every place a slot can be in; two of them would meet the
same places one after the other. Two server starts leave frames, an
`on_connect` and a cached slot of the earlier connection for the later one, and
with three slots two go on when the cached one is dropped; with two the overlay
may freeze (section 6). That the sizes of the swapchains differ matters to
`SentIsKnown` only, which is proved for any sizes; the same instance with two
sizes takes too long, and with two slots and two sizes it holds as well. Two logs are enough for the second
to meet what the first left behind: its thread, its rows, its open file. Two
rounds of requests per half second let one come before and one after anything
the workers do in it. One upset of the presenter, a loss or a new surface, meets
every state of a set that is being replaced, as a resize comes on top of it. Two connections of one process meet every
pair of pruner, joiner and populating thread; a third adds more waiting, not
another kind of it. Two edits are the least for a file that changes and changes
back between two looks at it. Six methods are two GPUs, all combinations of
outcomes. Two targets, one odd and one not, cover the rounding of half a frame.

Deadlock is not checked where the system stops by itself: the file is edited a
bounded number of times and the main loop then has nothing to do
(`ConfigSync`), or the server has terminated (`RenderNegotiation`).

### Fairness

* `FrameLoop`: each thread goes on, the application keeps presenting, GPU work
  ends. Neither faults nor resizes are forced.
* `Session`: the same, and the event loop serves each of its sources. The
  server need not start; properties are conditional on it staying up.
* `ClientList`: weak fairness for the threads of a client, strong fairness for
  the three threads that compete for `clients_mtx`: each of them sleeps between
  two uses (1 s, 7 ms or a request to wait for), so the lock is free again and again.
* `ConfigSync`: the main loop polls on, tasks and messages are delivered.
* `RenderNegotiation`: the three threads go on, the application keeps drawing.
* `FpsLimiter`: the game keeps drawing frames.
* `WaylandPresenter`: the threads run, the compositor releases a buffer it no
  longer shows, and the application reads its display's events, which the
  presenter only dispatches. A lost server need not come back, a frame need not
  be drawn at a new size.
* `MetricsOnDemand`: every thread wakes up when its sleep is over, a polling
  thread that is told to stop ends, and so does a reliable process. Others need
  not: that they are killed is what `ProcessesAreKilled` is about.
* `LegacyLogging`: the application keeps presenting, threads run, time passes.
  No key has to be pressed, nothing needs to stop a log without a duration.

## 4. Proofs

`FrameLoopProofs`, for every number of buffers, resizes and faults:

* `TypeCorrect`: `Spec => []TypeOK`.
* `OneHolderCorrect`: no slot is in two places. `OneHolder` is not inductive:
  the handshake puts all slots into the client's queue, which is right only
  because it is the first task of the connection (`HandshakeFirst`); drawing a
  cached slot drops the frame at hand only if that is the slot shown
  (`ShownIsCached`); and the run thread takes a slot only with empty hands
  (`EmptyHanded`). `SlotInv` is their conjunction. The places are one function
  from stages to sequences (`pipe`), and the three ways a step changes it are
  lemmas: a slot moves from the head of one place to the end of another
  (`UniqueMove`), drops out (`UniqueDrop`), or all come in (`UniqueAdd`).
* `ExclusiveAccessCorrect`: the GPUs share no slot, except for a copy whose
  fence the server stopped waiting for. `AccessInv` adds that the slot held by
  the client is not being written and the slot held by the run thread is not
  being read; that a holder is alone comes from `SlotInv`.
* `BuffersBeforeFramesCorrect`: `OrderInv` is about the `stream` of messages
  the client has yet to receive, on the bus and in the server's work queue:
  generations never decrease, none is older than what is imported, a frame that
  needs newer buffers follows the message with them, and the newest buffers are
  imported, in the stream or about to be announced (`Latest`). Messages only
  leave at the front, join at the end or, if they are frames, get lost:
  `OrderedImport`, `OrderedAppend` and `OrderedWithout`.
* `ImplementsExchange` is `Spec => ExchangeSpec`. Its invariant is `SlotInv` and
  `AccessInv`. A step moves at most one slot, and a lemma for each kind of move
  says what becomes of `owner`: a slot that moves within a side keeps its owner,
  one that crosses is received, one that drops out is lost, and the handshake,
  which makes every slot the client's, maps to a stutter. `StepRefined` has one
  case per action.
* `CommandBufferIdleCorrect` follows from the same facts and one more: a slot
  that is being written is with the client or on its way to it until a fault
  happens.
* `LostOnlyByFaultsCorrect`: the lost slots are at most as many as the calls
  that failed, while two slots are left. A draw drops the frame at hand if its
  slot is the one the cache shows, so it must be shown that this does not happen
  by itself. It does not because the slots go round in one order: no slot is
  behind the one that was drawn last (`Rotation`, with `Rank` for the places in
  the order a slot meets them), and with two slots in circulation the next one
  to arrive is another. The one exception is a command buffer that failed to
  end: the slot at hand then counts as shown, and the next draw drops it. That
  is the cost of the fault before, which has not lost its slot yet (`Pending`),
  so the invariant is `Cardinality(Lost) + Pending <= faults`. A slot lost is
  found by counting: the places hold what is not lost (`LostOfPipe`), and a step
  takes at most one slot out of them (`LostCount`).

`FrameLimitProofs`, about `FpsLimiter`, for every set of targets, frame lengths
and oversleeps:

* `LimiterTypeCorrect`, and `OnScheduleCorrect`: frames that sleep never get
  further than half a frame from the limit. The invariant is a conserved quantity:
  `ahead + overhead` does not change in a frame that sleeps.
* `NoFrameIsRushedCorrect`, an action property: no frame, with or without a
  sleep, is shorter than its limit by more than half of the longest frame.

and about `ConfigSync`, for every set of clients, limits and number of edits:

* `TypeCorrect`, and `ReloadIsCurrentCorrect`: when the main loop rests and the
  signature is that of the file, options and table are the file's. `ReloadInv`
  follows the reload step by step: as long as the signature taken last is the
  file's, what has been read, and what has been loaded of it, is what the file
  contains.
* `FollowsAtRestCorrect`: from the first reload that finds a client connected,
  whenever the main loop rests and nothing is on its way to the client, it has the
  limit in force. `Following` compares the option with the limit that will
  arrive last (`Newest`), over work queue and bus; only a client that is still to
  be notified may be behind.

`RenderNegotiationProofs`, for any number and kinds of methods:

* `TypeCorrect`, `FirstUsableIsKeptCorrect` and `ServerSurvivesCorrect`. While
  the HUD keeps its size, exactly one of a pending announcement, an announcement
  on the bus, one taken by the client, an answer, or a handler of the answer can
  be under way (`OneAtATime`), and it is about the method the server is at
  (`OneAnswer`). So each answer advances the walk from the method that failed,
  and the buffers are there when they are announced. That the walk stops at the
  first method EGL does not refuse is the lemma `AcceptedIsFirst`; the choice in
  `Accepted` is shown to exist by the well-foundedness of `<`.

* `QuietAgreementCorrect`: with a HUD that changes its size several
  announcements may be under way at once, and failed imports answer old ones.
  `AgreementInv` looks at the newest only: either something is still to be
  announced or a failure is still to be handled (`Unsettled`), or the last of
  the announcements the client has, on the bus, taken or imported, is of the
  server's method (`NewestIsOfMethod`).
* `SettlesOnUsableCorrect`: what the overlay has imported is of a method that
  works for it (`DrawsUsable`), and at rest it is of the server's method. So the
  server is not left with one that does not work for the client.

`SessionProofs`, for every number of buffers, sizes, starts and swapchains:

* `TypeCorrect` and `SlotsStayInPlayCorrect`. The copies of a slot are a sum over
  six places, and a step either moves a slot between two of them (`CopiesMoved`),
  loses what was under way on a connection (`CopiesLost`) or is the task of
  `on_connect`, which makes one copy of every slot (`CopiesMade`). Each copy is
  owed to a start of the server: `Counted` adds the greetings that are still
  queued and the start that no connection has used yet (`Unmet`).
  Conversely a server that was greeted, or will be by what is on the wire, has
  every slot in play, or every slot but one and then loses no other (`Playing`).
  The greeting makes a copy of every slot, and a draw from the cache may drop one
  whose last copy it is (`CopiesDropped`); after that the slot in the cache, if
  it is in play at all, is behind every other on the way back to the overlay
  (`Rotated`, with `Rear` for the way and `RearMoved` for the steps). So while
  another slot is in play, which of three is sure, the overlay can only hold the
  cached slot if there is a second copy of it (`BehindTheOverlay`), and dropping
  one leaves the other. `PlayingMoved`, `PlayingDrawn` and `PlayingDropped` are the
  steps of an open connection.
* `SentIsKnownCorrect`. On an open connection the last size on the wire or, if
  there is none, the one the server knows, is the size sent last (`Told`), unless
  a greeting is still queued or a size is about to be sent (`WillBeTold`). The
  task of `on_connect` sends the size of the swapchain whatever was sent before,
  and sends none only if there never was one (`NoSizeYet`).
* `OpenConnectionsWorkCorrect`: without a greeting in the work queue or on the
  wire, an open connection has a server that was greeted, an overlay that draws
  and, of three or more slots, all but one in play. A greeting leaves the work queue onto the wire, where
  only the server takes it (`Greets`, `GreetingsArrive`).

`ClientListProofs`, for every set of connections, processes and tasks. `ListInv`
is the conjunction of: a thread that walks, joins or reads the list holds the lock
(`Locked`); a pruner joins a client
that is listed, stopped and inactive (`Joining`); the ipc thread adds a client
that was not in the list (`Requesting`); and a client outside the list has no
thread and no task but configurations (`Departed`). Erasing and appending are
lemmas about sequences without repetition (`Erased`, `Appended`).

* `NoThreadOutlivesItsClientCorrect` and `OnlyConfigsAreLeftCorrect` are parts of
  `Departed`. A client leaves the list only by `Erase`, which finds its threads
  ended and its tasks dropped (`ErasedClient`), and no thread but the main loop
  does anything to it afterwards (`GoneStaysGone`).
* `JoinsOnlyTheStoppedCorrect`: nobody waits for a thread that may go on. While
  a pruner joins, list and iterator are its own (`ListIsOwned`), and a client is
  stopped and inactive for good (`NoRevival`).
* `EntersOnceCorrect`: what enters the list is a connection just accepted.

`MetricsOnDemandProofs`, for every timeout, interval and stale time:

* `TypeCorrect` bounds the time a process runs by the timeout and one interval:
  `RunTimes` compares it with the time since the last tick.
* `ProcessesAreKilledCorrect`: a process is at least as old as the last tick
  (`Killing`), so the next tick finds its time over, if the timeout is no longer
  than the interval.
* `ValuesStayCorrect`, an action property: an answer given within the stale time
  is as old as its entry, which then is still in the map (`Answered`).
* `PolledWhileWantedCorrect`: no poller, or one being joined, means that the last
  request is too long ago (`WorkerInv`); requests wait for the join.
* `PollersEndInTimeCorrect`: a polling thread lives at most `StaleAfter` after the
  last request. What passes `Metrics::update` and still runs was asked for since
  (`PassedInv`), so that it has another half second. The bound is one of the
  model's clock, which stands still while `Metrics::update` joins.
* `StartsOnlyTheAskedCorrect`, an action property: a process is started only for
  an entry no older than `StaleAfter`, because one that was pruned cannot come
  back before the spawning (`Survived`).

`WaylandPresenterProofs`, for every number of buffers, resizes, losses and
surfaces:

* `TypeCorrect`: there is a generation for every connection and every resize
  (`Counted`).
* `SlotsStayInPlayCorrect`. A busy slot is with the compositor or in a release
  event that is not dispatched (`Waits`), so a frame that is dropped because its
  buffer is busy loses no slot. What `detach` clears belongs to buffers of an
  earlier server (`Detached`). That generations only ascend on their way from
  the announcement over `fdinfo` to the import is `Imports`; it is why buffers of
  an older set are never taken for the current ones.
* `ServerDrawsWhatWasReleasedCorrect`. Until an import hands out a slot that was
  not back, a slot of the current buffers is in one place at most: returned,
  drawn, sent, queued, released or held (`Once`). The import that starts this
  finds nothing on its way and no event, by the definition of `doubled`
  (`OnceRebuilt`); the first import of all is such a one, since before it nothing
  was handed out (`Unused`). `OnceElsewhere` and `OnceInThread` follow a slot
  through the other steps.
* `NoSetIsMissedCorrect`: with a server, and no announcement on the bus, waiting
  or being taken, the set imported last is the server's, and the overlay shows it
  unless its surface is new. `Newest` follows the newest set from the announcement
  to the buffers.

`LegacyLoggingProofs`, for every number of logs:

* `TypeCorrect`, `SummaryIsOwnCorrect` and `RowsReachTheFileCorrect`. The Logger
  has no lock, and `SummaryIsOwn` alone says nothing about who may write. The
  invariant has four parts. `Threads`: logs without a thread are written by the
  present thread only, and while `clean` holds no thread but that of the last
  log lives. `Stopping`: who is inside `stop_logging` or ends finds the log
  inactive, so that nobody writes to a log that is being closed but its own
  writer. `Rows`: all rows are of the last log, those just read included, and none
  are left once no thread lives. `File`: how many rows the file lacks at each point
  of `try_log`, which depends on whether the stream is closed, has failed or is
  open. The second missing row is the one a log thread had read before a key
  closed the file.

The assumptions are those named in the modules (at least one slot, natural
bounds, ticks that are natural numbers), and TLC evaluates them in every run.

Only model-checked: the liveness properties. TLAPS does not prove properties
that rest on fairness, nor anything about `ENABLED`, so `SlotKeepsCycling`,
`Settles`, `Reconnects`, `DeadClientsGo`, `OldestIsPopulated`, `FollowsReloads`,
`KeepsPresenting` and the other temporal properties of the runs are shown for
their bounds only. Of six of them the part that is safety is proved for all
constants: what they wait for, whenever nothing is under way any more.

| Liveness, checked for the bounds | What holds at rest, proved |
|---|---|
| `Reconnects` | `OpenConnectionsWork` |
| `Settles` | `SettlesOnUsable` and `QuietAgreement` |
| `FollowsReloads` | `FollowsAtRest` |
| `EditsTakeEffect` | `ReloadIsCurrent` |
| `NewSetsAreImported` | `NoSetIsMissed` |
| `NothingRunsUnasked` | `PollersEndInTime`, `StartsOnlyTheAsked`, `ProcessesAreKilled` |

## 5. Not modelled

* The exchange of slots with an OpenGL client, and a composition of negotiation
  and frame loop: frames of buffers that a failed import replaces, a partial
  list of buffers, the slot a failed import forgets (`client/gl.cpp:503`).
* `queueLimiter` and `presentLimiter`: pools of fences and present ids, where a
  wait that times out is followed by a reset of a fence that may be in use
  (`client/fps_limiter.h:40`).
* Frame samples, forwarded log lines, `stop()`, the start-up and the end of the server.
* Of the legacy overlay: drawing, control socket, key bindings, option parsing,
  the inotify thread and the reload it triggers.
* Readers of `/proc`, `/sys` and driver libraries, HUD layout, fonts and symbol
  loaders: input, layout or tables without behaviour over time. These, the
  vendored headers (`nvml.h`, `glad`, `filesystem.h`) and generated fonts are
  most of the repository's lines, so that the share of all lines that is
  modelled stays small although the concurrent core is covered.
* Freedom from undefined behaviour in the drivers' calls.

## 6. Disagreements between code and documentation

Two are runs that TLC finds violated, with their traces; `PROJECT.json` quotes the lines.

| Run | What happens |
|---|---|
| `client_list_shared` | of several connections of one process only the first gets its HUD filled |
| `negotiation_skipped` | two announcements of one method fail, and the method after it is never tried |

The properties of the passing runs are stated no stronger than the code is. What
their conditions leave out is worth knowing:

* `ServerSurvives`, as long as the HUD keeps its size and every buffer has a
  descriptor: otherwise the run thread can announce a buffer without one.
  `send_dmabuf` means to log that (`ipc/client.cpp:312`), but `unique_fd::dup`
  throws first (`server/common/helpers.hpp:28`) and nothing catches it.
* `FirstUsableIsKept`, as long as the HUD keeps its size: see `negotiation_skipped`.
  In the model the HUD may change its size at any render, while the code renders
  only with a slot at hand (`ipc/client.cpp:572-579`). Before its first import a
  client returns slots only from an overlay that still has the buffers of an
  earlier connection, so the trace of that run needs one.
* `ReloadIsCurrent`, for a file that exists: one that exists only between the
  signature and the load is loaded under the signature of a missing file, and
  its removal is not noticed (`server/config.h:102`).
* `DeadClientsGo`, for processes that ended: a client that only closed its
  connection stays listed, as no match registers `on_bus_disconnected`
  (`ipc/client.cpp:187`).
* `LightGamesAreLimited`, for games that need less than half a frame: after one
  late wake-up a heavier one may never sleep again, because only a frame that
  sleeps renews the overhead (`client/fps_limiter.h:209`).
* `LostOnlyByFaults`, while two slots are left: the overlay freezes with a single
  one (`client/vulkan.cpp:456` drops a frame for the slot that is shown).
* `SlotsStayInPlay` and `Reconnects`, for three or more buffers. After a
  reconnection the handshake hands out all slots (`ipc/ipc_client.cpp:376`) while
  the overlay still has the buffers, the cache and the `last_slot` of the earlier
  connection. Until the new buffers are imported it draws the slot equal to
  `last_slot` from the cache and drops it (`client/vulkan.cpp:456`, 580-592), so
  that the new connection is one slot short. With two buffers it then freezes: the
  one slot left comes back as the one that is shown, and is dropped, too.
* `FollowsReloads`, for a client that is connected when the file is reloaded: a
  connecting client's limit is read on its bus thread and posted later
  (`ipc/client.cpp:420`), while the main loop may load and post the new one in
  between (`server/main.cpp:19`). The old limit is then the last one sent.
* `SentIsKnown` compares what was sent: a size that changes and changes back
  while the first message is still queued leaves the server with the wrong one,
  as the new size is compared with the size sent last (`ipc/ipc_client.cpp:438`).
* `ServerDrawsWhatWasReleased`, until an import hands out slots that are not
  back: every import of a new set hands out all slots (`client/wayland.cpp:419`),
  also those that are still on their way, so that after a resize or a
  reconnection a slot may be out twice and the server may draw into a buffer
  that is on the screen. A frame of a new set that is received before its import
  is shown with the old buffers, and so are the slots of a new handshake.
* `NewSetsAreImported`, for a surface that stays: a new one finds the announced
  buffers moved out (`client/wayland.cpp:377`) and has no overlay until the next
  announcement.
* `ValuesStay`, within three seconds of the last request: after a pause `get` may
  show the value of an entry that is just being erased, once.
* `RowsReachTheFile`: the first row of every log is lost, because a closed
  stream only fails at its first write (`src/src/logging.cpp:208`). A log that
  is stopped in the middle of `try_log` may leave its file open, and the rows of
  the next log go there; one that is started while an older log thread runs
  shares its rows. `clean` excludes both, and holds of logs written by the
  present thread.

Outside the models, a thread that starts after `stop()` was called clears `quit`
(`ipc/ipc_client.cpp:312`).

## 7. Plan

Done: the frame loop, its abstract promise, the refinement and all its safety
proofs; configuration, negotiation, session, client list, metrics on demand, the FPS
limiter and the Wayland presenter with the proofs of all their safety
properties, and of the legacy log.

Next, most important first:

1. `GlFrames` and a composition of negotiation and frame loop.
2. `QueueLimiter`, `PresentLimiter`.
3. `Samples` and `Lifecycle`.
4. Legacy: control socket, key bindings, the watcher that reloads the
   configuration and what becomes of the log threads.
