------------------------- MODULE RenderNegotiation -------------------------
(***************************************************************************)
(* How the server finds a way to share buffers with a client (Renderer in  *)
(* ipc/client.cpp): it walks a list of render methods, announces the       *)
(* buffers of the current one in a "dmabuf" message, and moves on when the *)
(* client answers "import_failed".  The answer does not name the method.   *)
(*                                                                         *)
(* Two threads of the server touch the buffers: the client's run thread    *)
(* announces and renders, its bus thread handles import_failed under       *)
(* Renderer::m.  send_dmabuf takes clientRes::m, which only the            *)
(* destruction of buffers takes as well.  The client imports on its bus    *)
(* thread (Vulkan) or on the drawing thread (OpenGL).                      *)
(*                                                                         *)
(* Abstracted: the messages of a direction and the tasks that send them    *)
(* are one queue; the slots that circulate are those of FrameLoop.         *)
(***************************************************************************)
EXTENDS Naturals, Sequences

CONSTANTS
    M,             \* methods.size(): three for each GPU of the server
    Kinds,         \* how methods may turn out
    MaxResizes     \* bound: how often the HUD changes its size

(* refused: init_egl returns false; broken: init_vk has only logged that a *)
(* buffer got no descriptor; foreign: the client cannot import the buffers. *)
ASSUME MAssumption == M \in Nat \ {0} /\ M % 3 = 0
ASSUME KindsAssumption == Kinds \subseteq {"refused", "broken", "foreign", "good"}
ASSUME MaxResizesAssumption == MaxResizes \in Nat

Method == 1 .. M
None == 0      \* EXPORT_NONE, no buffers

(* Each GPU has two Vulkan methods, then the one of EGL, the only one that *)
(* checks what it made.                                                    *)
ByEgl(i) == i % 3 = 0

VARIABLES
    kinds,         \* what each method is worth to this client
    gl,            \* does this client draw with OpenGL?
    (* the server *)
    method_idx,    \* Renderer::method_idx, from one
    method,        \* Renderer::method
    fds,           \* the method the descriptors in resources->buffer belong to
    send_dmabuf,   \* resources->send_dmabuf
    run_pc,        \* where Client::run is
    failed_pc,     \* where the bus thread is in consumer_import_failed
    resizes,
    crashed,       \* an exception has left a thread
    (* between the processes *)
    dmabufs,       \* announcements under way
    failures,      \* import_failed messages under way
    (* the client *)
    fdinfo,        \* IPCClient::fdinfo
    fresh,         \* import_generation # imported_generation
    importing,     \* the announcement OverlayGL::draw is importing
    imported       \* the buffers the overlay can draw

server == <<method_idx, method, fds, send_dmabuf, run_pc, failed_pc, resizes, crashed>>
client == <<fdinfo, fresh, importing, imported>>
vars == <<kinds, gl, server, dmabufs, failures, client>>

Init ==
    /\ kinds \in {k \in [Method -> Kinds] : \A i \in Method :
                     /\ k[i] = "refused" => ByEgl(i)
                     /\ k[i] = "broken" => ~ByEgl(i)}
    /\ gl \in BOOLEAN
    /\ method_idx = 1
    /\ method = None
    /\ fds = None
    /\ send_dmabuf = FALSE
    /\ run_pc = "boot"
    /\ failed_pc = "idle"
    /\ resizes = 0
    /\ crashed = FALSE
    /\ dmabufs = <<>>
    /\ failures = 0
    /\ fdinfo = None
    /\ fresh = FALSE
    /\ importing = None
    /\ imported = None
-----------------------------------------------------------------------------
(* Choosing a method: configure_current_or_advance, from an index on.      *)

Accepted(i) ==
    CHOOSE j \in i .. M + 1 :
        /\ j = M + 1 \/ kinds[j] # "refused"
        /\ \A k \in i .. j - 1 : kinds[k] = "refused"

(* Mutant: current_method does not look whether the list has ended.        *)
MethodUnchecked(i) == i

MethodAt(i) == IF i > M THEN None ELSE i

Descriptors(m) == IF m = None \/ kinds[m] = "broken" THEN None ELSE m
-----------------------------------------------------------------------------
(* The run thread: Client::run.                                            *)

(* The Renderer is made; the bus thread ignores it until it is complete.   *)
RunStarts ==
    /\ run_pc = "boot"
    /\ method_idx' = Accepted(1)
    /\ method' = MethodAt(method_idx')
    /\ fds' = Descriptors(method')
    /\ send_dmabuf' = (method' # None)
    /\ run_pc' = "loop"
    /\ UNCHANGED <<kinds, gl, failed_pc, resizes, crashed, dmabufs, failures, client>>

RunLooks ==
    /\ run_pc = "loop"
    /\ run_pc' = IF send_dmabuf THEN "sending" ELSE "rendering"
    /\ UNCHANGED <<kinds, gl, method_idx, method, fds, send_dmabuf, failed_pc,
                   resizes, crashed, dmabufs, failures, client>>

(* send_dmabuf, under resources->m: announce what is in the buffers now.   *)
RunSends ==
    /\ run_pc = "sending" /\ fds # None
    /\ send_dmabuf' = FALSE
    /\ dmabufs' = Append(dmabufs, fds)
    /\ run_pc' = "loop"
    /\ UNCHANGED <<kinds, gl, method_idx, method, fds, failed_pc, resizes, crashed,
                   failures, client>>

(* unique_fd::dup of a missing descriptor throws, and nothing catches it.  *)
RunThrows ==
    /\ run_pc = "sending" /\ fds = None
    /\ crashed' = TRUE
    /\ run_pc' = "over"
    /\ UNCHANGED <<kinds, gl, method_idx, method, fds, send_dmabuf, failed_pc,
                   resizes, dmabufs, failures, client>>

(* Renderer::render, under Renderer::m, with a slot or without.            *)
RunRenders ==
    /\ run_pc = "rendering" /\ failed_pc = "idle"
    /\ run_pc' = "loop"
    /\ UNCHANGED <<kinds, gl, method_idx, method, fds, send_dmabuf, failed_pc,
                   resizes, crashed, dmabufs, failures, client>>

(* The HUD has a new size: configure(method) makes new buffers.            *)
RunResizes ==
    /\ run_pc = "rendering" /\ failed_pc = "idle" /\ method # None
    /\ resizes < MaxResizes
    /\ resizes' = resizes + 1
    /\ fds' = Descriptors(method)
    /\ send_dmabuf' = TRUE
    /\ run_pc' = "loop"
    /\ UNCHANGED <<kinds, gl, method_idx, method, failed_pc, crashed, dmabufs,
                   failures, client>>

Run == RunStarts \/ RunLooks \/ RunSends \/ RunThrows \/ RunRenders
-----------------------------------------------------------------------------
(* The server's bus thread: consumer_import_failed, under Renderer::m.     *)

(* Mutant: the method that failed is configured once more.                 *)
BusResetsSame ==
    /\ failures > 0 /\ failed_pc = "idle" /\ ~crashed
    /\ failures' = failures - 1
    /\ fds' = None
    /\ failed_pc' = IF method = None THEN "idle" ELSE "reset"
    /\ UNCHANGED <<kinds, gl, method_idx, method, send_dmabuf, run_pc, resizes,
                   crashed, dmabufs, client>>

(* Mutant: the run thread is told to send before there are new buffers.    *)
BusResetsEarly ==
    /\ failures > 0 /\ failed_pc = "idle" /\ ~crashed
    /\ failures' = failures - 1
    /\ method_idx' = IF method_idx > M THEN method_idx ELSE Accepted(method_idx + 1)
    /\ method' = MethodAt(method_idx')
    /\ fds' = None
    /\ send_dmabuf' = TRUE
    /\ failed_pc' = IF method' = None THEN "idle" ELSE "reset"
    /\ UNCHANGED <<kinds, gl, run_pc, resizes, crashed, dmabufs, client>>

(* Advance, and destroy the buffers of the method given up.  A request to  *)
(* send that is pending stays pending, also when no method is left.  (The  *)
(* index is kept at the end of the list, beyond which nothing reads it.)   *)
BusResets ==
    /\ failures > 0 /\ failed_pc = "idle" /\ ~crashed
    /\ failures' = failures - 1
    /\ method_idx' = IF method_idx > M THEN method_idx ELSE Accepted(method_idx + 1)
    /\ method' = MethodAt(method_idx')
    /\ fds' = None
    /\ failed_pc' = IF method' = None THEN "idle" ELSE "reset"
    /\ UNCHANGED <<kinds, gl, send_dmabuf, run_pc, resizes, crashed, dmabufs, client>>

BusFills ==
    /\ failed_pc = "reset" /\ ~crashed
    /\ fds' = Descriptors(method)
    /\ failed_pc' = "filled"
    /\ UNCHANGED <<kinds, gl, method_idx, method, send_dmabuf, run_pc, resizes,
                   crashed, dmabufs, failures, client>>

(* Mutant: the new buffers are not announced.                              *)
FinishQuietly ==
    /\ failed_pc = "filled" /\ ~crashed
    /\ failed_pc' = "idle"
    /\ UNCHANGED <<kinds, gl, method_idx, method, fds, send_dmabuf, run_pc, resizes,
                   crashed, dmabufs, failures, client>>

BusFinishes ==
    /\ failed_pc = "filled" /\ ~crashed
    /\ send_dmabuf' = TRUE
    /\ failed_pc' = "idle"
    /\ UNCHANGED <<kinds, gl, method_idx, method, fds, run_pc, resizes, crashed,
                   dmabufs, failures, client>>

Bus == BusResets \/ BusFills \/ BusFinishes
-----------------------------------------------------------------------------
(* The client.  Its process goes on when the server has crashed, but then  *)
(* the connection is lost, and with it the session.                        *)

(* Mutant: a failure is reported where it happens and by the caller.       *)
VkReportsTwice ==
    /\ ~gl /\ dmabufs # <<>> /\ ~crashed
    /\ dmabufs' = Tail(dmabufs)
    /\ LET ok == kinds[Head(dmabufs)] = "good" IN
       /\ imported' = IF ok THEN Head(dmabufs) ELSE None
       /\ failures' = IF ok THEN failures ELSE failures + 2
    /\ UNCHANGED <<kinds, gl, server, fdinfo, fresh, importing>>

(* on_dmabuf, init_dmabufs of a Vulkan application.                        *)
VkImports ==
    /\ ~gl /\ dmabufs # <<>> /\ ~crashed
    /\ dmabufs' = Tail(dmabufs)
    /\ LET ok == kinds[Head(dmabufs)] = "good" IN
       /\ imported' = IF ok THEN Head(dmabufs) ELSE None
       /\ failures' = IF ok THEN failures ELSE failures + 1
    /\ UNCHANGED <<kinds, gl, server, fdinfo, fresh, importing>>

(* on_dmabuf of an OpenGL application: the last announcement counts.       *)
GlReceives ==
    /\ gl /\ dmabufs # <<>> /\ ~crashed
    /\ dmabufs' = Tail(dmabufs)
    /\ fdinfo' = Head(dmabufs)
    /\ fresh' = TRUE
    /\ UNCHANGED <<kinds, gl, server, failures, importing, imported>>

(* OverlayGL::draw takes the announcement; after a failure there is none.  *)
GlTakes ==
    /\ fresh /\ importing = None /\ ~crashed
    /\ importing' = fdinfo
    /\ fdinfo' = None
    /\ fresh' = FALSE
    /\ imported' = None
    /\ UNCHANGED <<kinds, gl, server, dmabufs, failures>>

GlImports ==
    /\ importing # None /\ kinds[importing] = "good" /\ ~crashed
    /\ imported' = importing
    /\ importing' = None
    /\ UNCHANGED <<kinds, gl, server, dmabufs, failures, fdinfo, fresh>>

(* send_import_failed drops what has arrived in the meantime, too.         *)
GlFails ==
    /\ importing # None /\ kinds[importing] # "good" /\ ~crashed
    /\ importing' = None
    /\ fdinfo' = None
    /\ fresh' = TRUE
    /\ failures' = failures + 1
    /\ UNCHANGED <<kinds, gl, server, dmabufs, imported>>

Client == VkImports \/ GlReceives \/ GlTakes \/ GlImports \/ GlFails

Next == Run \/ RunResizes \/ Bus \/ Client

(* Every thread runs on; the application keeps drawing.                    *)
Spec == Init /\ [][Next]_vars /\ WF_vars(Run) /\ WF_vars(Bus) /\ WF_vars(Client)
-----------------------------------------------------------------------------
TypeOK ==
    /\ kinds \in [Method -> Kinds]
    /\ gl \in BOOLEAN
    /\ method_idx \in 1 .. M + 1
    /\ {method, fds, fdinfo, importing, imported} \subseteq 0 .. M
    /\ dmabufs \in Seq(Method)
    /\ failures \in Nat
    /\ {send_dmabuf, crashed, fresh} \subseteq BOOLEAN
    /\ run_pc \in {"boot", "loop", "sending", "rendering", "over"}
    /\ failed_pc \in {"idle", "reset", "filled"}
    /\ resizes \in 0 .. MaxResizes

(* The server outlives every negotiation: when send_dmabuf duplicates the  *)
(* descriptors of the buffers they are there (unique_fd::dup), unless the  *)
(* HUD's size has changed or a method made buffers without descriptors.    *)
ServerSurvives ==
    resizes = 0 /\ (\A i \in Method : kinds[i] # "broken") => ~crashed

(* As long as the HUD keeps its size a method that works for the client is *)
(* not passed over: no second import_failed of an earlier method is taken  *)
(* for one of this method (Renderer::consumer_import_failed).              *)
FirstUsableIsKept ==
    resizes = 0 => \A i \in Method : kinds[i] = "good" => method_idx <= i

(* The server gives up drawing, with "No usable render method", only when  *)
(* none of its methods works for the client.                               *)
GivesUpOnlyWithoutUsable ==
    run_pc # "boot" /\ method = None => \A i \in Method : kinds[i] # "good"

Quiet ==
    /\ run_pc \notin {"boot", "sending", "over"} /\ failed_pc = "idle"
    /\ ~send_dmabuf /\ dmabufs = <<>> /\ failures = 0
    /\ ~fresh /\ importing = None

(* When all announcements and answers have arrived, the overlay draws from *)
(* the very buffers that the server renders into.                          *)
QuietAgreement == Quiet /\ method # None => imported = method

(* The negotiation ends: with buffers both sides use, without a method, or *)
(* without a server.                                                       *)
Settles ==
    <>[](crashed \/ Quiet)
=============================================================================
