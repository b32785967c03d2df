---------------------------- MODULE SlotExchange ----------------------------
(***************************************************************************)
(* What the frame loop of mangohud-next promises, slot by slot.            *)
(*                                                                         *)
(* The server renders the overlay into a ring of shared image buffers (the *)
(* slots); the client copies a slot into the application's frame.  A slot  *)
(* is passed back and forth: one side owns it, starts a single GPU access  *)
(* and passes the slot on together with a fence of that access, and the    *)
(* other side starts its own access only once that fence has signalled.    *)
(* A fault (a failed call into a driver or the bus) may take a slot out of *)
(* circulation; it never puts a slot in two hands.                         *)
(***************************************************************************)
CONSTANT
    Slot            \* the shared image buffers

VARIABLES
    owner,          \* owner[s]: the side that may start the next access to s
    reading,        \* slots that the client's GPU is reading
    writing         \* slots that the server's GPU is writing

vars == <<owner, reading, writing>>

Side == {"client", "server", "none"}

TypeOK ==
    /\ owner \in [Slot -> Side]
    /\ reading \in SUBSET Slot
    /\ writing \in SUBSET Slot

Init ==
    /\ owner = [s \in Slot |-> "none"]
    /\ reading = {}
    /\ writing = {}

(* The handshake: every slot starts in the client's hands.                 *)
Grant ==
    /\ owner = [s \in Slot |-> "none"]
    /\ owner' = [s \in Slot |-> "client"]
    /\ UNCHANGED <<reading, writing>>

(* The client submits a copy of s and passes s to the server.              *)
Read(s) ==
    /\ owner[s] = "client"
    /\ s \notin writing
    /\ owner' = [owner EXCEPT ![s] = "server"]
    /\ reading' = reading \union {s}
    /\ UNCHANGED writing

(* The server submits the rendering of s and passes s to the client.       *)
Write(s) ==
    /\ owner[s] = "server"
    /\ s \notin reading
    /\ owner' = [owner EXCEPT ![s] = "client"]
    /\ writing' = writing \union {s}
    /\ UNCHANGED reading

(* The client submits a copy of s and fails to pass s on: s is lost.       *)
LosingRead(s) ==
    /\ owner[s] = "client"
    /\ s \notin writing
    /\ owner' = [owner EXCEPT ![s] = "none"]
    /\ reading' = reading \union {s}
    /\ UNCHANGED writing

(* The server submits the rendering of s and fails to export its fence: it *)
(* keeps s to render it again, or loses it.                                *)
FailingWrite(s) ==
    /\ owner[s] = "server"
    /\ s \notin reading
    /\ owner' \in {owner, [owner EXCEPT ![s] = "none"]}
    /\ writing' = writing \union {s}
    /\ UNCHANGED reading

(* s drops out of circulation without an access.                           *)
Lose(s) ==
    /\ owner' = [owner EXCEPT ![s] = "none"]
    /\ UNCHANGED <<reading, writing>>

(* GPU work ends: one access, or all of them when a device is made idle.   *)
Complete ==
    /\ reading' \subseteq reading
    /\ writing' \subseteq writing
    /\ UNCHANGED owner

Next ==
    \/ Complete
    \/ Grant
    \/ \E s \in Slot :
          Read(s) \/ Write(s) \/ LosingRead(s) \/ FailingWrite(s) \/ Lose(s)

Spec == Init /\ [][Next]_vars

(* The two GPUs never access one slot at the same time.                    *)
Exclusive == reading \intersect writing = {}
=============================================================================
