-------------------------- MODULE FrameLoopProofs --------------------------
(***************************************************************************)
(* Theorems about FrameLoop for every number of buffers, of resizes and of *)
(* faults: the type invariant; a slot has one holder; the two GPUs never   *)
(* access a slot at the same time; no frame reaches the client before the  *)
(* buffers it was rendered into; FrameLoop implements SlotExchange;        *)
(* without faults the server never records a command buffer that is still  *)
(* executing; and slots are lost to failing calls only.                    *)
(***************************************************************************)
EXTENDS FrameLoop, SequenceTheorems, FiniteSetTheorems, TLAPS

USE NAssumption, BoundsAssumption DEF NAssumption, BoundsAssumption

(* The state keeps the types of its variables, whatever calls fail.        *)
THEOREM TypeCorrect == Spec => []TypeOK
<1> USE DEF TypeOK
<1>1. Init => TypeOK
  <2> SUFFICES ASSUME Init PROVE TypeOK
    OBVIOUS
  <2>1. [kind |-> "on_connect", slot |-> NoSlot] \in ClientMsg
    BY DEF ClientMsg
  <2>2. client_work \in Seq(ClientMsg)
    BY <2>1 DEF Init
  <2>3. /\ client_queue \in Seq(Frame) /\ server_queue \in Seq([slot : Slot])
        /\ to_server \in Seq(ClientMsg)
        /\ to_client \in Seq(ServerMsg) /\ server_work \in Seq(ServerMsg)
    BY DEF Init
  <2>4. /\ current_slot \in Slot \union {NoSlot}
        /\ last_slot \in Slot \union {NoSlot}
        /\ buf_idx \in Slot \union {NoSlot}
        /\ valid \in SUBSET Slot /\ reading \in SUBSET Slot /\ writing \in SUBSET Slot
        /\ unfenced \in SUBSET reading
    BY DEF Init
  <2>5. imported \in Gen /\ generation \in Gen /\ faults \in 0 .. MaxFaults
    BY DEF Init, Gen
  <2>6. /\ api_known \in BOOLEAN /\ send_dmabuf \in BOOLEAN
        /\ run_pc \in {"boot", "top", "waiting", "woken"}
    BY DEF Init
  <2> QED BY <2>2, <2>3, <2>4, <2>5, <2>6
<1>2. TypeOK /\ [Next]_vars => TypeOK'
  <2> SUFFICES ASSUME TypeOK, [Next]_vars PROVE TypeOK'
    OBVIOUS
  <2>1. Held \in Slot \union {NoSlot} /\ Drawn \in Slot \union {NoSlot}
    <3>1. client_queue # <<>> => Head(client_queue) \in Frame
      BY HeadTailProperties
    <3> QED BY <3>1 DEF Held, Drawn, CanTake, Frame
  <2>2. NextFrame => client_queue' \in Seq(Frame)
    BY DEF NextFrame, CanTake
  <2>3. CASE DrawCopy
    BY <2>1, <2>2, <2>3 DEF DrawCopy, Drawing, run, FrameReady, ClientMsg
  <2>4. CASE DrawCached
    BY <2>1, <2>2, <2>4 DEF DrawCached, run, gpu
  <2>5. CASE DrawAborts
    BY <2>1, <2>2, <2>5 DEF DrawAborts, run, gpu
  <2>6. CASE EndCommandBufferFails
    BY <2>1, <2>2, <2>6 DEF EndCommandBufferFails, Drawing, Fault, run, gpu
  <2>7. CASE ExportFails
    BY <2>1, <2>2, <2>7 DEF ExportFails, Drawing, Fault, run
  <2>8. CASE ClientSendsHandshake
    <3>1. [i \in 1 .. N |-> [slot |-> i - 1, gen |-> 0]] \in Seq(Frame)
      BY DEF Frame, Slot, Gen
    <3> QED BY <2>8, <3>1 DEF ClientSendsHandshake, overlay, run, gpu
  <2>9. CASE ClientSendsFrame
    BY <2>9 DEF ClientSendsFrame, overlay, run, gpu
  <2>10. CASE ClientSendFails
    BY <2>10 DEF ClientSendFails, Fault, overlay, run, gpu
  <2>11. CASE ClientImports
    BY <2>11 DEF ClientImports, run, ServerMsg
  <2>12. CASE ClientReceivesFrame
    BY <2>12 DEF ClientReceivesFrame, overlay, run, gpu, Frame, ServerMsg, NoSlot
  <2>13. CASE ServerConnects
    BY <2>13 DEF ServerConnects, overlay, run, gpu
  <2>14. CASE ServerReceivesFrame
    BY <2>14 DEF ServerReceivesFrame, overlay, gpu, ClientMsg
  <2>15. CASE ServerSends
    BY <2>15 DEF ServerSends, overlay, run, gpu
  <2>16. CASE ServerSendFails
    BY <2>16 DEF ServerSendFails, Fault, overlay, run, gpu
  <2>17. CASE RunStarts
    BY <2>17 DEF RunStarts, overlay, gpu, Gen
  <2>18. CASE RunSendsDmabuf
    <3>1. [kind |-> "dmabuf", slot |-> NoSlot, gen |-> generation] \in ServerMsg
      BY DEF ServerMsg
    <3>2. server_work' \in Seq(ServerMsg)
      BY <2>18, <3>1 DEF RunSendsDmabuf
    <3> QED BY <2>18, <3>2 DEF RunSendsDmabuf, overlay, gpu
  <2>19. CASE RunWaits \/ WaitTimesOut \/ RunFindsNothing
    BY <2>19 DEF RunWaits, WaitTimesOut, RunFindsNothing, overlay, gpu
  <2>20. CASE RunAcquires \/ RunGivesUpWait
    <3>1. server_queue # <<>> => Head(server_queue) \in [slot : Slot]
      BY HeadTailProperties
    <3>2. Head(server_queue).slot \in Slot
      BY <2>20, <3>1 DEF RunAcquires, RunGivesUpWait
    <3>3. run_pc' = "top" /\ buf_idx' \in Slot /\ unfenced' \in SUBSET reading
      <4>1. CASE RunAcquires
        BY <3>2, <4>1 DEF RunAcquires
      <4>2. CASE RunGivesUpWait
        BY <3>2, <4>2 DEF RunGivesUpWait
      <4> QED BY <2>20, <4>1, <4>2
    <3>4. server_queue' \in Seq([slot : Slot])
      <4>1. server_queue # <<>> /\ server_queue' = Tail(server_queue)
        BY <2>20 DEF RunAcquires, RunGivesUpWait
      <4>2. server_queue \in Seq([slot : Slot])
        OBVIOUS
      <4> HIDE DEF TypeOK
      <4> QED BY <4>1, <4>2, HeadTailProperties
    <3>5. UNCHANGED <<client_queue, overlay, client_work, to_server, to_client,
                      api_known, send_dmabuf, generation, server_work, gpu, faults>>
      BY <2>20 DEF RunAcquires, RunGivesUpWait
    <3> QED BY <3>3, <3>4, <3>5 DEF overlay, gpu
  <2>21. CASE RunRenders
    BY <2>21 DEF RunRenders, AboutToRender, overlay, ServerMsg
  <2>22. CASE RunResizes
    <3>1. generation + 1 \in Gen
      BY <2>22 DEF RunResizes, Gen
    <3> QED BY <2>22, <3>1 DEF RunResizes, overlay
  <2>23. CASE RunExportFails
    BY <2>23 DEF RunExportFails, AboutToRender, Fault, overlay
  <2>24. CASE \E s \in Slot : CopyDone(s) \/ RenderingDone(s)
    BY <2>24 DEF CopyDone, RenderingDone, overlay, run
  <2>25. CASE UNCHANGED vars
    BY <2>25 DEF vars, overlay, run, gpu
  <2> QED
    BY <2>3, <2>4, <2>5, <2>6, <2>7, <2>8, <2>9, <2>10, <2>11, <2>12, <2>13,
       <2>14, <2>15, <2>16, <2>17, <2>18, <2>19, <2>20, <2>21, <2>22, <2>23,
       <2>24, <2>25
    DEF Next, Draw, DrawFails, ClientBus, ServerBus, Run
<1>3. QED
  BY <1>1, <1>2, PTL DEF Spec
-----------------------------------------------------------------------------
(* Slots that change places: p and q are the pipe before and after a step. *)
Item == Frame \union [slot : Slot] \union ClientMsg \union ServerMsg

(* The front of a moves to the end of b, as an item for the same slot.     *)
Moved(p, q, a, b) ==
    /\ p[a] # <<>> /\ q[a] = Tail(p[a])
    /\ \E x \in Item : x.slot = Head(p[a]).slot /\ q[b] = Append(p[b], x)
    /\ \A c \in Stage : c # a /\ c # b => q[c] = p[c]

(* The front of a is gone.                                                 *)
Dropped(p, q, a) ==
    /\ p[a] # <<>> /\ q[a] = Tail(p[a])
    /\ \A c \in Stage : c # a => q[c] = p[c]

(* A message that carries no slot is new at the end of a.                  *)
Added(p, q, a) ==
    /\ \E x \in Item : x.slot = NoSlot /\ q[a] = Append(p[a], x)
    /\ \A c \in Stage : c # a => q[c] = p[c]

(* In the proofs st and at give the place in p of the slot at a place in q *)

(* Moving the front of one stage to the end of another keeps slots unique. *)
LEMMA UniqueMove ==
    ASSUME NEW p, NEW q, \A c \in Stage : p[c] \in Seq(Item),
           NEW a \in Stage, NEW b \in Stage, a # b,
           Unique(p), Moved(p, q, a, b)
    PROVE  Unique(q)
<1> USE DEF Moved
<1> PICK x \in Item : x.slot = Head(p[a]).slot /\ q[b] = Append(p[b], x)
  OBVIOUS
<1> DEFINE n == Len(p[b]) + 1
           st(c, i) == IF c = b /\ i = n THEN a ELSE c
           at(c, i) == IF c = b /\ i = n THEN 1 ELSE IF c = a THEN i + 1 ELSE i
<1>1. /\ DOMAIN q[a] = 1 .. Len(p[a]) - 1
      /\ \A i \in DOMAIN q[a] : q[a][i] = p[a][i + 1]
      /\ 1 \in DOMAIN p[a] /\ DOMAIN p[a] = 1 .. Len(p[a]) /\ Len(p[a]) \in Nat
  BY HeadTailProperties
<1>2. /\ DOMAIN q[b] = 1 .. n /\ DOMAIN p[b] = 1 .. n - 1
      /\ n \in Nat
      /\ \A i \in 1 .. n - 1 : q[b][i] = p[b][i]
      /\ q[b][n].slot = p[a][1].slot
  BY AppendProperties, Head(p[a]) = p[a][1]
<1>3. ASSUME NEW c \in Stage, NEW i \in DOMAIN q[c]
      PROVE  /\ i \in Nat \ {0}
             /\ st(c, i) \in Stage
             /\ at(c, i) \in DOMAIN p[st(c, i)]
             /\ q[c][i].slot = p[st(c, i)][at(c, i)].slot
  <2>1. CASE c = a
    <3>1. i \in DOMAIN q[a]
      BY <2>1
    <3>2. i + 1 \in DOMAIN p[a] /\ q[a][i] = p[a][i + 1] /\ i \in Nat \ {0}
      BY <1>1, <3>1
    <3>3. st(c, i) = a /\ at(c, i) = i + 1
      BY <2>1
    <3> QED BY <2>1, <3>2, <3>3
  <2>2. CASE c = b /\ i = n
    BY <1>1, <1>2, <2>2
  <2>3. CASE c = b /\ i # n
    <3>1. i \in 1 .. n - 1 /\ q[b][i] = p[b][i]
      BY <1>2, <2>3
    <3>2. st(c, i) = b /\ at(c, i) = i
      BY <2>3
    <3> QED BY <1>2, <2>3, <3>1, <3>2
  <2>4. CASE c # a /\ c # b
    BY <2>4
  <2> QED BY <2>1, <2>2, <2>3, <2>4
<1>4. ASSUME NEW c \in Stage, NEW i \in DOMAIN q[c],
             NEW d \in Stage, NEW j \in DOMAIN q[d],
             st(c, i) = st(d, j), at(c, i) = at(d, j)
      PROVE  c = d /\ i = j
  BY <1>3, <1>4
<1> HIDE DEF st, at
<1>5. ASSUME NEW c \in Stage, NEW i \in DOMAIN q[c],
             NEW d \in Stage, NEW j \in DOMAIN q[d],
             q[c][i].slot = q[d][j].slot, q[c][i].slot # NoSlot
      PROVE  c = d /\ i = j
  <2>1. /\ st(c, i) \in Stage /\ at(c, i) \in DOMAIN p[st(c, i)]
        /\ q[c][i].slot = p[st(c, i)][at(c, i)].slot
    BY <1>3
  <2>2. /\ st(d, j) \in Stage /\ at(d, j) \in DOMAIN p[st(d, j)]
        /\ q[d][j].slot = p[st(d, j)][at(d, j)].slot
    BY <1>3
  <2>3. /\ p[st(c, i)][at(c, i)].slot = p[st(d, j)][at(d, j)].slot
        /\ p[st(c, i)][at(c, i)].slot # NoSlot
    BY <1>5, <2>1, <2>2
  <2>4. st(c, i) = st(d, j) /\ at(c, i) = at(d, j)
    BY <2>1, <2>2, <2>3 DEF Unique
  <2> QED BY <2>4, <1>4
<1> QED BY <1>5 DEF Unique

(* Dropping the front of a stage keeps slots unique.                       *)
LEMMA UniqueDrop ==
    ASSUME NEW p, NEW q, \A c \in Stage : p[c] \in Seq(Item),
           NEW a \in Stage, Unique(p), Dropped(p, q, a)
    PROVE  Unique(q)
<1> USE DEF Dropped
<1> DEFINE at(c, i) == IF c = a THEN i + 1 ELSE i
<1>1. /\ DOMAIN q[a] = 1 .. Len(p[a]) - 1
      /\ \A i \in DOMAIN q[a] : q[a][i] = p[a][i + 1]
      /\ DOMAIN p[a] = 1 .. Len(p[a]) /\ Len(p[a]) \in Nat
  BY HeadTailProperties
<1>2. ASSUME NEW c \in Stage, NEW i \in DOMAIN q[c]
      PROVE  i \in Nat /\ at(c, i) \in DOMAIN p[c] /\ q[c][i] = p[c][at(c, i)]
  <2>1. CASE c = a
    <3>1. i \in DOMAIN q[a]
      BY <2>1
    <3>2. i + 1 \in DOMAIN p[a] /\ q[a][i] = p[a][i + 1] /\ i \in Nat
      BY <1>1, <3>1
    <3> QED BY <2>1, <3>2
  <2>2. CASE c # a
    BY <2>2
  <2> QED BY <2>1, <2>2
<1>3. ASSUME NEW c \in Stage, NEW i \in DOMAIN q[c], NEW j \in DOMAIN q[c],
             at(c, i) = at(c, j)
      PROVE  i = j
  <2>1. i \in Nat /\ j \in Nat
    BY <1>2
  <2>2. CASE c = a
    <3>1. i + 1 = j + 1
      BY <1>3, <2>2
    <3> HIDE DEF at
    <3> QED BY <2>1, <3>1
  <2>3. CASE c # a
    BY <1>3, <2>3
  <2> QED BY <2>2, <2>3
<1> HIDE DEF at
<1>4. ASSUME NEW c \in Stage, NEW i \in DOMAIN q[c],
             NEW d \in Stage, NEW j \in DOMAIN q[d],
             q[c][i].slot = q[d][j].slot, q[c][i].slot # NoSlot
      PROVE  c = d /\ i = j
  <2>1. at(c, i) \in DOMAIN p[c] /\ q[c][i] = p[c][at(c, i)]
    BY <1>2
  <2>2. at(d, j) \in DOMAIN p[d] /\ q[d][j] = p[d][at(d, j)]
    BY <1>2
  <2>3. c = d /\ at(c, i) = at(d, j)
    BY <1>4, <2>1, <2>2 DEF Unique
  <2> QED BY <2>3, <1>3
<1> QED BY <1>4 DEF Unique

(* Appending a message that carries no slot keeps slots unique.            *)
LEMMA UniqueAdd ==
    ASSUME NEW p, NEW q, \A c \in Stage : p[c] \in Seq(Item),
           NEW a \in Stage, Unique(p), Added(p, q, a)
    PROVE  Unique(q)
<1> USE DEF Added
<1> PICK x \in Item : x.slot = NoSlot /\ q[a] = Append(p[a], x)
  OBVIOUS
<1>1. ASSUME NEW c \in Stage, NEW i \in DOMAIN q[c], q[c][i].slot # NoSlot
      PROVE  i \in DOMAIN p[c] /\ q[c][i] = p[c][i]
  <2>1. CASE c = a
    BY <1>1, <2>1, AppendProperties
  <2>2. CASE c # a
    BY <2>2
  <2> QED BY <2>1, <2>2
<1>2. ASSUME NEW c \in Stage, NEW i \in DOMAIN q[c],
             NEW d \in Stage, NEW j \in DOMAIN q[d],
             q[c][i].slot = q[d][j].slot, q[c][i].slot # NoSlot
      PROVE  c = d /\ i = j
  BY <1>1, <1>2 DEF Unique
<1> QED BY <1>2 DEF Unique
-----------------------------------------------------------------------------
(* The inductive invariant behind OneHolder.                               *)

(* The handshake is the first message of all: nothing else has happened.   *)
NoHandshake(q) == \A i \in DOMAIN q : q[i].kind # "on_connect"

HandshakeFirst ==
    \/ NoHandshake(client_work)
    \/ /\ Len(client_work) = 1 /\ Head(client_work).kind = "on_connect"
       /\ client_queue = <<>> /\ server_queue = <<>>
       /\ to_server = <<>> /\ to_client = <<>> /\ server_work = <<>>
       /\ current_slot = NoSlot /\ last_slot = NoSlot /\ buf_idx = NoSlot
       /\ run_pc = "boot" /\ ~api_known

(* The slot shown last is cached, so that it is never copied a second time *)
(* without being held: init_dmabufs resets last_slot and the cache at once. *)
ShownIsCached == last_slot = NoSlot \/ last_slot \in valid

(* Client::run looks for a frame only while it has none.                   *)
EmptyHanded == run_pc # "top" => buf_idx = NoSlot

SlotInv == OneHolder /\ HandshakeFirst /\ ShownIsCached /\ EmptyHanded

LEMMA PipeType == TypeOK => \A c \in Stage : pipe[c] \in Seq(Item)
<1> SUFFICES ASSUME TypeOK PROVE \A c \in Stage : pipe[c] \in Seq(Item)
  OBVIOUS
<1>1. /\ client_queue \in Seq(Item)
      /\ client_work \in Seq(Item) /\ to_server \in Seq(Item)
      /\ server_queue \in Seq(Item)
      /\ server_work \in Seq(Item) /\ to_client \in Seq(Item)
  <2>1. /\ Frame \subseteq Item /\ [slot : Slot] \subseteq Item
        /\ ClientMsg \subseteq Item /\ ServerMsg \subseteq Item
    BY Zenon DEF Item
  <2> QED BY <2>1, SeqMonotonic DEF TypeOK
<1>2. \A s \in Slot \union {NoSlot} : Single(s) \in Seq(Item)
  <2>1. ASSUME NEW s \in Slot PROVE <<[slot |-> s]>> \in Seq(Item)
    <3>1. [slot |-> s] \in Item
      BY DEF Item
    <3> QED BY <3>1
  <2>2. <<>> \in Seq(Item)
    OBVIOUS
  <2> QED BY <2>1, <2>2 DEF Single
<1> QED BY <1>1, <1>2 DEF TypeOK, Stage, pipe

(* Each way in which a step changes the pipe keeps its slots unique.       *)
LEMMA PipeStep ==
    ASSUME TypeOK, OneHolder,
           \/ pipe' = pipe
           \/ \E a, b \in Stage : a # b /\ Moved(pipe, pipe', a, b)
           \/ \E a \in Stage : Dropped(pipe, pipe', a) \/ Added(pipe, pipe', a)
    PROVE  OneHolder'
<1>1. \A c \in Stage : pipe[c] \in Seq(Item)
  BY PipeType
<1>2. Unique(pipe)
  BY DEF OneHolder
<1>3. Unique(pipe')
  BY <1>1, <1>2, UniqueMove, UniqueDrop, UniqueAdd
<1> QED BY <1>3 DEF OneHolder, Unique

(* What a draw does to the pipe: it takes the front frame or has it        *)
(* already, and passes it on, drops it or keeps it.                        *)
LEMMA HeldSlot ==
    ASSUME TypeOK, NextFrame
    PROVE  \/ /\ CanTake /\ Held = Head(client_queue).slot /\ Held \in Slot
              /\ client_queue # <<>> /\ client_queue' = Tail(client_queue)
              /\ current_slot = NoSlot
           \/ ~CanTake /\ Held = current_slot /\ client_queue' = client_queue
<1>1. client_queue # <<>> => Head(client_queue) \in Frame
  BY HeadTailProperties DEF TypeOK
<1> QED BY <1>1 DEF NextFrame, Held, CanTake, Frame

(* How each action changes the pipe.  A change that leaves the pipe alone  *)
(* is not listed, and neither is the handshake.                            *)
PipeMoves ==
    /\ DrawCopy =>
           \E a \in {"client_queue", "current_slot"} :
               /\ Moved(pipe, pipe', a, "client_work")
               /\ Head(pipe[a]).slot = Drawn
    /\ ExportFails =>
           \E a \in {"client_queue", "current_slot"} :
               Dropped(pipe, pipe', a) /\ Head(pipe[a]).slot = Drawn
    /\ DrawCached =>
           \/ pipe' = pipe /\ current_slot = NoSlot
           \/ \E a \in {"client_queue", "current_slot"} :
                  Dropped(pipe, pipe', a) /\ Head(pipe[a]).slot = last_slot
    /\ DrawAborts \/ EndCommandBufferFails =>
           pipe' = pipe \/ Moved(pipe, pipe', "client_queue", "current_slot")
    /\ ClientSendsFrame => Moved(pipe, pipe', "client_work", "to_server")
    /\ ClientSendFails => Dropped(pipe, pipe', "client_work")
    /\ ClientImports => /\ Dropped(pipe, pipe', "to_client")
                        /\ Head(pipe["to_client"]).slot = NoSlot
    /\ ClientReceivesFrame => Moved(pipe, pipe', "to_client", "client_queue")
    /\ ServerConnects => Dropped(pipe, pipe', "to_server")
    /\ ServerReceivesFrame => Moved(pipe, pipe', "to_server", "server_queue")
    /\ ServerSends => Moved(pipe, pipe', "server_work", "to_client")
    /\ ServerSendFails => Dropped(pipe, pipe', "server_work")
    /\ RunSendsDmabuf => Added(pipe, pipe', "server_work")
    /\ RunAcquires \/ RunGivesUpWait => Moved(pipe, pipe', "server_queue", "buf_idx")
    /\ RunRenders => /\ Moved(pipe, pipe', "buf_idx", "server_work")
                     /\ Head(pipe["buf_idx"]).slot = buf_idx
    /\ RunExportFails =>
           \/ pipe' = pipe
           \/ /\ Dropped(pipe, pipe', "buf_idx")
              /\ Head(pipe["buf_idx"]).slot = buf_idx

(* The actions that leave the pipe alone.                                  *)
Idle == \/ RunStarts \/ RunWaits \/ WaitTimesOut \/ RunFindsNothing \/ RunResizes
        \/ (\E s \in Slot : CopyDone(s) \/ RenderingDone(s))
        \/ UNCHANGED vars

LEMMA IdlePipe == ASSUME Idle PROVE pipe' = pipe
BY DEF Idle, RunStarts, RunWaits, WaitTimesOut, RunFindsNothing, RunResizes,
       CopyDone, RenderingDone, pipe, vars, overlay, run

LEMMA StepsOfThePipe ==
    ASSUME TypeOK, TypeOK', SlotInv, [Next]_vars
    PROVE  PipeMoves
<1>1. ASSUME DrawCopy
      PROVE  \E a \in {"client_queue", "current_slot"} :
                 /\ Moved(pipe, pipe', a, "client_work")
                 /\ Head(pipe[a]).slot = Drawn
  <2>1. FrameReady(Drawn) \in Item
    <3>1. Drawn \in Slot
      BY <1>1, HeadTailProperties
      DEF DrawCopy, Drawing, Drawn, Held, CanTake, TypeOK, Frame
    <3> QED BY <3>1 DEF FrameReady, Item, ClientMsg
  <2>2. FrameReady(Drawn).slot = Drawn
    BY DEF FrameReady
  <2>3. CASE CanTake
    <3>1. Drawn = Head(client_queue).slot
      BY <1>1, <2>3, HeldSlot DEF DrawCopy, Drawn, Slot, NoSlot
    <3>2. Moved(pipe, pipe', "client_queue", "client_work")
      BY <1>1, <2>1, <2>2, <2>3, <3>1, HeldSlot
      DEF Moved, pipe, Stage, DrawCopy, Single, run
    <3>3. pipe["client_queue"] = client_queue
      BY DEF pipe
    <3> QED BY <3>1, <3>2, <3>3
  <2>4. CASE ~CanTake /\ current_slot # NoSlot
    <3>1. Drawn = current_slot
      BY <2>4 DEF Drawn, Held
    <3>2. Moved(pipe, pipe', "current_slot", "client_work")
      BY <1>1, <2>1, <2>2, <2>4, <3>1, HeldSlot
      DEF Moved, pipe, Stage, DrawCopy, Single, run
    <3>3. Head(pipe["current_slot"]).slot = Drawn
      BY <2>4, <3>1 DEF pipe, Single
    <3> QED BY <3>2, <3>3
  <2>5. CASE ~CanTake /\ current_slot = NoSlot
    BY <1>1, <2>5 DEF DrawCopy, Drawing, RefreshCache, Drawn, Held, SlotInv,
                      ShownIsCached
  <2> QED BY <2>3, <2>4, <2>5
<1>2. ASSUME ExportFails
      PROVE  \E a \in {"client_queue", "current_slot"} :
                 Dropped(pipe, pipe', a) /\ Head(pipe[a]).slot = Drawn
  <2>1. Held # NoSlot /\ Drawn = Held
    BY <1>2 DEF ExportFails, Drawing, RefreshCache, Drawn, SlotInv, ShownIsCached
  <2>2. CASE CanTake
    <3>1. Dropped(pipe, pipe', "client_queue")
      BY <1>2, <2>2, HeldSlot DEF ExportFails, Dropped, pipe, Stage, Single, run
    <3>2. Head(pipe["client_queue"]).slot = Drawn
      BY <1>2, <2>1, <2>2, HeldSlot DEF ExportFails, pipe
    <3> QED BY <3>1, <3>2
  <2>3. CASE ~CanTake
    <3>1. Held = current_slot
      BY <2>3 DEF Held
    <3>2. Dropped(pipe, pipe', "current_slot")
      BY <1>2, <2>1, <2>3, <3>1, HeldSlot
      DEF ExportFails, Dropped, pipe, Stage, Single, run
    <3>3. Head(pipe["current_slot"]).slot = Drawn
      BY <2>1, <3>1 DEF pipe, Single
    <3> QED BY <3>2, <3>3
  <2> QED BY <2>2, <2>3
<1>3. ASSUME DrawCached
      PROVE  \/ pipe' = pipe /\ current_slot = NoSlot
             \/ \E a \in {"client_queue", "current_slot"} :
                    Dropped(pipe, pipe', a) /\ Head(pipe[a]).slot = last_slot
  <2>1. Held # NoSlot => Held = last_slot
    BY <1>3 DEF DrawCached, RefreshCache
  <2>2. CASE CanTake
    <3>1. Dropped(pipe, pipe', "client_queue")
      BY <1>3, <2>2, HeldSlot DEF DrawCached, Dropped, pipe, Stage, Single, run
    <3>2. Head(pipe["client_queue"]).slot = last_slot
      BY <1>3, <2>1, <2>2, HeldSlot DEF DrawCached, pipe, Slot, NoSlot
    <3> QED BY <3>1, <3>2
  <2>3. CASE ~CanTake /\ current_slot # NoSlot
    <3>1. Dropped(pipe, pipe', "current_slot")
      BY <1>3, <2>3, HeldSlot DEF DrawCached, Dropped, pipe, Stage, Single, run
    <3>2. Head(pipe["current_slot"]).slot = last_slot
      BY <2>1, <2>3 DEF Held, pipe, Single
    <3> QED BY <3>1, <3>2
  <2>4. CASE ~CanTake /\ current_slot = NoSlot
    <3>1. pipe' = pipe
      BY <1>3, <2>4, HeldSlot DEF DrawCached, pipe, run
    <3> QED BY <2>4, <3>1
  <2> QED BY <2>2, <2>3, <2>4
<1>4. ASSUME DrawAborts \/ EndCommandBufferFails
      PROVE  pipe' = pipe \/ Moved(pipe, pipe', "client_queue", "current_slot")
  <2>1. CASE CanTake
    <3>1. [slot |-> Held] \in Item /\ Held # NoSlot
      BY <1>4, <2>1, HeldSlot
      DEF DrawAborts, EndCommandBufferFails, Item, Slot, NoSlot
    <3>2. Single(current_slot') = Append(Single(current_slot), [slot |-> Held])
      <4>1. Single(current_slot') = <<[slot |-> Held]>>
        BY <1>4, <3>1 DEF DrawAborts, EndCommandBufferFails, Single
      <4>2. Single(current_slot) = <<>>
        BY <2>1 DEF CanTake, Single
      <4> QED BY <3>1, <4>1, <4>2
    <3>3. Moved(pipe, pipe', "client_queue", "current_slot")
      <4>1. /\ client_work' = client_work /\ to_server' = to_server
            /\ to_client' = to_client /\ server_queue' = server_queue
            /\ buf_idx' = buf_idx /\ server_work' = server_work
        BY <1>4 DEF DrawAborts, EndCommandBufferFails, run
      <4> QED BY <2>1, <3>1, <3>2, <4>1, HeldSlot, <1>4
          DEF Moved, pipe, Stage, DrawAborts, EndCommandBufferFails
    <3> QED BY <3>3
  <2>2. CASE ~CanTake
    BY <1>4, <2>2, HeldSlot DEF DrawAborts, EndCommandBufferFails, pipe, run
  <2> QED BY <2>1, <2>2
<1>5. ASSUME ClientSendsFrame PROVE Moved(pipe, pipe', "client_work", "to_server")
  <2>1. Head(client_work) \in Item
    BY <1>5, HeadTailProperties DEF ClientSendsFrame, TypeOK, Item
  <2> QED BY <1>5, <2>1 DEF ClientSendsFrame, Moved, pipe, Stage, overlay, run
<1>6. ClientSendFails => Dropped(pipe, pipe', "client_work")
  BY DEF ClientSendFails, Dropped, pipe, Stage, overlay, run
<1>7. ASSUME ClientImports
      PROVE  /\ Dropped(pipe, pipe', "to_client")
             /\ Head(pipe["to_client"]).slot = NoSlot
  <2>1. Head(to_client) \in ServerMsg /\ Head(to_client).kind = "dmabuf"
    BY <1>7, HeadTailProperties DEF ClientImports, TypeOK
  <2>2. Head(to_client).slot = NoSlot
    BY <2>1 DEF ServerMsg
  <2> QED BY <1>7, <2>2 DEF ClientImports, Dropped, pipe, Stage, run
<1>8. ASSUME ClientReceivesFrame
      PROVE  Moved(pipe, pipe', "to_client", "client_queue")
  <2>1. [slot |-> Head(to_client).slot, gen |-> Head(to_client).gen] \in Item
    <3>1. Head(to_client) \in ServerMsg /\ Head(to_client).kind = "frame_ready"
      BY <1>8, HeadTailProperties DEF ClientReceivesFrame, TypeOK
    <3> QED BY <3>1 DEF ServerMsg, Item, Frame
  <2> QED BY <1>8, <2>1 DEF ClientReceivesFrame, Moved, pipe, Stage, overlay, run
<1>9. ServerConnects => Dropped(pipe, pipe', "to_server")
  BY DEF ServerConnects, Dropped, pipe, Stage, overlay, run
<1>10. ASSUME ServerReceivesFrame
       PROVE  Moved(pipe, pipe', "to_server", "server_queue")
  <2>1. [slot |-> Head(to_server).slot] \in Item
    <3>1. Head(to_server) \in ClientMsg /\ Head(to_server).kind = "frame_ready"
      BY <1>10, HeadTailProperties DEF ServerReceivesFrame, TypeOK
    <3> QED BY <3>1 DEF ClientMsg, Item
  <2> QED BY <1>10, <2>1 DEF ServerReceivesFrame, Moved, pipe, Stage, overlay
<1>11. ASSUME ServerSends PROVE Moved(pipe, pipe', "server_work", "to_client")
  <2>1. Head(server_work) \in Item
    BY <1>11, HeadTailProperties DEF ServerSends, TypeOK, Item
  <2> QED BY <1>11, <2>1 DEF ServerSends, Moved, pipe, Stage, overlay, run
<1>12. ServerSendFails => Dropped(pipe, pipe', "server_work")
  BY DEF ServerSendFails, Dropped, pipe, Stage, overlay, run
<1>13. ASSUME RunSendsDmabuf PROVE Added(pipe, pipe', "server_work")
  <2>1. [kind |-> "dmabuf", slot |-> NoSlot, gen |-> generation] \in Item
    BY DEF Item, ServerMsg, TypeOK
  <2> QED BY <1>13, <2>1 DEF RunSendsDmabuf, Added, pipe, Stage, overlay
<1>14. ASSUME RunAcquires \/ RunGivesUpWait
       PROVE  Moved(pipe, pipe', "server_queue", "buf_idx")
  <2>1. Head(server_queue) \in [slot : Slot] /\ buf_idx = NoSlot
    BY <1>14, HeadTailProperties
    DEF RunAcquires, RunGivesUpWait, TypeOK, SlotInv, EmptyHanded
  <2>2. [slot |-> buf_idx'] \in Item /\ buf_idx' # NoSlot
    BY <1>14, <2>1 DEF RunAcquires, RunGivesUpWait, Item, Slot, NoSlot
  <2> QED BY <1>14, <2>1, <2>2
      DEF RunAcquires, RunGivesUpWait, Moved, pipe, Stage, Single, overlay
<1>15. ASSUME RunRenders
       PROVE  /\ Moved(pipe, pipe', "buf_idx", "server_work")
              /\ Head(pipe["buf_idx"]).slot = buf_idx
  <2>1. [kind |-> "frame_ready", slot |-> buf_idx, gen |-> generation] \in Item
    BY <1>15 DEF RunRenders, AboutToRender, Item, ServerMsg, TypeOK
  <2>2. Moved(pipe, pipe', "buf_idx", "server_work")
    BY <1>15, <2>1 DEF RunRenders, AboutToRender, Moved, pipe, Stage, Single, overlay
  <2>3. Head(pipe["buf_idx"]).slot = buf_idx
    BY <1>15 DEF RunRenders, AboutToRender, pipe, Single
  <2> QED BY <2>2, <2>3
<1>16. ASSUME RunExportFails
       PROVE  \/ pipe' = pipe
              \/ /\ Dropped(pipe, pipe', "buf_idx")
                 /\ Head(pipe["buf_idx"]).slot = buf_idx
  <2>1. pipe' = pipe \/ Dropped(pipe, pipe', "buf_idx")
    BY <1>16 DEF RunExportFails, AboutToRender, Dropped, pipe, Stage, Single, overlay
  <2>2. Head(pipe["buf_idx"]).slot = buf_idx
    BY <1>16 DEF RunExportFails, AboutToRender, pipe, Single
  <2> QED BY <2>1, <2>2
<1> QED
  BY <1>1, <1>2, <1>3, <1>4, <1>5, <1>6, <1>7, <1>8, <1>9, <1>10, <1>11, <1>12,
     <1>13, <1>14, <1>15, <1>16, Zenon
  DEF PipeMoves

(* The handshake hands out every slot, and before it there was none.       *)
LEMMA HandshakePipe ==
    ASSUME TypeOK, SlotInv, ClientSendsHandshake
    PROVE  /\ \A c \in Stage : \A i \in DOMAIN pipe[c] : pipe[c][i].slot = NoSlot
           /\ \A c \in Stage \ {"client_queue"} :
                  \A i \in DOMAIN pipe'[c] : pipe'[c][i].slot = NoSlot
           /\ pipe'["client_queue"] = [i \in 1 .. N |-> [slot |-> i - 1, gen |-> 0]]
<1> DEFINE all == [i \in 1 .. N |-> [slot |-> i - 1, gen |-> 0]]
<1>1. /\ client_queue = <<>> /\ server_queue = <<>>
      /\ to_server = <<>> /\ to_client = <<>> /\ server_work = <<>>
      /\ current_slot = NoSlot /\ buf_idx = NoSlot
      /\ Len(client_work) = 1
  BY DEF ClientSendsHandshake, SlotInv, HandshakeFirst, NoHandshake, TypeOK
<1>2. client_queue' = all
  BY <1>1 DEF ClientSendsHandshake
<1>3. /\ client_work' = <<>>
      /\ \A i \in DOMAIN to_server' : to_server'[i].slot = NoSlot
      /\ \A i \in DOMAIN client_work : client_work[i].slot = NoSlot
  <2>1. client_work[1] \in ClientMsg /\ client_work[1].kind = "on_connect"
    BY <1>1 DEF ClientSendsHandshake, TypeOK
  <2>2. client_work[1].slot = NoSlot
    BY <2>1 DEF ClientMsg
  <2> QED BY <1>1, <2>2 DEF ClientSendsHandshake, TypeOK
<1>4. \A c \in Stage \ {"client_queue"} :
          \A i \in DOMAIN pipe'[c] : pipe'[c][i].slot = NoSlot
  BY <1>1, <1>3 DEF ClientSendsHandshake, pipe, Stage, Single, overlay, run
<1>5. \A c \in Stage : \A i \in DOMAIN pipe[c] : pipe[c][i].slot = NoSlot
  BY <1>1, <1>3 DEF pipe, Stage, Single
<1>6. pipe'["client_queue"] = all
  BY <1>2 DEF pipe
<1> QED BY <1>4, <1>5, <1>6

LEMMA OneHolderStep ==
    ASSUME TypeOK, TypeOK', SlotInv, [Next]_vars
    PROVE  OneHolder'
<1>1. OneHolder
  BY DEF SlotInv
<1>2. CASE ClientSendsHandshake
  <2> DEFINE all == [i \in 1 .. N |-> [slot |-> i - 1, gen |-> 0]]
  <2>1. /\ pipe'["client_queue"] = all
        /\ \A i, j \in DOMAIN all : all[i].slot = all[j].slot => i = j
    BY <1>2, HandshakePipe
  <2>2. \A c \in Stage \ {"client_queue"} :
            \A i \in DOMAIN pipe'[c] : pipe'[c][i].slot = NoSlot
    BY <1>2, HandshakePipe
  <2> HIDE DEF all
  <2> QED BY <2>1, <2>2 DEF OneHolder, Unique
<1>3. CASE Idle
  BY <1>1, <1>3, IdlePipe, PipeStep
<1>4. CASE ~ClientSendsHandshake /\ ~Idle
  <2>1. PipeMoves
    BY StepsOfThePipe
  <2>2. \/ DrawCopy \/ DrawCached \/ ExportFails \/ DrawAborts
        \/ EndCommandBufferFails \/ ClientSendsFrame \/ ClientSendFails
        \/ ClientImports \/ ClientReceivesFrame \/ ServerConnects
        \/ ServerReceivesFrame \/ ServerSends \/ ServerSendFails
        \/ RunSendsDmabuf \/ RunAcquires \/ RunGivesUpWait \/ RunRenders
        \/ RunExportFails
    BY <1>4 DEF Next, Draw, DrawFails, ClientBus, ServerBus, Run, Idle
  <2>3. \/ pipe' = pipe
        \/ \E a, b \in Stage : a # b /\ Moved(pipe, pipe', a, b)
        \/ \E a \in Stage : Dropped(pipe, pipe', a) \/ Added(pipe, pipe', a)
    BY <2>1, <2>2 DEF PipeMoves, Stage
  <2> QED BY <1>1, <2>3, PipeStep
<1> QED BY <1>2, <1>3, <1>4

LEMMA HandshakeStep ==
    ASSUME TypeOK, TypeOK', SlotInv, [Next]_vars
    PROVE  HandshakeFirst'
<1>1. CASE NoHandshake(client_work)
  <2>1. client_work' # client_work
          => \/ client_work # <<>> /\ client_work' = Tail(client_work)
             \/ client_work' = Append(client_work, FrameReady(Drawn))
    BY DEF Next, Draw, DrawFails, ClientBus, ServerBus, Run, vars, overlay,
           DrawCopy, DrawCached, DrawAborts, EndCommandBufferFails, ExportFails,
           ClientSendsHandshake, ClientSendsFrame, ClientSendFails,
           ClientImports, ClientReceivesFrame, ServerConnects,
           ServerReceivesFrame, ServerSends, ServerSendFails, RunStarts,
           RunSendsDmabuf, RunWaits, WaitTimesOut, RunFindsNothing, RunAcquires, RunGivesUpWait,
           RunRenders, RunResizes, RunExportFails, CopyDone, RenderingDone
  <2>2. FrameReady(Drawn).kind # "on_connect"
    BY DEF FrameReady
  <2>3. CASE client_work # <<>> /\ client_work' = Tail(client_work)
    <3>1. ASSUME NEW i \in DOMAIN client_work'
          PROVE  client_work'[i].kind # "on_connect"
      <4>1. i + 1 \in DOMAIN client_work /\ client_work'[i] = client_work[i + 1]
        BY <2>3, HeadTailProperties DEF TypeOK
      <4> QED BY <1>1, <4>1 DEF NoHandshake
    <3> QED BY <3>1 DEF HandshakeFirst, NoHandshake
  <2>4. CASE client_work' = Append(client_work, FrameReady(Drawn))
    <3>1. ASSUME NEW i \in DOMAIN client_work'
          PROVE  client_work'[i].kind # "on_connect"
      <4>1. \/ client_work'[i] = FrameReady(Drawn)
            \/ i \in DOMAIN client_work /\ client_work'[i] = client_work[i]
        BY <2>4 DEF TypeOK
      <4> QED BY <1>1, <2>2, <4>1 DEF NoHandshake
    <3> QED BY <3>1 DEF HandshakeFirst, NoHandshake
  <2>5. CASE client_work' = client_work
    BY <1>1, <2>5 DEF HandshakeFirst, NoHandshake
  <2> QED BY <2>1, <2>3, <2>4, <2>5
<1>2. CASE ~NoHandshake(client_work)
  <2>1. /\ Len(client_work) = 1 /\ Head(client_work).kind = "on_connect"
        /\ client_queue = <<>> /\ server_queue = <<>>
        /\ to_server = <<>> /\ to_client = <<>> /\ server_work = <<>>
        /\ current_slot = NoSlot /\ last_slot = NoSlot /\ buf_idx = NoSlot
        /\ run_pc = "boot" /\ ~api_known
    BY <1>2 DEF SlotInv, HandshakeFirst
  <2>2. CASE ClientSendsHandshake
    <3>1. client_work' = <<>>
      BY <2>1, <2>2 DEF ClientSendsHandshake, TypeOK
    <3> QED BY <3>1 DEF HandshakeFirst, NoHandshake
  <2>3. \/ ClientSendsHandshake \/ UNCHANGED vars
        \/ \E s \in Slot : CopyDone(s) \/ RenderingDone(s)
    BY <2>1
    DEF Next, Draw, DrawFails, ClientBus, ServerBus, Run, Drawing, Drawn, Held,
        CanTake, DrawCopy, DrawCached, DrawAborts, EndCommandBufferFails,
        ExportFails, ClientSendsFrame, ClientSendFails, ClientImports,
        ClientReceivesFrame, ServerConnects, ServerReceivesFrame, ServerSends,
        ServerSendFails, RunStarts, RunSendsDmabuf, RunWaits, WaitTimesOut,
        RunFindsNothing, RunAcquires, RunGivesUpWait, RunRenders, RunResizes, RunExportFails,
        AboutToRender
  <2>4. CASE UNCHANGED vars \/ \E s \in Slot : CopyDone(s) \/ RenderingDone(s)
    BY <2>1, <2>4
    DEF CopyDone, RenderingDone, vars, overlay, run, HandshakeFirst
  <2> QED BY <2>2, <2>3, <2>4
<1> QED BY <1>1, <1>2

LEMMA ShownStep ==
    ASSUME TypeOK, SlotInv, [Next]_vars
    PROVE  ShownIsCached' /\ EmptyHanded'
<1> USE DEF SlotInv
<1>1. ShownIsCached'
  <2>1. \/ last_slot' = last_slot /\ valid' = valid
        \/ last_slot' = Drawn /\ valid' = valid \union {Drawn}
        \/ last_slot' = NoSlot
    BY DEF Next, Draw, DrawFails, ClientBus, ServerBus, Run, vars, overlay,
           DrawCopy, DrawCached, DrawAborts, EndCommandBufferFails, ExportFails,
           ClientSendsHandshake, ClientSendsFrame, ClientSendFails,
           ClientImports, ClientReceivesFrame, ServerConnects,
           ServerReceivesFrame, ServerSends, ServerSendFails, RunStarts,
           RunSendsDmabuf, RunWaits, WaitTimesOut, RunFindsNothing, RunAcquires, RunGivesUpWait,
           RunRenders, RunResizes, RunExportFails, CopyDone, RenderingDone
  <2> QED BY <2>1 DEF ShownIsCached
<1>2. EmptyHanded'
  <2>1. \/ run_pc' = run_pc /\ buf_idx' = buf_idx
        \/ run_pc' = "top"
        \/ run_pc \in {"top", "waiting"} /\ buf_idx' = buf_idx /\ buf_idx = NoSlot
    BY DEF Next, Draw, DrawFails, ClientBus, ServerBus, Run, vars, run,
           DrawCopy, DrawCached, DrawAborts, EndCommandBufferFails, ExportFails,
           ClientSendsHandshake, ClientSendsFrame, ClientSendFails,
           ClientImports, ClientReceivesFrame, ServerConnects,
           ServerReceivesFrame, ServerSends, ServerSendFails, RunStarts,
           RunSendsDmabuf, RunWaits, WaitTimesOut, RunFindsNothing, RunAcquires, RunGivesUpWait,
           RunRenders, RunResizes, RunExportFails, CopyDone, RenderingDone,
           AboutToRender, EmptyHanded
  <2> QED BY <2>1 DEF EmptyHanded
<1> QED BY <1>1, <1>2

LEMMA SlotInvariant == Spec => []SlotInv
<1>1. Init => SlotInv
  BY DEF Init, SlotInv, OneHolder, Unique, pipe, Stage, Single, HandshakeFirst,
         NoHandshake, ShownIsCached, EmptyHanded
<1>2. TypeOK /\ TypeOK' /\ SlotInv /\ [Next]_vars => SlotInv'
  BY OneHolderStep, HandshakeStep, ShownStep DEF SlotInv
<1> QED BY TypeCorrect, <1>1, <1>2, PTL DEF Spec

(* A slot never has two holders in the two processes and on the bus.       *)
THEOREM OneHolderCorrect == Spec => []OneHolder
<1>1. SlotInv => OneHolder
  BY DEF SlotInv
<1> QED BY SlotInvariant, <1>1, PTL
-----------------------------------------------------------------------------
(* The inductive invariant behind ExclusiveAccess: the slot each side is   *)
(* about to use is not in use by the other side's GPU.  next_frame checked *)
(* that for the client's slot, try_acquire_buffer for the server's.        *)
HeldIsRendered == current_slot \notin writing
AcquiredIsCopied == buf_idx \notin reading \ unfenced

AccessInv == ExclusiveAccess /\ HeldIsRendered /\ AcquiredIsCopied

(* The client's and the server's slot differ.                              *)
LEMMA HeldApart ==
    ASSUME TypeOK, OneHolder, buf_idx # NoSlot
    PROVE  /\ current_slot # buf_idx
           /\ client_queue # <<>> => Head(client_queue).slot # buf_idx
<1> USE DEF OneHolder, Unique
<1>1. "buf_idx" \in Stage /\ "current_slot" \in Stage /\ "client_queue" \in Stage
  BY DEF Stage
<1>2. pipe["buf_idx"] = <<[slot |-> buf_idx]>> /\ 1 \in DOMAIN pipe["buf_idx"]
  BY DEF pipe, Single
<1>3. current_slot # buf_idx
  <2>1. SUFFICES ASSUME current_slot = buf_idx PROVE FALSE
    OBVIOUS
  <2>2. /\ pipe["current_slot"] = <<[slot |-> buf_idx]>>
        /\ 1 \in DOMAIN pipe["current_slot"]
    BY <2>1 DEF pipe, Single
  <2> QED BY <1>1, <1>2, <2>2
<1>4. ASSUME client_queue # <<>> PROVE Head(client_queue).slot # buf_idx
  <2>1. 1 \in DOMAIN client_queue /\ Head(client_queue) = client_queue[1]
    BY <1>4 DEF TypeOK
  <2>2. pipe["client_queue"] = client_queue
    BY DEF pipe
  <2> QED BY <1>1, <1>2, <2>1, <2>2
<1> QED BY <1>3, <1>4

(* A draw that copies copies a slot it took from the front or held before, *)
(* and in both cases the server's rendering of it has finished.            *)
LEMMA DrawnSlot ==
    ASSUME TypeOK, SlotInv, AccessInv, NextFrame, Drawing, RefreshCache
    PROVE  Drawn \in Slot /\ Drawn \notin writing /\ Drawn # buf_idx
<1>1. Drawn = Held /\ Held # NoSlot
  BY DEF Drawn, RefreshCache, Drawing, SlotInv, ShownIsCached
<1>2. Drawn \in Slot /\ Drawn \notin writing
  BY <1>1, HeldSlot DEF CanTake, Held, AccessInv, HeldIsRendered, TypeOK
<1>3. Drawn # buf_idx
  BY <1>1, HeldApart DEF Held, CanTake, SlotInv, TypeOK
<1> QED BY <1>2, <1>3

LEMMA AccessInvariant == Spec => []AccessInv
<1> USE DEF AccessInv, ExclusiveAccess, HeldIsRendered, AcquiredIsCopied
<1>1. Init => AccessInv
  BY DEF Init
<1>2. TypeOK /\ SlotInv /\ AccessInv /\ [Next]_vars => AccessInv'
  <2> SUFFICES ASSUME TypeOK, SlotInv, AccessInv, [Next]_vars
               PROVE  AccessInv'
    OBVIOUS
  <2>1. CASE DrawCopy
    <3>1. /\ current_slot' = NoSlot /\ buf_idx' = buf_idx
          /\ reading' = reading \union {Drawn} /\ writing' = writing
          /\ unfenced' = unfenced \ {Drawn}
      BY <2>1 DEF DrawCopy, run
    <3>2. Drawn \notin writing /\ Drawn # buf_idx
      BY <2>1, DrawnSlot DEF DrawCopy
    <3>3. NoSlot \notin writing
      BY DEF TypeOK, Slot, NoSlot
    <3>4. reading' \ unfenced' \subseteq (reading \ unfenced) \union {Drawn}
      BY <3>1, <3>2
    <3> QED BY <3>1, <3>2, <3>3, <3>4
  <2>2. CASE DrawCached
    BY <2>2 DEF DrawCached, TypeOK, Slot, NoSlot, run, gpu
  <2>3. CASE DrawAborts \/ EndCommandBufferFails
    <3>1. Held \notin writing
      BY DEF Held, CanTake
    <3> QED BY <2>3, <3>1 DEF DrawAborts, EndCommandBufferFails, run, gpu
  <2>4. CASE ExportFails
    <3>1. /\ current_slot' = NoSlot /\ buf_idx' = buf_idx /\ writing' = writing
          /\ reading' \ unfenced' \subseteq (reading \ unfenced) \union {Drawn}
      BY <2>4 DEF ExportFails, run
    <3>2. Drawn \notin writing /\ Drawn # buf_idx
      BY <2>4, DrawnSlot DEF ExportFails
    <3>3. NoSlot \notin writing
      BY DEF TypeOK, Slot, NoSlot
    <3> QED BY <3>1, <3>2, <3>3
  <2>5. CASE RunAcquires \/ RunGivesUpWait
    BY <2>5 DEF RunAcquires, RunGivesUpWait, overlay, gpu
  <2>6. CASE RunRenders \/ RunExportFails
    <3>1. buf_idx # current_slot
      BY <2>6, HeldApart DEF RunRenders, RunExportFails, AboutToRender, SlotInv
    <3>2. /\ current_slot' = current_slot /\ buf_idx' \in {buf_idx, NoSlot}
          /\ reading' = reading /\ writing' = writing \union {buf_idx}
          /\ unfenced' = unfenced
      BY <2>6 DEF RunRenders, RunExportFails, overlay
    <3> QED BY <3>1, <3>2 DEF TypeOK, Slot, NoSlot
  <2>7. CASE ClientImports
    BY <2>7 DEF ClientImports, run
  <2>8. CASE RunResizes
    BY <2>8 DEF RunResizes, overlay
  <2>9. CASE \E s \in Slot : CopyDone(s) \/ RenderingDone(s)
    BY <2>9 DEF CopyDone, RenderingDone, overlay, run
  <2>10. CASE \/ ClientSendsHandshake \/ ClientSendsFrame \/ ClientSendFails
              \/ ClientReceivesFrame \/ ServerBus \/ ServerSendFails
              \/ RunStarts \/ RunSendsDmabuf \/ RunWaits \/ WaitTimesOut
              \/ RunFindsNothing \/ UNCHANGED vars
    BY <2>10
    DEF ClientSendsHandshake, ClientSendsFrame, ClientSendFails,
        ClientReceivesFrame, ServerBus, ServerConnects, ServerReceivesFrame,
        ServerSends, ServerSendFails, RunStarts, RunSendsDmabuf, RunWaits,
        WaitTimesOut, RunFindsNothing, vars, overlay, run, gpu
  <2> QED
    BY <2>1, <2>2, <2>3, <2>4, <2>5, <2>6, <2>7, <2>8, <2>9, <2>10
    DEF Next, Draw, DrawFails, ClientBus, Run
<1> QED BY TypeCorrect, SlotInvariant, <1>1, <1>2, PTL DEF Spec

(* The two GPUs never access a slot at the same time, except where the     *)
(* server gave up the wait for the fence of the copy.                      *)
THEOREM ExclusiveAccessCorrect == Spec => []ExclusiveAccess
<1>1. AccessInv => ExclusiveAccess
  BY DEF AccessInv
<1> QED BY AccessInvariant, <1>1, PTL
-----------------------------------------------------------------------------
(* The order of buffers and frames: an invariant about the messages on     *)
(* their way to the client.                                                *)

(* What the client has yet to receive, in the order it receives it.        *)
stream == to_client \o server_work

(* The messages q are in the order in which their buffers were made, none  *)
(* is older than the buffers the client has, and a frame that needs newer  *)
(* ones follows the message with them.                                     *)
Ordered(q, imp) ==
    /\ \A i, j \in DOMAIN q : i < j => q[i].gen <= q[j].gen
    /\ \A i \in DOMAIN q : imp <= q[i].gen
    /\ \A i \in DOMAIN q : q[i].kind = "frame_ready" =>
           \/ q[i].gen <= imp
           \/ \E j \in DOMAIN q : j < i /\ q[j].kind = "dmabuf" /\ q[j].gen = q[i].gen

Latest(q, imp) ==
    generation <= imp \/ send_dmabuf
    \/ \E j \in DOMAIN q : q[j].kind = "dmabuf" /\ q[j].gen = generation

OrderInv ==
    /\ Ordered(stream, imported)
    /\ imported <= generation
    /\ \A i \in DOMAIN stream : stream[i].gen <= generation
    /\ Latest(stream, imported)
    /\ run_pc = "boot" => generation = 0
    /\ BuffersBeforeFrames

LEMMA MsgType ==
    \A m \in ServerMsg : m.gen \in Nat /\ (m.kind = "dmabuf" \/ m.kind = "frame_ready")
BY DEF ServerMsg, Gen

(* A message of the newest buffers goes to the end.                        *)
LEMMA OrderedAppend ==
    ASSUME NEW q \in Seq(ServerMsg), NEW imp \in Nat, NEW x \in ServerMsg,
           Ordered(q, imp), imp <= x.gen,
           \A i \in DOMAIN q : q[i].gen <= x.gen,
           x.kind = "frame_ready" =>
               \/ x.gen <= imp
               \/ \E j \in DOMAIN q : q[j].kind = "dmabuf" /\ q[j].gen = x.gen
    PROVE  Ordered(Append(q, x), imp)
<1> DEFINE r == Append(q, x)
<1>1. /\ DOMAIN r = 1 .. Len(q) + 1 /\ DOMAIN q = 1 .. Len(q) /\ Len(q) \in Nat
      /\ \A i \in DOMAIN q : r[i] = q[i]
      /\ r[Len(q) + 1] = x
  BY AppendProperties
<1> HIDE DEF r
<1>2. \A i, j \in DOMAIN r : i < j => r[i].gen <= r[j].gen
  BY <1>1 DEF Ordered
<1>3. \A i \in DOMAIN r : imp <= r[i].gen
  BY <1>1 DEF Ordered
<1>4. ASSUME NEW i \in DOMAIN r, r[i].kind = "frame_ready"
      PROVE  \/ r[i].gen <= imp
             \/ \E j \in DOMAIN r : j < i /\ r[j].kind = "dmabuf" /\ r[j].gen = r[i].gen
  <2>1. CASE i = Len(q) + 1
    BY <1>1, <1>4, <2>1
  <2>2. CASE i \in DOMAIN q
    <3>1. \/ q[i].gen <= imp
          \/ \E j \in DOMAIN q : j < i /\ q[j].kind = "dmabuf" /\ q[j].gen = q[i].gen
      BY <1>1, <1>4, <2>2 DEF Ordered
    <3> QED BY <1>1, <2>2, <3>1
  <2> QED BY <1>1, <2>1, <2>2
<1> QED BY <1>2, <1>3, <1>4 DEF Ordered, r

(* r is q without its message k.                                           *)
Without(q, r, k) ==
    /\ DOMAIN r = 1 .. Len(q) - 1
    /\ \A i \in DOMAIN r : r[i] = IF i < k THEN q[i] ELSE q[i + 1]

(* A frame is received or lost.                                            *)
LEMMA OrderedWithout ==
    ASSUME NEW q \in Seq(ServerMsg), NEW imp \in Nat, Ordered(q, imp),
           NEW k \in DOMAIN q, q[k].kind = "frame_ready",
           NEW r, Without(q, r, k)
    PROVE  /\ Ordered(r, imp)
           /\ Latest(q, imp) => Latest(r, imp)
           /\ \A i \in DOMAIN r : \E j \in DOMAIN q : r[i] = q[j]
<1> DEFINE at(i) == IF i < k THEN i ELSE i + 1
           back(j) == IF j < k THEN j ELSE j - 1
<1>1. DOMAIN q = 1 .. Len(q) /\ Len(q) \in Nat /\ k \in Nat
  OBVIOUS
<1>2. \A i \in DOMAIN r : i \in Nat /\ at(i) \in DOMAIN q /\ r[i] = q[at(i)]
  BY <1>1 DEF Without
<1>3. \A i, j \in DOMAIN r : i < j => at(i) < at(j)
  BY <1>1, <1>2
<1>4. \A j \in DOMAIN q : j # k => back(j) \in DOMAIN r /\ at(back(j)) = j
  BY <1>1 DEF Without
<1>5. \A j \in DOMAIN q, i \in DOMAIN r : j # k /\ j < at(i) => back(j) < i
  BY <1>1, <1>2
<1> HIDE DEF at, back
<1>6. \A i, j \in DOMAIN r : i < j => r[i].gen <= r[j].gen
  BY <1>2, <1>3 DEF Ordered
<1>7. \A i \in DOMAIN r : imp <= r[i].gen
  BY <1>2 DEF Ordered
<1>8. \A j \in DOMAIN q : q[j].kind = "dmabuf" => back(j) \in DOMAIN r /\ r[back(j)] = q[j]
  BY <1>2, <1>4
<1>9. ASSUME NEW i \in DOMAIN r, r[i].kind = "frame_ready"
      PROVE  \/ r[i].gen <= imp
             \/ \E j \in DOMAIN r : j < i /\ r[j].kind = "dmabuf" /\ r[j].gen = r[i].gen
  <2>1. \/ q[at(i)].gen <= imp
        \/ \E j \in DOMAIN q : j < at(i) /\ q[j].kind = "dmabuf" /\ q[j].gen = q[at(i)].gen
    BY <1>2, <1>9 DEF Ordered
  <2>2. ASSUME NEW j \in DOMAIN q, j < at(i), q[j].kind = "dmabuf",
               q[j].gen = q[at(i)].gen
        PROVE  back(j) \in DOMAIN r /\ back(j) < i /\ r[back(j)] = q[j]
    <3>1. j # k
      BY <2>2
    <3> QED BY <1>5, <1>8, <2>2, <3>1
  <2> QED BY <1>2, <2>1, <2>2
<1>10. Latest(q, imp) => Latest(r, imp)
  BY <1>8 DEF Latest
<1> QED BY <1>2, <1>6, <1>7, <1>9, <1>10 DEF Ordered

(* The front message brings buffers that are imported.                     *)
LEMMA OrderedImport ==
    ASSUME NEW q \in Seq(ServerMsg), NEW imp \in Nat, Ordered(q, imp),
           q # <<>>, q[1].kind = "dmabuf", NEW r, Without(q, r, 1),
           generation \in Nat
    PROVE  /\ imp <= q[1].gen
           /\ Ordered(r, q[1].gen)
           /\ (Latest(q, imp) => Latest(r, q[1].gen))
           /\ \A i \in DOMAIN r : \E j \in DOMAIN q : r[i] = q[j]
<1>1. DOMAIN q = 1 .. Len(q) /\ Len(q) \in Nat /\ 1 \in DOMAIN q
  OBVIOUS
<1>2. \A i \in DOMAIN r : i \in Nat \ {0} /\ i + 1 \in DOMAIN q /\ r[i] = q[i + 1]
  BY <1>1 DEF Without
<1>3. \A j \in DOMAIN q : q[j].gen \in Nat
  BY MsgType
<1>4. imp <= q[1].gen
  BY <1>1 DEF Ordered
<1>5. \A i, j \in DOMAIN r : i < j => r[i].gen <= r[j].gen
  BY <1>2 DEF Ordered
<1>6. \A i \in DOMAIN r : q[1].gen <= r[i].gen
  BY <1>1, <1>2 DEF Ordered
<1>7. ASSUME NEW i \in DOMAIN r, r[i].kind = "frame_ready"
      PROVE  \/ r[i].gen <= q[1].gen
             \/ \E j \in DOMAIN r : j < i /\ r[j].kind = "dmabuf" /\ r[j].gen = r[i].gen
  <2>1. \/ q[i + 1].gen <= imp
        \/ \E j \in DOMAIN q : j < i + 1 /\ q[j].kind = "dmabuf" /\ q[j].gen = q[i + 1].gen
    BY <1>2, <1>7 DEF Ordered
  <2>2. CASE q[i + 1].gen <= imp
    BY <1>1, <1>2, <1>3, <1>4, <2>2
  <2>3. ASSUME NEW j \in DOMAIN q, j < i + 1, q[j].kind = "dmabuf",
               q[j].gen = q[i + 1].gen, j # 1
        PROVE  j - 1 \in DOMAIN r /\ j - 1 < i /\ r[j - 1] = q[j]
    BY <1>1, <1>2, <2>3 DEF Without
  <2> QED BY <1>1, <1>2, <1>3, <2>1, <2>2, <2>3
<1>8. ASSUME Latest(q, imp), ~ generation <= q[1].gen, ~send_dmabuf
      PROVE  Latest(r, q[1].gen)
  <2>1. PICK j \in DOMAIN q : q[j].kind = "dmabuf" /\ q[j].gen = generation
    BY <1>1, <1>3, <1>4, <1>8 DEF Latest
  <2>2. j - 1 \in DOMAIN r /\ r[j - 1] = q[j]
    BY <1>1, <1>3, <1>8, <2>1 DEF Without
  <2> QED BY <2>1, <2>2 DEF Latest
<1>9. Ordered(r, q[1].gen)
  BY <1>5, <1>6, <1>7 DEF Ordered
<1>10. Latest(q, imp) => Latest(r, q[1].gen)
  BY <1>8 DEF Latest
<1> QED BY <1>2, <1>4, <1>9, <1>10
-----------------------------------------------------------------------------
(* The four ways in which a step changes the stream a \o b.                *)

(* The front of the first part is received.                                *)
LEMMA FrontTaken ==
    ASSUME NEW a \in Seq(ServerMsg), NEW b \in Seq(ServerMsg), a # <<>>
    PROVE  /\ Without(a \o b, Tail(a) \o b, 1)
           /\ a \o b # <<>> /\ (a \o b)[1] = Head(a) /\ 1 \in DOMAIN (a \o b)
<1> DEFINE c == Tail(a)
<1>1. /\ c \in Seq(ServerMsg) /\ Len(c) = Len(a) - 1 /\ Len(a) \in Nat \ {0}
      /\ Len(b) \in Nat /\ Head(a) = a[1]
      /\ \A i \in 1 .. Len(c) : c[i] = a[i + 1]
  BY HeadTailProperties
<1> HIDE DEF c
<1>2. /\ Len(a \o b) = Len(a) + Len(b) /\ a \o b \in Seq(ServerMsg)
      /\ \A i \in 1 .. Len(a) + Len(b) :
            (a \o b)[i] = IF i <= Len(a) THEN a[i] ELSE b[i - Len(a)]
  BY ConcatProperties
<1>3. /\ Len(c \o b) = Len(c) + Len(b) /\ c \o b \in Seq(ServerMsg)
      /\ \A i \in 1 .. Len(c) + Len(b) :
            (c \o b)[i] = IF i <= Len(c) THEN c[i] ELSE b[i - Len(c)]
  BY <1>1, ConcatProperties
<1>4. DOMAIN (c \o b) = 1 .. Len(a \o b) - 1 /\ DOMAIN (a \o b) = 1 .. Len(a \o b)
  BY <1>1, <1>2, <1>3
<1>5. \A i \in DOMAIN (c \o b) : (c \o b)[i] = (a \o b)[i + 1]
  BY <1>1, <1>2, <1>3, <1>4
<1>6. Without(a \o b, c \o b, 1)
  BY <1>1, <1>2, <1>4, <1>5 DEF Without
<1> QED BY <1>1, <1>2, <1>4, <1>6 DEF c

(* The front of the second part is lost.                                   *)
LEMMA MiddleLost ==
    ASSUME NEW a \in Seq(ServerMsg), NEW b \in Seq(ServerMsg), b # <<>>
    PROVE  /\ Without(a \o b, a \o Tail(b), Len(a) + 1)
           /\ (a \o b)[Len(a) + 1] = Head(b) /\ Len(a) + 1 \in DOMAIN (a \o b)
<1> DEFINE c == Tail(b)
<1>1. /\ c \in Seq(ServerMsg) /\ Len(c) = Len(b) - 1 /\ Len(b) \in Nat \ {0}
      /\ Len(a) \in Nat /\ Head(b) = b[1]
      /\ \A i \in 1 .. Len(c) : c[i] = b[i + 1]
  BY HeadTailProperties
<1> HIDE DEF c
<1>2. /\ Len(a \o b) = Len(a) + Len(b) /\ a \o b \in Seq(ServerMsg)
      /\ \A i \in 1 .. Len(a) + Len(b) :
            (a \o b)[i] = IF i <= Len(a) THEN a[i] ELSE b[i - Len(a)]
  BY ConcatProperties
<1>3. /\ Len(a \o c) = Len(a) + Len(c) /\ a \o c \in Seq(ServerMsg)
      /\ \A i \in 1 .. Len(a) + Len(c) :
            (a \o c)[i] = IF i <= Len(a) THEN a[i] ELSE c[i - Len(a)]
  BY <1>1, ConcatProperties
<1>4. DOMAIN (a \o c) = 1 .. Len(a \o b) - 1 /\ DOMAIN (a \o b) = 1 .. Len(a \o b)
  BY <1>1, <1>2, <1>3
<1>5. ASSUME NEW i \in DOMAIN (a \o c)
      PROVE  (a \o c)[i] = IF i < Len(a) + 1 THEN (a \o b)[i] ELSE (a \o b)[i + 1]
  <2>1. CASE i <= Len(a)
    BY <1>1, <1>2, <1>3, <1>4, <2>1
  <2>2. CASE i > Len(a)
    <3>1. (a \o c)[i] = c[i - Len(a)] /\ i - Len(a) \in 1 .. Len(c)
      BY <1>1, <1>2, <1>3, <1>4, <2>2
    <3>2. (a \o b)[i + 1] = b[i + 1 - Len(a)]
      BY <1>1, <1>2, <1>4, <2>2
    <3>3. i + 1 - Len(a) = i - Len(a) + 1
      BY <1>1, <1>2, <1>4
    <3>4. c[i - Len(a)] = b[i - Len(a) + 1]
      BY <1>1, <3>1
    <3>5. ~(i < Len(a) + 1)
      BY <1>1, <1>3, <1>4, <2>2
    <3> QED BY <3>1, <3>2, <3>3, <3>4, <3>5
  <2> QED BY <1>1, <1>2, <1>4, <2>1, <2>2
<1>6. Without(a \o b, a \o c, Len(a) + 1)
  BY <1>4, <1>5 DEF Without
<1> QED BY <1>1, <1>2, <1>4, <1>6 DEF c

(* A message goes from the second part to the first, or to the end.        *)
LEMMA PassedOn ==
    ASSUME NEW a \in Seq(ServerMsg), NEW b \in Seq(ServerMsg), b # <<>>
    PROVE  Append(a, Head(b)) \o Tail(b) = a \o b
<1>1. Head(b) \in ServerMsg /\ Tail(b) \in Seq(ServerMsg) /\ b = <<Head(b)>> \o Tail(b)
  BY HeadTailProperties, ConcatProperties
<1>2. Append(a, Head(b)) = a \o <<Head(b)>>
  BY <1>1, AppendIsConcat
<1>3. <<Head(b)>> \in Seq(ServerMsg)
  BY <1>1
<1> QED BY <1>1, <1>2, <1>3, ConcatAssociative

LEMMA PutLast ==
    ASSUME NEW a \in Seq(ServerMsg), NEW b \in Seq(ServerMsg), NEW x \in ServerMsg
    PROVE  a \o Append(b, x) = Append(a \o b, x)
<1>1. Append(b, x) = b \o <<x>> /\ Append(a \o b, x) = (a \o b) \o <<x>>
  BY AppendIsConcat, ConcatProperties
<1>2. <<x>> \in Seq(ServerMsg)
  OBVIOUS
<1> QED BY <1>1, <1>2, ConcatAssociative
-----------------------------------------------------------------------------
(* The application's draw only takes frames out of its queue.              *)
LEMMA DrawTakes ==
    ASSUME TypeOK, BuffersBeforeFrames, NextFrame, imported' = imported
    PROVE  BuffersBeforeFrames'
<1>1. CASE ~CanTake
  BY <1>1 DEF NextFrame, BuffersBeforeFrames
<1>2. CASE CanTake
  <2>1. client_queue \in Seq(Frame) /\ client_queue # <<>> /\ client_queue' = Tail(client_queue)
    BY <1>2 DEF TypeOK, NextFrame, CanTake
  <2>2. /\ \A i \in DOMAIN client_queue' :
              i + 1 \in DOMAIN client_queue /\ client_queue'[i] = client_queue[i + 1]
    BY <2>1, HeadTailProperties
  <2> QED BY <2>2 DEF BuffersBeforeFrames
<1> QED BY <1>1, <1>2

(* Any other client step that leaves the stream alone.                     *)
LEMMA StreamUntouched ==
    ASSUME OrderInv, BuffersBeforeFrames',
           stream' = stream, imported' = imported, generation' = generation,
           send_dmabuf' = send_dmabuf, run_pc' = "boot" => run_pc = "boot"
    PROVE  OrderInv'
BY DEF OrderInv, Ordered, Latest

(* The run thread puts a message of the newest buffers at the end.         *)
LEMMA StreamGrows ==
    ASSUME TypeOK, OrderInv, NEW x \in ServerMsg, x.gen = generation,
           stream' = Append(stream, x), imported' = imported,
           generation' = generation, client_queue' = client_queue,
           run_pc' = run_pc,
           x.kind = "dmabuf" \/ (~send_dmabuf /\ send_dmabuf' = send_dmabuf)
    PROVE  OrderInv'
<1>1. /\ stream \in Seq(ServerMsg) /\ generation \in Nat /\ imported \in Nat
      /\ \A i \in DOMAIN stream : stream[i].gen <= generation
  BY ConcatProperties DEF TypeOK, stream, Gen, OrderInv
<1>2. /\ DOMAIN stream' = 1 .. Len(stream) + 1 /\ DOMAIN stream = 1 .. Len(stream)
      /\ Len(stream) \in Nat
      /\ \A i \in DOMAIN stream : stream'[i] = stream[i]
      /\ stream'[Len(stream) + 1] = x
  BY <1>1, AppendProperties
<1>3. x.kind = "frame_ready" =>
        \/ x.gen <= imported
        \/ \E j \in DOMAIN stream : stream[j].kind = "dmabuf" /\ stream[j].gen = x.gen
  BY DEF OrderInv, Latest
<1>4. Ordered(stream', imported)
  BY <1>1, <1>3, OrderedAppend DEF OrderInv
<1>5. Ordered(stream', imported')
  BY <1>4
<1>6. \A i \in DOMAIN stream' : stream'[i].gen <= generation
  BY <1>1, <1>2
<1>7. Latest(stream, imported)'
  <2>1. CASE x.kind = "dmabuf"
    BY <1>2, <2>1 DEF Latest
  <2>2. CASE ~send_dmabuf /\ send_dmabuf' = send_dmabuf
    BY <1>2, <2>2 DEF Latest, OrderInv
  <2> QED BY <2>1, <2>2
<1> QED BY <1>5, <1>6, <1>7 DEF OrderInv, BuffersBeforeFrames, Latest, Ordered

(* Every step keeps the order.                                             *)
LEMMA OrderStep == TypeOK /\ TypeOK' /\ OrderInv /\ [Next]_vars => OrderInv'
<1> SUFFICES ASSUME TypeOK, TypeOK', OrderInv, [Next]_vars PROVE OrderInv'
  OBVIOUS
<1>1. /\ to_client \in Seq(ServerMsg) /\ server_work \in Seq(ServerMsg)
      /\ stream \in Seq(ServerMsg) /\ client_queue \in Seq(Frame)
      /\ imported \in Nat /\ generation \in Nat /\ BuffersBeforeFrames
  BY ConcatProperties DEF TypeOK, stream, Gen, OrderInv
<1>2. CASE Draw \/ DrawFails
  <2>1. /\ NextFrame /\ imported' = imported
        /\ UNCHANGED <<to_client, server_work, run>>
    BY <1>2 DEF Draw, DrawFails, DrawCopy, DrawCached, DrawAborts,
                EndCommandBufferFails, ExportFails
  <2>2. BuffersBeforeFrames'
    BY <1>1, <2>1, DrawTakes
  <2> QED BY <2>1, <2>2, StreamUntouched DEF stream, run
<1>3. CASE ClientSendsHandshake
  <2>1. client_queue' = client_queue \o [i \in 1 .. N |-> [slot |-> i - 1, gen |-> 0]]
    BY <1>3 DEF ClientSendsHandshake
  <2>2. ASSUME NEW i \in DOMAIN client_queue'
        PROVE  client_queue'[i].gen <= imported
    <3> DEFINE fresh == [j \in 1 .. N |-> [slot |-> j - 1, gen |-> 0]]
    <3>1. fresh \in Seq(Frame)
      BY DEF Frame, Slot, Gen
    <3>2. Len(fresh) = N /\ \A j \in 1 .. N : fresh[j].gen = 0
      OBVIOUS
    <3> HIDE DEF fresh
    <3>3. /\ client_queue' = client_queue \o fresh
          /\ Len(client_queue') = Len(client_queue) + N /\ Len(client_queue) \in Nat
          /\ \A j \in 1 .. Len(client_queue) + N : client_queue'[j] =
                IF j <= Len(client_queue) THEN client_queue[j]
                ELSE fresh[j - Len(client_queue)]
      BY <1>1, <2>1, <3>1, <3>2, ConcatProperties DEF fresh
    <3>4. i \in 1 .. Len(client_queue) + N
      BY <2>2, <3>3 DEF TypeOK
    <3>5. CASE i <= Len(client_queue)
      BY <1>1, <3>3, <3>4, <3>5 DEF BuffersBeforeFrames
    <3>6. CASE i > Len(client_queue)
      BY <1>1, <3>2, <3>3, <3>4, <3>6
    <3> QED BY <3>3, <3>4, <3>5, <3>6
  <2>3. BuffersBeforeFrames'
    BY <1>3, <2>2 DEF BuffersBeforeFrames, ClientSendsHandshake, overlay
  <2> QED BY <1>3, <2>3, StreamUntouched
      DEF ClientSendsHandshake, stream, overlay, run
<1>4. CASE ClientImports
  <2>1. Without(stream, stream', 1) /\ stream # <<>> /\ stream[1] = Head(to_client)
    BY <1>1, <1>4, FrontTaken DEF ClientImports, stream
  <2>2. /\ stream[1].kind = "dmabuf" /\ imported' = stream[1].gen
        /\ UNCHANGED <<generation, send_dmabuf, run_pc, client_queue>>
    BY <1>4, <2>1 DEF ClientImports, run
  <2>3. /\ imported <= imported' /\ Ordered(stream', imported')
        /\ Latest(stream, imported) => Latest(stream', imported')
        /\ \A i \in DOMAIN stream' : \E j \in DOMAIN stream : stream'[i] = stream[j]
    BY <1>1, <2>1, <2>2, OrderedImport DEF OrderInv
  <2>4. Latest(stream, imported)'
    BY <2>2, <2>3 DEF OrderInv, Latest
  <2>5. imported' <= generation' /\ \A i \in DOMAIN stream' : stream'[i].gen <= generation'
    <3>1. 1 \in DOMAIN stream
      BY <1>1, <2>1
    <3> QED BY <2>2, <2>3, <3>1 DEF OrderInv
  <2>6. BuffersBeforeFrames'
    <3>1. imported' \in Nat
      BY DEF TypeOK, Gen
    <3>2. \A i \in DOMAIN client_queue : client_queue[i].gen \in Nat
      <4>1. \A i \in DOMAIN client_queue : client_queue[i] \in Frame
        BY <1>1
      <4>2. \A f \in Frame : f.gen \in Nat
        BY DEF Frame, Gen
      <4> QED BY <4>1, <4>2
    <3> QED BY <1>1, <2>2, <2>3, <3>1, <3>2 DEF BuffersBeforeFrames
  <2> QED BY <2>2, <2>3, <2>4, <2>5, <2>6 DEF OrderInv, Ordered
<1>5. CASE ClientReceivesFrame
  <2>1. /\ Without(stream, stream', 1) /\ stream # <<>> /\ stream[1] = Head(to_client)
        /\ 1 \in DOMAIN stream
    BY <1>1, <1>5, FrontTaken DEF ClientReceivesFrame, stream
  <2>2. /\ stream[1].kind = "frame_ready"
        /\ UNCHANGED <<generation, send_dmabuf, run_pc, imported>>
    BY <1>5, <2>1 DEF ClientReceivesFrame, run, overlay
  <2>3. /\ Ordered(stream', imported) /\ Latest(stream', imported)
        /\ \A i \in DOMAIN stream' : \E j \in DOMAIN stream : stream'[i] = stream[j]
    BY <1>1, <2>1, <2>2, OrderedWithout DEF OrderInv
  <2>4. stream[1].gen <= imported
    <3>1. DOMAIN stream = 1 .. Len(stream) /\ Len(stream) \in Nat
      BY <1>1
    <3> QED BY <2>1, <2>2, <3>1 DEF OrderInv, Ordered
  <2>5. BuffersBeforeFrames'
    <3> DEFINE x == [slot |-> Head(to_client).slot, gen |-> Head(to_client).gen]
    <3>1. client_queue' = Append(client_queue, x)
      BY <1>5 DEF ClientReceivesFrame
    <3>2. x.gen <= imported
      BY <2>1, <2>4
    <3> HIDE DEF x
    <3>3. /\ DOMAIN client_queue' = 1 .. Len(client_queue) + 1
          /\ DOMAIN client_queue = 1 .. Len(client_queue) /\ Len(client_queue) \in Nat
          /\ \A i \in DOMAIN client_queue : client_queue'[i] = client_queue[i]
          /\ client_queue'[Len(client_queue) + 1] = x
      BY <1>1, <3>1, AppendProperties
    <3> QED BY <1>1, <2>2, <3>2, <3>3 DEF BuffersBeforeFrames
  <2> QED BY <2>2, <2>3, <2>5 DEF OrderInv, Ordered, Latest
<1>6. CASE ServerSends
  <2>1. stream' = stream
    BY <1>1, <1>6, PassedOn DEF ServerSends, stream
  <2> QED BY <1>1, <1>6, <2>1, StreamUntouched
      DEF ServerSends, BuffersBeforeFrames, overlay, run
<1>7. CASE ServerSendFails
  <2>1. /\ Without(stream, stream', Len(to_client) + 1)
        /\ stream[Len(to_client) + 1] = Head(server_work)
        /\ Len(to_client) + 1 \in DOMAIN stream
    BY <1>1, <1>7, MiddleLost DEF ServerSendFails, stream
  <2>2. /\ stream[Len(to_client) + 1].kind = "frame_ready"
        /\ UNCHANGED <<generation, send_dmabuf, run_pc, imported, client_queue>>
    BY <1>7, <2>1 DEF ServerSendFails, run, overlay
  <2>3. /\ Ordered(stream', imported) /\ Latest(stream', imported)
        /\ \A i \in DOMAIN stream' : \E j \in DOMAIN stream : stream'[i] = stream[j]
    BY <1>1, <2>1, <2>2, OrderedWithout DEF OrderInv
  <2> QED BY <2>2, <2>3 DEF OrderInv, Ordered, Latest, BuffersBeforeFrames
<1>8. CASE RunStarts
  <2>1. generation = 0 /\ generation' = 1 /\ send_dmabuf' /\ run_pc' # "boot"
    BY <1>8 DEF RunStarts, OrderInv
  <2>2. stream' = stream /\ UNCHANGED <<imported, client_queue>>
    BY <1>8 DEF RunStarts, stream, overlay
  <2>3. \A i \in DOMAIN stream : stream[i].gen \in Nat
    BY <1>1, MsgType
  <2> QED BY <1>1, <2>1, <2>2, <2>3 DEF OrderInv, Ordered, Latest, BuffersBeforeFrames
<1>9. CASE RunSendsDmabuf
  <2> DEFINE x == [kind |-> "dmabuf", slot |-> NoSlot, gen |-> generation]
  <2>1. x \in ServerMsg /\ x.gen = generation /\ x.kind = "dmabuf"
    BY DEF ServerMsg, TypeOK
  <2>2. /\ server_work' = Append(server_work, x)
        /\ UNCHANGED <<to_client, client_queue, imported, generation, run_pc>>
    BY <1>9 DEF RunSendsDmabuf, overlay
  <2> HIDE DEF x
  <2>3. stream' = Append(stream, x)
    BY <1>1, <2>1, <2>2, PutLast DEF stream
  <2> QED BY <2>1, <2>2, <2>3, StreamGrows
<1>10. CASE RunRenders
  <2> DEFINE x == [kind |-> "frame_ready", slot |-> buf_idx, gen |-> generation]
  <2>1. x \in ServerMsg /\ x.gen = generation
    BY <1>10 DEF ServerMsg, TypeOK, RunRenders, AboutToRender
  <2>2. /\ server_work' = Append(server_work, x) /\ ~send_dmabuf
        /\ UNCHANGED <<to_client, client_queue, imported, generation, run_pc, send_dmabuf>>
    BY <1>10 DEF RunRenders, AboutToRender, overlay
  <2> HIDE DEF x
  <2>3. stream' = Append(stream, x)
    BY <1>1, <2>1, <2>2, PutLast DEF stream
  <2> QED BY <2>1, <2>2, <2>3, StreamGrows
<1>11. CASE RunResizes
  <2>1. /\ generation' = generation + 1 /\ send_dmabuf' /\ stream' = stream
        /\ UNCHANGED <<imported, client_queue, run_pc>> /\ run_pc # "boot"
    BY <1>11 DEF RunResizes, AboutToRender, stream, overlay
  <2>2. \A i \in DOMAIN stream : stream[i].gen \in Nat
    BY <1>1, MsgType
  <2> QED BY <1>1, <2>1, <2>2 DEF OrderInv, Ordered, Latest, BuffersBeforeFrames
<1>12. ASSUME UNCHANGED <<to_client, server_work, imported, generation,
                         send_dmabuf, client_queue>>,
              run_pc' = "boot" => run_pc = "boot"
       PROVE  OrderInv'
  BY <1>1, <1>12, StreamUntouched DEF stream, BuffersBeforeFrames
<1>13. CASE ClientSendsFrame \/ ClientSendFails \/ ServerConnects \/ ServerReceivesFrame
  BY <1>12, <1>13 DEF ClientSendsFrame, ClientSendFails, ServerConnects,
     ServerReceivesFrame, overlay, run
<1>14. CASE \/ RunWaits \/ WaitTimesOut \/ RunFindsNothing \/ RunAcquires
           \/ RunGivesUpWait \/ RunExportFails
  BY <1>12, <1>14 DEF RunWaits, WaitTimesOut, RunFindsNothing, RunAcquires,
     RunGivesUpWait, RunExportFails, overlay
<1>15. CASE \E s \in Slot : CopyDone(s) \/ RenderingDone(s)
  BY <1>12, <1>15 DEF CopyDone, RenderingDone, overlay, run
<1>16. CASE UNCHANGED vars
  BY <1>12, <1>16 DEF vars, overlay, run
<1> QED BY <1>2, <1>3, <1>4, <1>5, <1>6, <1>7, <1>8, <1>9, <1>10, <1>11, <1>13,
           <1>14, <1>15, <1>16
    DEF Next, ClientBus, ServerBus, Run

(* No frame reaches the application before the buffers it was rendered     *)
(* into, however often the HUD is resized and whichever frames are lost.   *)
THEOREM BuffersBeforeFramesCorrect == Spec => []BuffersBeforeFrames
<1>1. Init => OrderInv
  BY DEF Init, OrderInv, Ordered, Latest, stream, BuffersBeforeFrames
<1>2. OrderInv => BuffersBeforeFrames
  BY DEF OrderInv
<1>3. TypeOK /\ TypeOK' /\ OrderInv /\ [Next]_vars => OrderInv'
  BY OrderStep
<1> QED BY TypeCorrect, <1>1, <1>2, <1>3, PTL DEF Spec
-----------------------------------------------------------------------------
(* The exchange of slots.                                                  *)


(* The sides of the pipe, as ClientSlots and ServerSlots name them.        *)
ClientStage == {"server_work", "to_client", "client_queue", "current_slot"}
ServerStage == {"client_work", "to_server", "server_queue", "buf_idx"}
SideOf(c) == IF c \in ClientStage THEN "client" ELSE "server"

Owner(p) ==
    [s \in Slot |-> IF \E c \in ClientStage : s \in SlotsIn(p[c]) THEN "client"
                    ELSE IF \E c \in ServerStage : s \in SlotsIn(p[c]) THEN "server"
                    ELSE "none"]

LEMMA SlotsOfSides ==
    \A s \in Slot :
        /\ s \in ClientSlots <=> \E c \in ClientStage : s \in SlotsIn(pipe[c])
        /\ s \in ServerSlots <=> \E c \in ServerStage : s \in SlotsIn(pipe[c])
<1> TAKE s \in Slot
<1>1. \A t : s \in SlotsIn(Single(t)) <=> s = t
  BY DEF Single, SlotsIn, Slot, NoSlot
<1>2. /\ pipe["server_work"] = server_work /\ pipe["to_client"] = to_client
      /\ pipe["client_queue"] = client_queue /\ pipe["client_work"] = client_work
      /\ pipe["to_server"] = to_server /\ pipe["server_queue"] = server_queue
      /\ pipe["current_slot"] = Single(current_slot)
      /\ pipe["buf_idx"] = Single(buf_idx)
  BY DEF pipe
<1>3. s \in ClientSlots <=> \E c \in ClientStage : s \in SlotsIn(pipe[c])
  BY <1>1, <1>2 DEF ClientSlots, ClientStage
<1>4. s \in ServerSlots <=> \E c \in ServerStage : s \in SlotsIn(pipe[c])
  BY <1>1, <1>2 DEF ServerSlots, ServerStage
<1> QED BY <1>3, <1>4

LEMMA OwnerOfPipe == owner = Owner(pipe)
BY SlotsOfSides DEF owner, Owner

(* A slot that occurs in a stage occurs in no other.                       *)
LEMMA Apart ==
    ASSUME NEW p, Unique(p), NEW s \in Slot, NEW c \in Stage, NEW d \in Stage,
           s \in SlotsIn(p[c]), s \in SlotsIn(p[d])
    PROVE  c = d
BY DEF SlotsIn, Unique

(* Where the slots are after a move and after a loss.                      *)
LEMMA MovedSlots ==
    ASSUME NEW p, NEW q, \A c \in Stage : p[c] \in Seq(Item), Unique(p),
           NEW a \in Stage, NEW b \in Stage, a # b, Moved(p, q, a, b),
           NEW s \in Slot, NEW c \in Stage
    PROVE  s \in SlotsIn(q[c]) <=> IF s = Head(p[a]).slot THEN c = b
                                   ELSE s \in SlotsIn(p[c])
<1> USE DEF Moved
<1> PICK x \in Item : x.slot = Head(p[a]).slot /\ q[b] = Append(p[b], x)
  OBVIOUS
<1>1. /\ DOMAIN q[a] = 1 .. Len(p[a]) - 1
      /\ \A i \in DOMAIN q[a] : q[a][i] = p[a][i + 1]
      /\ 1 \in DOMAIN p[a] /\ DOMAIN p[a] = 1 .. Len(p[a]) /\ Len(p[a]) \in Nat
      /\ Head(p[a]) = p[a][1]
  BY HeadTailProperties
<1>2. /\ DOMAIN q[b] = 1 .. Len(p[b]) + 1 /\ DOMAIN p[b] = 1 .. Len(p[b])
      /\ Len(p[b]) \in Nat
      /\ \A i \in 1 .. Len(p[b]) : q[b][i] = p[b][i]
      /\ q[b][Len(p[b]) + 1] = x
  BY AppendProperties
<1>3. s # NoSlot
  BY DEF Slot, NoSlot
<1>4. s = Head(p[a]).slot => s \in SlotsIn(p[a])
  BY <1>1, <1>3 DEF SlotsIn
<1>5. CASE c = a
  <2>1. ASSUME s \in SlotsIn(q[a])
        PROVE  s \in SlotsIn(p[a]) /\ s # Head(p[a]).slot
    <3>1. PICK i \in DOMAIN q[a] : q[a][i].slot = s
      BY <2>1 DEF SlotsIn
    <3>2. i + 1 \in DOMAIN p[a] /\ p[a][i + 1].slot = s /\ i + 1 # 1
      BY <1>1, <3>1
    <3>3. s \in SlotsIn(p[a])
      BY <3>2, <1>3 DEF SlotsIn
    <3>4. p[a][1].slot # s
      BY <3>2, <1>1, <1>3 DEF Unique
    <3> QED BY <3>3, <3>4, <1>1
  <2>2. ASSUME s \in SlotsIn(p[a]), s # Head(p[a]).slot
        PROVE  s \in SlotsIn(q[a])
    <3>1. PICK i \in DOMAIN p[a] : p[a][i].slot = s
      BY <2>2 DEF SlotsIn
    <3>2. i # 1
      BY <2>2, <3>1, <1>1
    <3>3. i - 1 \in DOMAIN q[a] /\ q[a][i - 1] = p[a][i]
      BY <1>1, <3>1, <3>2
    <3> QED BY <3>1, <3>3, <1>3 DEF SlotsIn
  <2> QED BY <1>5, <2>1, <2>2
<1>6. CASE c = b
  <2>1. s \in SlotsIn(q[b]) <=> s \in SlotsIn(p[b]) \/ s = x.slot
    BY <1>2, <1>3 DEF SlotsIn
  <2> QED BY <1>6, <2>1
<1>7. CASE c # a /\ c # b
  <2>1. q[c] = p[c]
    BY <1>7
  <2>2. s = Head(p[a]).slot => s \notin SlotsIn(p[c])
    BY <1>4, <1>7, Apart
  <2> QED BY <1>7, <2>1, <2>2
<1> QED BY <1>5, <1>6, <1>7

LEMMA DroppedSlots ==
    ASSUME NEW p, NEW q, \A c \in Stage : p[c] \in Seq(Item), Unique(p),
           NEW a \in Stage, Dropped(p, q, a),
           NEW s \in Slot, NEW c \in Stage
    PROVE  s \in SlotsIn(q[c]) <=> s # Head(p[a]).slot /\ s \in SlotsIn(p[c])
<1> USE DEF Dropped
<1>1. /\ DOMAIN q[a] = 1 .. Len(p[a]) - 1
      /\ \A i \in DOMAIN q[a] : q[a][i] = p[a][i + 1]
      /\ 1 \in DOMAIN p[a] /\ DOMAIN p[a] = 1 .. Len(p[a]) /\ Len(p[a]) \in Nat
      /\ Head(p[a]) = p[a][1]
  BY HeadTailProperties
<1>2. s # NoSlot
  BY DEF Slot, NoSlot
<1>3. s = Head(p[a]).slot => s \in SlotsIn(p[a])
  BY <1>1, <1>2 DEF SlotsIn
<1>4. CASE c = a
  <2>1. ASSUME s \in SlotsIn(q[a])
        PROVE  s \in SlotsIn(p[a]) /\ s # Head(p[a]).slot
    <3>1. PICK i \in DOMAIN q[a] : q[a][i].slot = s
      BY <2>1 DEF SlotsIn
    <3>2. i + 1 \in DOMAIN p[a] /\ p[a][i + 1].slot = s /\ i + 1 # 1
      BY <1>1, <3>1
    <3>3. s \in SlotsIn(p[a])
      BY <3>2, <1>2 DEF SlotsIn
    <3>4. p[a][1].slot # s
      BY <3>2, <1>1, <1>2 DEF Unique
    <3> QED BY <3>3, <3>4, <1>1
  <2>2. ASSUME s \in SlotsIn(p[a]), s # Head(p[a]).slot
        PROVE  s \in SlotsIn(q[a])
    <3>1. PICK i \in DOMAIN p[a] : p[a][i].slot = s
      BY <2>2 DEF SlotsIn
    <3>2. i # 1
      BY <2>2, <3>1, <1>1
    <3>3. i - 1 \in DOMAIN q[a] /\ q[a][i - 1] = p[a][i]
      BY <1>1, <3>1, <3>2
    <3> QED BY <3>1, <3>3, <1>2 DEF SlotsIn
  <2> QED BY <1>4, <2>1, <2>2
<1>5. CASE c # a
  BY <1>3, <1>5, Apart
<1> QED BY <1>4, <1>5

LEMMA AddedSlots ==
    ASSUME NEW p, NEW q, \A c \in Stage : p[c] \in Seq(Item),
           NEW a \in Stage, Added(p, q, a),
           NEW s \in Slot, NEW c \in Stage
    PROVE  s \in SlotsIn(q[c]) <=> s \in SlotsIn(p[c])
<1> USE DEF Added
<1> PICK x \in Item : x.slot = NoSlot /\ q[a] = Append(p[a], x)
  OBVIOUS
<1>1. /\ DOMAIN q[a] = 1 .. Len(p[a]) + 1 /\ DOMAIN p[a] = 1 .. Len(p[a])
      /\ Len(p[a]) \in Nat
      /\ \A i \in 1 .. Len(p[a]) : q[a][i] = p[a][i]
      /\ q[a][Len(p[a]) + 1] = x
  BY AppendProperties
<1>2. s # NoSlot
  BY DEF Slot, NoSlot
<1>3. CASE c = a
  <2>1. s \in SlotsIn(q[a]) <=> s \in SlotsIn(p[a]) \/ s = x.slot
    BY <1>1, <1>2 DEF SlotsIn
  <2> QED BY <1>2, <1>3, <2>1
<1>4. CASE c # a
  BY <1>4
<1> QED BY <1>3, <1>4

(* What a change of the pipe does to the owner of the slot at the front of *)
(* a; a message that carries no slot changes none.                         *)
LEMMA MovedOwner ==
    ASSUME NEW p, NEW q, \A c \in Stage : p[c] \in Seq(Item), Unique(p),
           NEW a \in Stage, NEW b \in Stage, a # b, Moved(p, q, a, b)
    PROVE  LET s == Head(p[a]).slot
           IN  /\ s \in Slot => /\ Owner(p)[s] = SideOf(a)
                                /\ Owner(q) = [Owner(p) EXCEPT ![s] = SideOf(b)]
               /\ s \notin Slot => Owner(q) = Owner(p)
<1> DEFINE s == Head(p[a]).slot
<1>1. Stage = ClientStage \union ServerStage /\ ClientStage \intersect ServerStage = {}
  BY DEF Stage, ClientStage, ServerStage
<1>2. ASSUME s \in Slot PROVE Owner(p)[s] = SideOf(a)
  <2>1. s \in SlotsIn(p[a])
    <3>1. 1 \in DOMAIN p[a] /\ Head(p[a]) = p[a][1]
      BY HeadTailProperties DEF Moved
    <3>2. s # NoSlot
      BY <1>2 DEF Slot, NoSlot
    <3> QED BY <3>1, <3>2 DEF SlotsIn
  <2>2. \A c \in Stage : s \in SlotsIn(p[c]) => c = a
    BY <1>2, <2>1, Apart
  <2> HIDE DEF s
  <2> QED BY <1>1, <1>2, <2>1, <2>2 DEF Owner, SideOf
<1>3. \A t \in Slot, c \in Stage :
          t \in SlotsIn(q[c]) <=> IF t = s THEN c = b ELSE t \in SlotsIn(p[c])
  BY MovedSlots
<1> HIDE DEF s
<1>4. \A t \in Slot : Owner(q)[t] = IF t = s THEN SideOf(b) ELSE Owner(p)[t]
  BY <1>1, <1>3 DEF Owner, SideOf
<1>5. /\ Owner(p) = [t \in Slot |-> Owner(p)[t]]
      /\ Owner(q) = [t \in Slot |-> Owner(q)[t]]
  BY DEF Owner
<1>6. s \in Slot => Owner(q) = [Owner(p) EXCEPT ![s] = SideOf(b)]
  BY <1>4, <1>5
<1>7. s \notin Slot => Owner(q) = Owner(p)
  BY <1>4, <1>5
<1> QED BY <1>2, <1>6, <1>7 DEF s

(* The same for a slot that is known.                                      *)
LEMMA MovedSlotOwner ==
    ASSUME NEW p, NEW q, \A c \in Stage : p[c] \in Seq(Item), Unique(p),
           NEW a \in Stage, NEW b \in Stage, a # b, Moved(p, q, a, b),
           NEW s \in Slot, Head(p[a]).slot = s
    PROVE  /\ Owner(p)[s] = SideOf(a)
           /\ Owner(q) = [Owner(p) EXCEPT ![s] = SideOf(b)]
<1> DEFINE t == Head(p[a]).slot
<1>1. t \in Slot => /\ Owner(p)[t] = SideOf(a)
                    /\ Owner(q) = [Owner(p) EXCEPT ![t] = SideOf(b)]
  BY MovedOwner
<1> QED BY <1>1

(* And in a step of the pipe.                                              *)
LEMMA StepOwner ==
    ASSUME \A c \in Stage : pipe[c] \in Seq(Item), Unique(pipe),
           NEW a \in Stage, NEW b \in Stage, a # b, Moved(pipe, pipe', a, b),
           NEW s \in Slot, Head(pipe[a]).slot = s
    PROVE  /\ Owner(pipe)[s] = SideOf(a)
           /\ Owner(pipe') = [Owner(pipe) EXCEPT ![s] = SideOf(b)]
BY MovedSlotOwner

(* The owners when a slot drops out.                                       *)
LEMMA DroppedOwner ==
    ASSUME NEW p, NEW q, \A c \in Stage : p[c] \in Seq(Item), Unique(p),
           NEW a \in Stage, Dropped(p, q, a)
    PROVE  LET s == Head(p[a]).slot
           IN  /\ s \in Slot => /\ Owner(p)[s] = SideOf(a)
                                /\ Owner(q) = [Owner(p) EXCEPT ![s] = "none"]
               /\ s \notin Slot => Owner(q) = Owner(p)
<1> DEFINE s == Head(p[a]).slot
<1>1. Stage = ClientStage \union ServerStage /\ ClientStage \intersect ServerStage = {}
  BY DEF Stage, ClientStage, ServerStage
<1>2. ASSUME s \in Slot PROVE Owner(p)[s] = SideOf(a)
  <2>1. s \in SlotsIn(p[a])
    <3>1. 1 \in DOMAIN p[a] /\ Head(p[a]) = p[a][1]
      BY HeadTailProperties DEF Dropped
    <3>2. s # NoSlot
      BY <1>2 DEF Slot, NoSlot
    <3> QED BY <3>1, <3>2 DEF SlotsIn
  <2>2. \A c \in Stage : s \in SlotsIn(p[c]) => c = a
    BY <1>2, <2>1, Apart
  <2> HIDE DEF s
  <2> QED BY <1>1, <1>2, <2>1, <2>2 DEF Owner, SideOf
<1>3. \A t \in Slot, c \in Stage :
          t \in SlotsIn(q[c]) <=> t # s /\ t \in SlotsIn(p[c])
  BY DroppedSlots
<1> HIDE DEF s
<1>4. \A t \in Slot : Owner(q)[t] = IF t = s THEN "none" ELSE Owner(p)[t]
  BY <1>1, <1>3 DEF Owner
<1>5. /\ Owner(p) = [t \in Slot |-> Owner(p)[t]]
      /\ Owner(q) = [t \in Slot |-> Owner(q)[t]]
  BY DEF Owner
<1>6. s \in Slot => Owner(q) = [Owner(p) EXCEPT ![s] = "none"]
  BY <1>4, <1>5
<1>7. s \notin Slot => Owner(q) = Owner(p)
  BY <1>4, <1>5
<1> QED BY <1>2, <1>6, <1>7 DEF s

LEMMA AddedOwner ==
    ASSUME NEW p, NEW q, \A c \in Stage : p[c] \in Seq(Item),
           NEW a \in Stage, Added(p, q, a)
    PROVE  Owner(q) = Owner(p)
<1>1. \A t \in Slot, c \in Stage : t \in SlotsIn(q[c]) <=> t \in SlotsIn(p[c])
  BY AddedSlots
<1>2. ClientStage \subseteq Stage /\ ServerStage \subseteq Stage
  BY DEF Stage, ClientStage, ServerStage
<1>3. \A t \in Slot : Owner(q)[t] = Owner(p)[t]
  BY <1>1, <1>2 DEF Owner
<1> QED BY <1>3 DEF Owner
-----------------------------------------------------------------------------
LEMMA OwnerOfPipePrime == owner' = Owner(pipe')
<1>1. (owner = Owner(pipe))'
  BY OwnerOfPipe, PTL
<1> QED BY <1>1 DEF Owner

(* The abstract initial state: nothing is handed out before the handshake. *)
LEMMA InitRefined == Init => Exchange!Init
<1> SUFFICES ASSUME Init PROVE Exchange!Init
  OBVIOUS
<1>1. /\ client_queue = <<>> /\ server_queue = <<>> /\ to_server = <<>>
      /\ to_client = <<>> /\ server_work = <<>>
      /\ current_slot = NoSlot /\ buf_idx = NoSlot
      /\ SlotsIn(client_work) = {}
  BY DEF Init, SlotsIn
<1>2. SlotsIn(<<>>) = {} /\ NoSlot \notin Slot
  BY DEF SlotsIn, Slot, NoSlot
<1>3. ClientSlots = {NoSlot} /\ ServerSlots = {NoSlot}
  BY <1>1, <1>2, Zenon DEF ClientSlots, ServerSlots
<1>4. \A s \in Slot : s \notin ClientSlots /\ s \notin ServerSlots
  BY <1>2, <1>3
<1>5. owner = [s \in Slot |-> "none"]
  BY <1>4 DEF owner
<1> QED BY <1>5 DEF Exchange!Init, Init

(* The slot of the run thread is the server's.                             *)
LEMMA AcquiredOwner ==
    ASSUME TypeOK, OneHolder, buf_idx # NoSlot
    PROVE  buf_idx \in Slot /\ owner[buf_idx] = "server"
<1>1. buf_idx \in Slot
  BY DEF TypeOK
<1>2. pipe["buf_idx"] = <<[slot |-> buf_idx]>>
  BY DEF pipe, Single
<1>3. buf_idx \in SlotsIn(pipe["buf_idx"])
  BY <1>2 DEF SlotsIn
<1>4. \A c \in ClientStage : buf_idx \notin SlotsIn(pipe[c])
  BY <1>1, <1>3, Apart DEF OneHolder, Stage, ClientStage
<1> QED BY <1>1, <1>3, <1>4, OwnerOfPipe DEF Owner, ServerStage

(* A step of the exchange that is no failed rendering.                     *)
Regular ==
    \/ Exchange!Complete \/ Exchange!Grant
    \/ \E s \in Slot : \/ Exchange!Read(s) \/ Exchange!Write(s)
                       \/ Exchange!LosingRead(s) \/ Exchange!Lose(s)

(* Every step is a step of the exchange, or changes nothing it sees.       *)
LEMMA StepRefined ==
    ASSUME TypeOK, TypeOK', SlotInv, AccessInv, [Next]_vars
    PROVE  \/ Regular
           \/ RunExportFails /\ \E s \in Slot : Exchange!FailingWrite(s)
           \/ UNCHANGED Exchange!vars
<1> DEFINE R == reading \ unfenced
<1>1. owner = Owner(pipe) /\ owner' = Owner(pipe')
  BY OwnerOfPipe, OwnerOfPipePrime
<1>2. (\A c \in Stage : pipe[c] \in Seq(Item)) /\ Unique(pipe)
  BY PipeType DEF SlotInv, OneHolder
<1>3. ASSUME ~ClientSendsHandshake, ~Idle PROVE PipeMoves
  BY StepsOfThePipe
<1>4. ASSUME NEW a \in Stage, NEW b \in Stage, a # b,
             Moved(pipe, pipe', a, b), SideOf(a) = SideOf(b)
      PROVE  owner' = owner
  <2> DEFINE s == Head(pipe[a]).slot
  <2>1. /\ s \in Slot => /\ Owner(pipe)[s] = SideOf(a)
                         /\ Owner(pipe') = [Owner(pipe) EXCEPT ![s] = SideOf(b)]
        /\ s \notin Slot => Owner(pipe') = Owner(pipe)
    BY <1>2, <1>4, MovedOwner
  <2>2. Owner(pipe) = [t \in Slot |-> Owner(pipe)[t]]
    BY DEF Owner
  <2> HIDE DEF s
  <2> QED BY <1>1, <1>4, <2>1, <2>2
<1>5. ASSUME NEW a \in Stage, Dropped(pipe, pipe', a)
      PROVE  owner' = owner \/ \E s \in Slot : owner' = [owner EXCEPT ![s] = "none"]
  <2> DEFINE s == Head(pipe[a]).slot
  <2>1. /\ s \in Slot => Owner(pipe') = [Owner(pipe) EXCEPT ![s] = "none"]
        /\ s \notin Slot => Owner(pipe') = Owner(pipe)
    BY <1>2, <1>5, DroppedOwner
  <2> HIDE DEF s
  <2> QED BY <1>1, <2>1
<1>6. CASE DrawCopy
  <2>1. PICK a \in {"client_queue", "current_slot"} :
            Moved(pipe, pipe', a, "client_work") /\ Head(pipe[a]).slot = Drawn
    BY <1>6, StepsOfThePipe DEF PipeMoves
  <2>2. Drawn \in Slot /\ Drawn \notin writing
    BY <1>6, DrawnSlot DEF DrawCopy
  <2>3. a \in Stage /\ "client_work" \in Stage /\ a # "client_work"
        /\ SideOf(a) = "client" /\ SideOf("client_work") = "server"
    BY DEF Stage, SideOf, ClientStage
  <2>4. owner[Drawn] = "client" /\ owner' = [owner EXCEPT ![Drawn] = "server"]
    <3> DEFINE b == "client_work"
    <3>1. b \in Stage /\ a # b /\ Moved(pipe, pipe', a, b)
      BY <2>1, <2>3
    <3>3. Head(pipe[a]).slot = Drawn
      BY <2>1
    <3> HIDE DEF b
    <3>2. /\ Owner(pipe)[Drawn] = SideOf(a)
          /\ Owner(pipe') = [Owner(pipe) EXCEPT ![Drawn] = SideOf(b)]
      <4>1. a \in Stage /\ Drawn \in Slot
        BY <2>2, <2>3
      <4> QED BY <1>2, <3>1, <3>3, <4>1, StepOwner
    <3> QED BY <1>1, <2>3, <3>2 DEF b
  <2>5. R' = R \union {Drawn} /\ writing' = writing
    BY <1>6 DEF DrawCopy
  <2> QED BY <2>2, <2>4, <2>5 DEF Regular, Exchange!Read
<1>7. CASE ExportFails
  <2>1. PICK a \in {"client_queue", "current_slot"} :
            Dropped(pipe, pipe', a) /\ Head(pipe[a]).slot = Drawn
    BY <1>7, StepsOfThePipe DEF PipeMoves
  <2>2. Drawn \in Slot /\ Drawn \notin writing
    BY <1>7, DrawnSlot DEF ExportFails
  <2>3. a \in Stage /\ SideOf(a) = "client"
    BY DEF Stage, SideOf, ClientStage
  <2>4. owner[Drawn] = "client" /\ owner' = [owner EXCEPT ![Drawn] = "none"]
    BY <1>1, <1>2, <2>1, <2>2, <2>3, DroppedOwner
  <2>5. (R' = R \/ R' = R \union {Drawn}) /\ writing' = writing
    BY <1>7 DEF ExportFails
  <2> QED BY <2>2, <2>4, <2>5
      DEF Regular, Exchange!LosingRead, Exchange!Lose
<1>8. CASE DrawCached \/ ClientSendFails \/ ServerConnects \/ ServerSendFails
  <2>1. pipe' = pipe \/ \E a \in Stage : Dropped(pipe, pipe', a)
    BY <1>8, StepsOfThePipe DEF PipeMoves, Stage
  <2>2. owner' = owner \/ \E s \in Slot : owner' = [owner EXCEPT ![s] = "none"]
    BY <1>1, <1>5, <2>1
  <2>3. R' = R /\ writing' = writing
    BY <1>8 DEF DrawCached, ClientSendFails, ServerConnects, ServerSendFails, gpu
  <2> QED BY <2>2, <2>3 DEF Regular, Exchange!Lose, Exchange!vars
<1>9. CASE \/ DrawAborts \/ EndCommandBufferFails \/ ClientSendsFrame
           \/ ClientReceivesFrame \/ ServerReceivesFrame \/ ServerSends
           \/ RunSendsDmabuf \/ RunAcquires \/ RunGivesUpWait
  <2>1. \/ pipe' = pipe
        \/ \E a, b \in Stage : /\ a # b /\ SideOf(a) = SideOf(b)
                               /\ Moved(pipe, pipe', a, b)
        \/ \E a \in Stage : Added(pipe, pipe', a)
    <3>1. PipeMoves
      BY StepsOfThePipe
    <3>2. /\ SideOf("client_queue") = SideOf("current_slot")
          /\ SideOf("client_work") = SideOf("to_server")
          /\ SideOf("to_client") = SideOf("client_queue")
          /\ SideOf("to_server") = SideOf("server_queue")
          /\ SideOf("server_work") = SideOf("to_client")
          /\ SideOf("server_queue") = SideOf("buf_idx")
      BY DEF SideOf, ClientStage
    <3> QED BY <1>9, <3>1, <3>2 DEF PipeMoves, Stage
  <2>2. owner' = owner
    BY <1>1, <1>2, <1>4, <2>1, AddedOwner
  <2>3. R' \subseteq R /\ writing' = writing
    BY <1>9 DEF DrawAborts, EndCommandBufferFails, ClientSendsFrame,
                ClientReceivesFrame, ServerReceivesFrame, ServerSends,
                RunSendsDmabuf, RunAcquires, RunGivesUpWait, gpu
  <2> QED BY <2>2, <2>3 DEF Regular, Exchange!Complete
<1>10. CASE ClientSendsHandshake
  <2>1. /\ \A c \in Stage : SlotsIn(pipe[c]) = {}
        /\ \A c \in Stage \ {"client_queue"} : SlotsIn(pipe'[c]) = {}
    BY <1>10, HandshakePipe DEF SlotsIn
  <2>2. \A s \in Slot : s \in SlotsIn(pipe'["client_queue"])
    <3> SUFFICES ASSUME NEW s \in Slot PROVE s \in SlotsIn(pipe'["client_queue"])
      OBVIOUS
    <3>1. pipe'["client_queue"] = [i \in 1 .. N |-> [slot |-> i - 1, gen |-> 0]]
      BY <1>10, HandshakePipe
    <3>2. s + 1 \in 1 .. N /\ s = (s + 1) - 1 /\ s # NoSlot
      BY NAssumption DEF NAssumption, Slot, NoSlot
    <3>3. s + 1 \in DOMAIN pipe'["client_queue"]
          /\ pipe'["client_queue"][s + 1].slot = s
      BY <3>1, <3>2
    <3> QED BY <3>2, <3>3 DEF SlotsIn
  <2>3. ClientStage \subseteq Stage /\ ServerStage \subseteq Stage
        /\ "client_queue" \in ClientStage
    BY DEF Stage, ClientStage, ServerStage
  <2>4. Owner(pipe) = [s \in Slot |-> "none"]
    BY <2>1, <2>3 DEF Owner
  <2>5. Owner(pipe') = [s \in Slot |-> "client"]
    BY <2>2, <2>3 DEF Owner
  <2>6. R' = R /\ writing' = writing
    BY <1>10 DEF ClientSendsHandshake, gpu
  <2> QED BY <1>1, <2>4, <2>5, <2>6 DEF Regular, Exchange!Grant
<1>11. CASE ClientImports
  <2>1. Dropped(pipe, pipe', "to_client") /\ Head(pipe["to_client"]).slot = NoSlot
    BY <1>11, StepsOfThePipe DEF PipeMoves
  <2>2. owner' = owner
    BY <1>1, <1>2, <2>1, DroppedOwner DEF Stage, Slot, NoSlot
  <2>3. R' \subseteq R /\ writing' = writing
    BY <1>11 DEF ClientImports
  <2> QED BY <2>2, <2>3 DEF Regular, Exchange!Complete
<1>12. CASE RunRenders
  <2>1. /\ Moved(pipe, pipe', "buf_idx", "server_work")
        /\ Head(pipe["buf_idx"]).slot = buf_idx
    BY <1>12, StepsOfThePipe DEF PipeMoves
  <2>2. buf_idx \in Slot /\ buf_idx \notin R
    BY <1>12 DEF RunRenders, AboutToRender, TypeOK, AccessInv, AcquiredIsCopied
  <2>3. "buf_idx" \in Stage /\ "server_work" \in Stage
        /\ SideOf("buf_idx") = "server" /\ SideOf("server_work") = "client"
    BY DEF Stage, SideOf, ClientStage
  <2>4. owner[buf_idx] = "server" /\ owner' = [owner EXCEPT ![buf_idx] = "client"]
    BY <1>1, <1>2, <2>1, <2>2, <2>3, MovedOwner
  <2>5. R' = R /\ writing' = writing \union {buf_idx}
    BY <1>12 DEF RunRenders
  <2> QED BY <2>2, <2>4, <2>5 DEF Regular, Exchange!Write
<1>13. CASE RunExportFails
  <2>1. buf_idx \in Slot /\ buf_idx \notin R
    BY <1>13 DEF RunExportFails, AboutToRender, TypeOK, AccessInv, AcquiredIsCopied
  <2>2. owner[buf_idx] = "server"
    BY <1>13, AcquiredOwner DEF RunExportFails, AboutToRender, SlotInv
  <2>3. owner' = owner \/ owner' = [owner EXCEPT ![buf_idx] = "none"]
    <3>1. \/ pipe' = pipe
          \/ /\ Dropped(pipe, pipe', "buf_idx")
             /\ Head(pipe["buf_idx"]).slot = buf_idx
      BY <1>13, StepsOfThePipe DEF PipeMoves
    <3> QED BY <1>1, <1>2, <2>1, <3>1, DroppedOwner DEF Stage
  <2>4. R' = R /\ writing' = writing \union {buf_idx}
    BY <1>13 DEF RunExportFails
  <2> QED BY <1>13, <2>1, <2>2, <2>3, <2>4 DEF Exchange!FailingWrite
<1>14. CASE Idle
  <2>1. owner' = owner
    BY <1>1, <1>14, IdlePipe
  <2>2. R' \subseteq R /\ writing' \subseteq writing
    BY <1>14 DEF Idle, RunStarts, RunWaits, WaitTimesOut, RunFindsNothing,
                 RunResizes, CopyDone, RenderingDone, vars, gpu
  <2> QED BY <2>1, <2>2 DEF Regular, Exchange!Complete
<1> QED
  BY <1>6, <1>7, <1>8, <1>9, <1>10, <1>11, <1>12, <1>13, <1>14
  DEF Next, Draw, DrawFails, ClientBus, ServerBus, Run, Idle

(* The frame loop implements the exchange of slots that SlotExchange       *)
(* states: whatever the order of threads, messages, fences and failures, a *)
(* slot's accesses alternate between the two processes.                    *)
THEOREM ImplementsExchange == Spec => ExchangeSpec
<1>1. TypeOK /\ TypeOK' /\ SlotInv /\ AccessInv /\ [Next]_vars
          => [Exchange!Next]_(Exchange!vars)
  BY StepRefined DEF Regular, Exchange!Next
<1> QED BY InitRefined, <1>1, TypeCorrect, SlotInvariant, AccessInvariant, PTL
    DEF Spec, ExchangeSpec, Exchange!Spec

(* The server records into a slot only after its previous rendering: no    *)
(* rendering is under way in a slot that has been passed to the server,    *)
(* because the client waited for it and nothing failed since.              *)
ServerIdle == faults = 0 => \A s \in writing : owner[s] # "server"

THEOREM CommandBufferIdleCorrect == Spec => []CommandBufferIdle
<1>1. Init => ServerIdle
  BY DEF Init, ServerIdle
<1>2. TypeOK /\ TypeOK' /\ SlotInv /\ AccessInv /\ ServerIdle /\ [Next]_vars
          => ServerIdle'
  <2> SUFFICES ASSUME TypeOK, TypeOK', SlotInv, AccessInv, ServerIdle,
                      [Next]_vars, faults' = 0
               PROVE  \A s \in writing' : owner'[s] # "server"
    BY DEF ServerIdle
  <2>1. faults = 0 /\ ~RunExportFails
    BY DEF TypeOK, Next, Draw, DrawFails, ClientBus, ServerBus, Run, vars, Fault,
           DrawCopy, DrawCached, DrawAborts, EndCommandBufferFails, ExportFails,
           ClientSendsHandshake, ClientSendsFrame, ClientSendFails,
           ClientImports, ClientReceivesFrame, ServerConnects,
           ServerReceivesFrame, ServerSends, ServerSendFails, RunStarts,
           RunSendsDmabuf, RunWaits, WaitTimesOut, RunFindsNothing, RunAcquires,
           RunGivesUpWait, RunRenders, RunResizes, RunExportFails, CopyDone,
           RenderingDone
  <2>2. \A s \in writing : owner[s] # "server"
    BY <2>1 DEF ServerIdle
  <2>3. owner = [s \in Slot |-> owner[s]] /\ writing \subseteq Slot
    BY DEF owner, TypeOK
  <2>4. Regular \/ UNCHANGED Exchange!vars
    BY <2>1, StepRefined
  <2>5. CASE UNCHANGED Exchange!vars
    BY <2>2, <2>5 DEF Exchange!vars
  <2>6. CASE Exchange!Complete
    BY <2>2, <2>6 DEF Exchange!Complete
  <2>7. CASE Exchange!Grant
    BY <2>3, <2>7 DEF Exchange!Grant
  <2>8. ASSUME NEW s \in Slot, Exchange!Read(s) \/ Exchange!Write(s)
               \/ Exchange!LosingRead(s) \/ Exchange!Lose(s)
        PROVE  \A t \in writing' : owner'[t] # "server"
    BY <2>2, <2>3, <2>8
    DEF Exchange!Read, Exchange!Write, Exchange!LosingRead, Exchange!Lose
  <2> QED BY <2>4, <2>5, <2>6, <2>7, <2>8 DEF Regular
<1>3. TypeOK /\ SlotInv /\ ServerIdle => CommandBufferIdle
  <2> SUFFICES ASSUME TypeOK, SlotInv, ServerIdle, faults = 0, buf_idx \in writing
               PROVE  FALSE
    BY DEF CommandBufferIdle
  <2>1. buf_idx # NoSlot
    BY DEF TypeOK, Slot, NoSlot
  <2> QED BY <2>1, AcquiredOwner DEF SlotInv, ServerIdle
<1> QED BY TypeCorrect, SlotInvariant, AccessInvariant, <1>1, <1>2, <1>3, PTL
    DEF Spec
-----------------------------------------------------------------------------
(* The loss of slots.  A cached draw drops the frame it is given, which is *)
(* harmless because the slots go round in a fixed order: the one that is   *)
(* shown is behind all the others.                                         *)

(* How far a slot has come since it was last drawn.                        *)
Rank == [client_work |-> 1, to_server |-> 2, server_queue |-> 3, buf_idx |-> 4,
         server_work |-> 5, to_client |-> 6, client_queue |-> 7, current_slot |-> 8]

(* No slot is behind s.                                                    *)
AtBack(p, s) ==
    \A a, b \in Stage : \A i \in DOMAIN p[a], j \in DOMAIN p[b] :
        p[a][i].slot = s /\ p[b][j].slot # NoSlot =>
            Rank[a] < Rank[b] \/ (a = b /\ j <= i)

Rotation == last_slot # NoSlot /\ last_slot # current_slot => AtBack(pipe, last_slot)

(* After vkEndCommandBuffer failed the slot at hand counts as shown, and   *)
(* the next draw may drop it: the fault has yet to cost its slot.          *)
Pending == IF last_slot # NoSlot /\ last_slot = current_slot THEN 1 ELSE 0

Losses == Handshaken /\ faults + 2 <= N => Cardinality(Lost) + Pending <= faults

LossInv == Rotation /\ Losses

LEMMA RankType ==
    /\ \A c \in Stage : Rank[c] \in Nat
    /\ \A c, d \in Stage : Rank[c] = Rank[d] => c = d
    /\ \A c \in Stage : c # "client_work" => Rank["client_work"] < Rank[c]
    /\ \A c \in Stage : c # "current_slot" => Rank[c] <= Rank["client_queue"]
    /\ Rank["to_server"] = Rank["client_work"] + 1
    /\ Rank["server_queue"] = Rank["to_server"] + 1
    /\ Rank["buf_idx"] = Rank["server_queue"] + 1
    /\ Rank["server_work"] = Rank["buf_idx"] + 1
    /\ Rank["to_client"] = Rank["server_work"] + 1
    /\ Rank["client_queue"] = Rank["to_client"] + 1
    /\ Rank["current_slot"] = Rank["client_queue"] + 1
BY DEF Rank, Stage
-----------------------------------------------------------------------------
(* The slot at the back stays there when a slot advances by one stage: it  *)
(* is passed by none, and when it advances itself it joins at the end.     *)
LEMMA BackMoved ==
    ASSUME NEW p, NEW q, \A c \in Stage : p[c] \in Seq(Item), Unique(p),
           NEW a \in Stage, NEW b \in Stage, Rank[b] = Rank[a] + 1,
           Moved(p, q, a, b), NEW s, s # NoSlot, AtBack(p, s)
    PROVE  AtBack(q, s)
<1> USE DEF Moved
<1> PICK x \in Item : x.slot = Head(p[a]).slot /\ q[b] = Append(p[b], x)
  OBVIOUS
<1> DEFINE n == Len(p[b]) + 1
           st(c, i) == IF c = b /\ i = n THEN a ELSE c
           at(c, i) == IF c = b /\ i = n THEN 1 ELSE IF c = a THEN i + 1 ELSE i
<1>0. a # b
  BY RankType
<1>1. /\ DOMAIN q[a] = 1 .. Len(p[a]) - 1
      /\ \A i \in DOMAIN q[a] : q[a][i] = p[a][i + 1]
      /\ 1 \in DOMAIN p[a] /\ DOMAIN p[a] = 1 .. Len(p[a]) /\ Len(p[a]) \in Nat
  BY <1>0, HeadTailProperties
<1>2. /\ DOMAIN q[b] = 1 .. n /\ DOMAIN p[b] = 1 .. n - 1
      /\ n \in Nat
      /\ \A i \in 1 .. n - 1 : q[b][i] = p[b][i]
      /\ q[b][n].slot = p[a][1].slot
  BY <1>0, AppendProperties, Head(p[a]) = p[a][1]
<1>3. ASSUME NEW c \in Stage, NEW i \in DOMAIN q[c]
      PROVE  /\ i \in Nat \ {0}
             /\ st(c, i) \in Stage
             /\ at(c, i) \in DOMAIN p[st(c, i)]
             /\ q[c][i].slot = p[st(c, i)][at(c, i)].slot
  <2>1. CASE c = a
    <3>1. i \in DOMAIN q[a]
      BY <2>1
    <3>2. i + 1 \in DOMAIN p[a] /\ q[a][i] = p[a][i + 1] /\ i \in Nat \ {0}
      BY <1>1, <3>1
    <3>3. st(c, i) = a /\ at(c, i) = i + 1
      BY <1>0, <2>1
    <3> QED BY <2>1, <3>2, <3>3
  <2>2. CASE c = b /\ i = n
    BY <1>1, <1>2, <2>2
  <2>3. CASE c = b /\ i # n
    <3>1. i \in 1 .. n - 1 /\ q[b][i] = p[b][i]
      BY <1>2, <2>3
    <3>2. st(c, i) = b /\ at(c, i) = i
      BY <1>0, <2>3
    <3> QED BY <1>2, <2>3, <3>1, <3>2
  <2>4. CASE c # a /\ c # b
    BY <2>4
  <2> QED BY <2>1, <2>2, <2>3, <2>4
<1>4. ASSUME NEW c \in Stage, NEW i \in DOMAIN q[c],
             NEW d \in Stage, NEW j \in DOMAIN q[d],
             q[c][i].slot = s, q[d][j].slot # NoSlot
      PROVE  Rank[c] < Rank[d] \/ (c = d /\ j <= i)
  <2>1. /\ st(c, i) \in Stage /\ at(c, i) \in DOMAIN p[st(c, i)]
        /\ p[st(c, i)][at(c, i)].slot = s
        /\ st(d, j) \in Stage /\ at(d, j) \in DOMAIN p[st(d, j)]
        /\ p[st(d, j)][at(d, j)].slot # NoSlot
    BY <1>3, <1>4
  <2>2. \/ Rank[st(c, i)] < Rank[st(d, j)]
        \/ st(c, i) = st(d, j) /\ at(d, j) <= at(c, i)
    <3> HIDE DEF st, at
    <3> QED BY <2>1 DEF AtBack
  <2>3. /\ i \in Nat \ {0} /\ j \in Nat \ {0} /\ n \in Nat
        /\ c = b => i <= n
        /\ d = b => j <= n
    BY <1>2, <1>3, <1>4
  <2>4. /\ Rank[a] \in Nat /\ Rank[b] \in Nat /\ Rank[c] \in Nat /\ Rank[d] \in Nat
        /\ Rank[c] = Rank[a] => c = a
        /\ Rank[d] = Rank[b] => d = b
    BY RankType
  <2>5. CASE c = b /\ i = n
    BY <1>0, <2>2, <2>3, <2>4, <2>5
  <2>6. CASE ~(c = b /\ i = n) /\ d = b /\ j = n
    BY <1>0, <2>2, <2>3, <2>4, <2>6
  <2>7. CASE ~(c = b /\ i = n) /\ ~(d = b /\ j = n)
    BY <1>0, <2>2, <2>3, <2>4, <2>7
  <2> QED BY <2>5, <2>6, <2>7
<1> QED BY <1>4 DEF AtBack

(* It stays there, too, when the front of a stage drops out, ...           *)
LEMMA BackDropped ==
    ASSUME NEW p, NEW q, \A c \in Stage : p[c] \in Seq(Item),
           NEW a \in Stage, Dropped(p, q, a), NEW s, AtBack(p, s)
    PROVE  AtBack(q, s)
<1> USE DEF Dropped
<1> DEFINE at(c, i) == IF c = a THEN i + 1 ELSE i
<1>1. /\ DOMAIN q[a] = 1 .. Len(p[a]) - 1
      /\ \A i \in DOMAIN q[a] : q[a][i] = p[a][i + 1]
      /\ DOMAIN p[a] = 1 .. Len(p[a]) /\ Len(p[a]) \in Nat
  BY HeadTailProperties
<1>2. ASSUME NEW c \in Stage, NEW i \in DOMAIN q[c]
      PROVE  i \in Nat /\ at(c, i) \in DOMAIN p[c] /\ q[c][i] = p[c][at(c, i)]
  <2>1. CASE c = a
    <3>1. i \in DOMAIN q[a]
      BY <2>1
    <3>2. i + 1 \in DOMAIN p[a] /\ q[a][i] = p[a][i + 1] /\ i \in Nat
      BY <1>1, <3>1
    <3> QED BY <2>1, <3>2
  <2>2. CASE c # a
    BY <2>2
  <2> QED BY <2>1, <2>2
<1>3. ASSUME NEW c \in Stage, NEW i \in DOMAIN q[c],
             NEW d \in Stage, NEW j \in DOMAIN q[d],
             q[c][i].slot = s, q[d][j].slot # NoSlot
      PROVE  Rank[c] < Rank[d] \/ (c = d /\ j <= i)
  <2>1. /\ at(c, i) \in DOMAIN p[c] /\ p[c][at(c, i)].slot = s
        /\ at(d, j) \in DOMAIN p[d] /\ p[d][at(d, j)].slot # NoSlot
        /\ i \in Nat /\ j \in Nat
    BY <1>2, <1>3
  <2>2. Rank[c] < Rank[d] \/ (c = d /\ at(d, j) <= at(c, i))
    <3> HIDE DEF at
    <3> QED BY <2>1 DEF AtBack
  <2> QED BY <2>1, <2>2
<1> QED BY <1>3 DEF AtBack

(* ... and when a message that carries no slot is sent.                    *)
LEMMA BackAdded ==
    ASSUME NEW p, NEW q, \A c \in Stage : p[c] \in Seq(Item),
           NEW a \in Stage, Added(p, q, a), NEW s, s # NoSlot, AtBack(p, s)
    PROVE  AtBack(q, s)
<1> USE DEF Added
<1> PICK x \in Item : x.slot = NoSlot /\ q[a] = Append(p[a], x)
  OBVIOUS
<1>1. ASSUME NEW c \in Stage, NEW i \in DOMAIN q[c], q[c][i].slot # NoSlot
      PROVE  i \in DOMAIN p[c] /\ q[c][i] = p[c][i]
  <2>1. CASE c = a
    BY <1>1, <2>1, AppendProperties
  <2>2. CASE c # a
    BY <2>2
  <2> QED BY <2>1, <2>2
<1>2. ASSUME NEW c \in Stage, NEW i \in DOMAIN q[c],
             NEW d \in Stage, NEW j \in DOMAIN q[d],
             q[c][i].slot = s, q[d][j].slot # NoSlot
      PROVE  Rank[c] < Rank[d] \/ (c = d /\ j <= i)
  BY <1>1, <1>2 DEF AtBack
<1> QED BY <1>2 DEF AtBack

(* A slot that is drawn joins behind all others, ...                       *)
LEMMA BackDrawn ==
    ASSUME NEW p, NEW q, \A c \in Stage : p[c] \in Seq(Item), Unique(p),
           NEW a \in Stage, a # "client_work", Moved(p, q, a, "client_work"),
           NEW s, s # NoSlot, Head(p[a]).slot = s
    PROVE  AtBack(q, s)
<1> DEFINE w == "client_work"
           n == Len(p[w]) + 1
<1>0. w \in Stage
  BY DEF Stage
<1>1. Unique(q)
  BY <1>0, UniqueMove
<1>2. /\ DOMAIN q[w] = 1 .. n /\ n \in Nat /\ n \in DOMAIN q[w]
      /\ q[w][n].slot = s
  BY <1>0, AppendProperties DEF Moved
<1>3. ASSUME NEW c \in Stage, NEW i \in DOMAIN q[c],
             NEW d \in Stage, NEW j \in DOMAIN q[d], q[c][i].slot = s
      PROVE  Rank[c] < Rank[d] \/ (c = d /\ j <= i)
  <2>1. c = w /\ i = n
    BY <1>0, <1>1, <1>2, <1>3 DEF Unique
  <2>2. CASE d = w
    BY <1>2, <2>1, <2>2
  <2>3. CASE d # w
    BY <2>1, <2>3, RankType
  <2> QED BY <2>2, <2>3
<1> QED BY <1>3 DEF AtBack

(* ... and of one that dropped out nothing is left.                        *)
LEMMA BackGone ==
    ASSUME NEW p, NEW q, \A c \in Stage : p[c] \in Seq(Item), Unique(p),
           NEW a \in Stage, Dropped(p, q, a),
           NEW s \in Slot, Head(p[a]).slot = s
    PROVE  AtBack(q, s)
<1>1. \A c \in Stage : s \notin SlotsIn(q[c])
  BY DroppedSlots
<1>2. \A c \in Stage : \A i \in DOMAIN q[c] : q[c][i].slot # s
  BY <1>1 DEF SlotsIn, Slot, NoSlot
<1> QED BY <1>2 DEF AtBack
-----------------------------------------------------------------------------
(* The actions that leave what the overlay shows and holds alone move at   *)
(* most one slot, by one stage, or lose it.                                *)
OverlayIdle == current_slot' = current_slot /\ last_slot' = last_slot

Forward(p, q) ==
    \/ q = p
    \/ \E a, b \in Stage : Rank[b] = Rank[a] + 1 /\ Moved(p, q, a, b)
    \/ \E a \in Stage : Dropped(p, q, a) \/ Added(p, q, a)

LEMMA ForwardSteps ==
    ASSUME TypeOK, TypeOK', SlotInv, [Next]_vars, ~ClientSendsHandshake
    PROVE  \/ DrawCopy \/ DrawCached \/ DrawAborts \/ EndCommandBufferFails
           \/ ExportFails \/ ClientImports
           \/ OverlayIdle /\ Forward(pipe, pipe')
<1>1. CASE Idle
  <2>1. OverlayIdle
    BY <1>1 DEF Idle, RunStarts, RunWaits, WaitTimesOut, RunFindsNothing,
       RunResizes, CopyDone, RenderingDone, vars, overlay, OverlayIdle
  <2> QED BY <1>1, <2>1, IdlePipe DEF Forward
<1>2. CASE ~Idle
  <2>1. PipeMoves
    BY StepsOfThePipe
  <2>2. CASE \/ ClientSendsFrame \/ ClientReceivesFrame \/ ServerReceivesFrame
             \/ ServerSends \/ RunAcquires \/ RunGivesUpWait \/ RunRenders
    <3>1. OverlayIdle
      BY <2>2 DEF ClientSendsFrame, ClientReceivesFrame, ServerReceivesFrame,
         ServerSends, RunAcquires, RunGivesUpWait, RunRenders, overlay, OverlayIdle
    <3>2. \E a, b \in Stage : Rank[b] = Rank[a] + 1 /\ Moved(pipe, pipe', a, b)
      BY <2>1, <2>2, RankType DEF PipeMoves, Stage
    <3> QED BY <3>1, <3>2 DEF Forward
  <2>3. CASE \/ ClientSendFails \/ ServerConnects \/ ServerSendFails
             \/ RunSendsDmabuf \/ RunExportFails
    <3>1. OverlayIdle
      BY <2>3 DEF ClientSendFails, ServerConnects, ServerSendFails,
         RunSendsDmabuf, RunExportFails, overlay, OverlayIdle
    <3>2. pipe' = pipe \/ \E a \in Stage : Dropped(pipe, pipe', a) \/ Added(pipe, pipe', a)
      BY <2>1, <2>3 DEF PipeMoves, Stage
    <3> QED BY <3>1, <3>2 DEF Forward
  <2> QED BY <1>2, <2>2, <2>3
      DEF Next, Draw, DrawFails, ClientBus, ServerBus, Run, Idle
<1> QED BY <1>1, <1>2

LEMMA RotationStep ==
    ASSUME TypeOK, TypeOK', SlotInv, Rotation, [Next]_vars
    PROVE  Rotation'
<1>1. (\A c \in Stage : pipe[c] \in Seq(Item)) /\ Unique(pipe)
  BY PipeType DEF SlotInv, OneHolder
<1>2. ASSUME OverlayIdle \/ (current_slot = NoSlot /\ last_slot' = last_slot),
             Forward(pipe, pipe')
      PROVE  Rotation'
  <2>1. SUFFICES ASSUME last_slot' # NoSlot, last_slot' # current_slot'
                 PROVE  AtBack(pipe', last_slot')
    BY DEF Rotation, AtBack
  <2>2. last_slot' = last_slot /\ last_slot # NoSlot /\ last_slot # current_slot
    BY <1>2, <2>1 DEF OverlayIdle
  <2>3. AtBack(pipe, last_slot)
    BY <2>2 DEF Rotation
  <2>4. AtBack(pipe', last_slot)
    BY <1>1, <1>2, <2>2, <2>3, BackMoved, BackDropped, BackAdded DEF Forward
  <2> QED BY <2>2, <2>4
<1>3. CASE ClientSendsHandshake
  <2>1. last_slot' = NoSlot
    BY <1>3 DEF ClientSendsHandshake, SlotInv, HandshakeFirst, NoHandshake,
       overlay, TypeOK
  <2> QED BY <2>1 DEF Rotation
<1>4. PipeMoves
  BY StepsOfThePipe
<1>5. CASE DrawCopy
  <2>1. PICK a \in {"client_queue", "current_slot"} :
            Moved(pipe, pipe', a, "client_work") /\ Head(pipe[a]).slot = Drawn
    BY <1>4, <1>5 DEF PipeMoves
  <2>2. Drawn # NoSlot /\ last_slot' = Drawn
    BY <1>5 DEF DrawCopy, Drawing
  <2>3. a \in Stage /\ a # "client_work"
    BY DEF Stage
  <2>4. AtBack(pipe', Drawn)
    BY <1>1, <2>1, <2>2, <2>3, BackDrawn
  <2> QED BY <2>2, <2>4 DEF Rotation, AtBack
<1>6. CASE ExportFails
  <2>1. PICK a \in {"client_queue", "current_slot"} :
            Dropped(pipe, pipe', a) /\ Head(pipe[a]).slot = Drawn
    BY <1>4, <1>6 DEF PipeMoves
  <2>2. Drawn \in Slot /\ last_slot' = Drawn
    BY <1>6 DEF ExportFails, Drawing, TypeOK
  <2>3. a \in Stage
    BY DEF Stage
  <2>4. AtBack(pipe', Drawn)
    BY <1>1, <2>1, <2>2, <2>3, BackGone
  <2> QED BY <2>2, <2>4 DEF Rotation, AtBack
<1>7. CASE DrawCached
  <2>1. last_slot' = last_slot
    BY <1>7 DEF DrawCached
  <2>2. CASE pipe' = pipe /\ current_slot = NoSlot
    BY <1>2, <2>1, <2>2 DEF Forward
  <2>3. ASSUME NEW a \in {"client_queue", "current_slot"},
               Dropped(pipe, pipe', a), Head(pipe[a]).slot = last_slot
        PROVE  Rotation'
    <3>1. a \in Stage
      BY DEF Stage
    <3>2. last_slot \in Slot => AtBack(pipe', last_slot)
      BY <1>1, <2>3, <3>1, BackGone
    <3> QED BY <2>1, <3>2 DEF Rotation, AtBack, TypeOK
  <2> QED BY <1>4, <1>7, <2>2, <2>3 DEF PipeMoves
<1>8. CASE DrawAborts
  <2>1. last_slot' = last_slot /\ NextFrame /\ current_slot' = Held
    BY <1>8 DEF DrawAborts
  <2>2. CASE CanTake
    <3>1. pipe' = pipe \/ Moved(pipe, pipe', "client_queue", "current_slot")
      BY <1>4, <1>8 DEF PipeMoves
    <3>2. Forward(pipe, pipe')
      BY <3>1, RankType DEF Forward, Stage
    <3> QED BY <1>2, <2>1, <2>2, <3>2 DEF CanTake
  <2>3. CASE ~CanTake
    <3>1. OverlayIdle
      BY <2>1, <2>3 DEF Held, OverlayIdle
    <3>2. pipe' = pipe
      BY <1>8, <2>1, <2>3, <3>1 DEF DrawAborts, NextFrame, OverlayIdle, pipe, run
    <3>3. Forward(pipe, pipe')
      BY <3>2 DEF Forward
    <3> QED BY <1>2, <3>1, <3>3
  <2> QED BY <2>2, <2>3
<1>9. CASE EndCommandBufferFails
  <2>1. last_slot' = current_slot'
    BY <1>9 DEF EndCommandBufferFails, RefreshCache, Drawing, Drawn, SlotInv,
       ShownIsCached
  <2> QED BY <2>1 DEF Rotation
<1>10. CASE ClientImports
  BY <1>10 DEF ClientImports, Rotation
<1>11. CASE OverlayIdle /\ Forward(pipe, pipe')
  BY <1>2, <1>11
<1> QED BY <1>3, <1>5, <1>6, <1>7, <1>8, <1>9, <1>10, <1>11, ForwardSteps
-----------------------------------------------------------------------------
(* What a change of the pipe does to the set of lost slots.                *)
LEMMA LostOwner == Lost = {s \in Slot : owner[s] = "none"}
BY DEF Lost, owner

LEMMA LostOfPipe ==
    /\ Lost = {s \in Slot : Owner(pipe)[s] = "none"}
    /\ Lost' = {s \in Slot : Owner(pipe')[s] = "none"}
<1>1. Lost = {s \in Slot : Owner(pipe)[s] = "none"}
  BY LostOwner, OwnerOfPipe
<1>2. (Lost = {s \in Slot : owner[s] = "none"})'
  BY LostOwner, PTL
<1>3. Lost' = {s \in Slot : owner'[s] = "none"}
  BY <1>2
<1> QED BY <1>1, <1>3, OwnerOfPipePrime

LEMMA LostByStep ==
    ASSUME \A c \in Stage : pipe[c] \in Seq(Item), Unique(pipe)
    PROVE  /\ pipe' = pipe => Lost' = Lost
           /\ \A a, b \in Stage : a # b /\ Moved(pipe, pipe', a, b) => Lost' = Lost
           /\ \A a \in Stage : Added(pipe, pipe', a) => Lost' = Lost
           /\ \A a \in Stage : Dropped(pipe, pipe', a) =>
                  /\ Head(pipe[a]).slot \notin Slot => Lost' = Lost
                  /\ Lost' \subseteq Lost \union {Head(pipe[a]).slot}
<1>1. Owner(pipe') = Owner(pipe) => Lost' = Lost
  BY LostOfPipe
<1>2. Owner(pipe) = [t \in Slot |-> Owner(pipe)[t]]
  BY DEF Owner
<1>3. ASSUME pipe' = pipe PROVE Owner(pipe') = Owner(pipe)
  BY <1>3
<1>4. ASSUME NEW a \in Stage, NEW b \in Stage, a # b, Moved(pipe, pipe', a, b)
      PROVE  Lost' = Lost
  <2> DEFINE s == Head(pipe[a]).slot
  <2>1. /\ s \in Slot => /\ Owner(pipe)[s] = SideOf(a)
                         /\ Owner(pipe') = [Owner(pipe) EXCEPT ![s] = SideOf(b)]
        /\ s \notin Slot => Owner(pipe') = Owner(pipe)
    BY <1>4, MovedOwner
  <2>2. SideOf(a) # "none" /\ SideOf(b) # "none"
    BY DEF SideOf
  <2> HIDE DEF s
  <2> QED BY <1>1, <1>2, <2>1, <2>2, LostOfPipe
<1>5. ASSUME NEW a \in Stage, Added(pipe, pipe', a) PROVE Lost' = Lost
  BY <1>1, <1>5, AddedOwner
<1>6. ASSUME NEW a \in Stage, Dropped(pipe, pipe', a)
      PROVE  /\ Head(pipe[a]).slot \notin Slot => Lost' = Lost
             /\ Lost' \subseteq Lost \union {Head(pipe[a]).slot}
  <2> DEFINE s == Head(pipe[a]).slot
  <2>1. /\ s \in Slot => Owner(pipe') = [Owner(pipe) EXCEPT ![s] = "none"]
        /\ s \notin Slot => Owner(pipe') = Owner(pipe)
    BY <1>6, DroppedOwner
  <2> HIDE DEF s
  <2>2. s \notin Slot => Lost' = Lost
    BY <1>1, <2>1
  <2>3. Lost' \subseteq Lost \union {s}
    BY <1>2, <2>1, <2>2, LostOfPipe
  <2> QED BY <2>2, <2>3 DEF s
<1> QED BY <1>1, <1>3, <1>4, <1>5, <1>6

(* A slot more is lost at most when one drops out.                         *)
LEMMA LostCount ==
    /\ IsFiniteSet(Lost) /\ Cardinality(Lost) \in Nat
    /\ \A x : Lost' \subseteq Lost \union {x} =>
           Cardinality(Lost') \in Nat /\ Cardinality(Lost') <= Cardinality(Lost) + 1
    /\ Lost' = Lost => Cardinality(Lost') = Cardinality(Lost)
<1>1. IsFiniteSet(Slot)
  <2>1. 0 \in Int /\ N - 1 \in Int
    OBVIOUS
  <2> QED BY <2>1, FS_Interval, Zenon DEF Slot
<1>2. IsFiniteSet(Lost) /\ Cardinality(Lost) \in Nat
  BY <1>1, FS_Subset, FS_CardinalityType DEF Lost
<1>3. ASSUME NEW x, Lost' \subseteq Lost \union {x}
      PROVE  Cardinality(Lost') \in Nat /\ Cardinality(Lost') <= Cardinality(Lost) + 1
  <2>1. IsFiniteSet(Lost \union {x}) /\ Cardinality(Lost \union {x}) \in Nat
    BY <1>2, FS_AddElement, FS_CardinalityType
  <2>2. Cardinality(Lost \union {x}) <= Cardinality(Lost) + 1
    BY <1>2, FS_AddElement
  <2>3. Cardinality(Lost') \in Nat /\ Cardinality(Lost') <= Cardinality(Lost \union {x})
    BY <1>3, <2>1, FS_Subset, FS_CardinalityType
  <2> QED BY <1>2, <2>1, <2>2, <2>3
<1> QED BY <1>2, <1>3
-----------------------------------------------------------------------------
(* The slot shown last is offered for drawing again only when all others   *)
(* are lost.                                                               *)
LEMMA ShownIsAlone ==
    ASSUME TypeOK, Rotation, current_slot = NoSlot, last_slot # NoSlot,
           client_queue # <<>>, Head(client_queue).slot = last_slot
    PROVE  Cardinality(Lost) >= N - 1
<1>1. AtBack(pipe, last_slot)
  BY DEF Rotation
<1>2. /\ pipe["client_queue"] = client_queue /\ "client_queue" \in Stage
      /\ 1 \in DOMAIN client_queue /\ client_queue[1].slot = last_slot
      /\ pipe["current_slot"] = <<>>
      /\ DOMAIN client_queue = 1 .. Len(client_queue)
  BY DEF pipe, Stage, TypeOK, Single
<1>3. ASSUME NEW c \in Stage, NEW i \in DOMAIN pipe[c], pipe[c][i].slot # NoSlot
      PROVE  pipe[c][i].slot = last_slot
  <2>1. \/ Rank["client_queue"] < Rank[c]
        \/ c = "client_queue" /\ i <= 1
    BY <1>1, <1>2, <1>3 DEF AtBack
  <2>2. CASE Rank["client_queue"] < Rank[c]
    <3>1. c = "current_slot"
      BY <2>2, RankType DEF Stage
    <3> QED BY <1>2, <1>3, <3>1
  <2>3. CASE c = "client_queue" /\ i <= 1
    <3>1. i = 1
      BY <1>2, <1>3, <2>3
    <3> QED BY <1>2, <2>3, <3>1
  <2> QED BY <2>1, <2>2, <2>3
<1>4. \A s \in Slot \ {last_slot}, c \in Stage : s \notin SlotsIn(pipe[c])
  BY <1>3 DEF SlotsIn
<1>5. Slot \ {last_slot} \subseteq Lost
  BY <1>4, LostOfPipe DEF Owner, Stage, ClientStage, ServerStage
<1>6. last_slot \in Slot
  BY DEF TypeOK
<1>7. IsFiniteSet(Slot) /\ Cardinality(Slot) = N
  <2>1. 0 \in Int /\ N - 1 \in Int
    OBVIOUS
  <2>2. /\ IsFiniteSet(0 .. N - 1)
        /\ Cardinality(0 .. N - 1) = IF 0 > N - 1 THEN 0 ELSE (N - 1) - 0 + 1
    BY <2>1, FS_Interval, Zenon
  <2> QED BY <2>2 DEF Slot
<1>8. Cardinality(Slot \ {last_slot}) = N - 1
  BY <1>6, <1>7, FS_RemoveElement
<1>9. Cardinality(Slot \ {last_slot}) <= Cardinality(Lost)
  BY <1>5, LostCount, FS_Subset
<1> QED BY <1>8, <1>9, LostCount

(* Failed calls are counted, and the handshake stays the first task.       *)
LEMMA HandshakenBefore ==
    ASSUME TypeOK, TypeOK', [Next]_vars, ~ClientSendsHandshake
    PROVE  faults \in Nat /\ faults' \in Nat /\ faults <= faults'
           /\ (Handshaken' => Handshaken)
<1>1. faults \in Nat /\ faults' \in Nat
  BY DEF TypeOK
<1>2. faults' = faults \/ faults' = faults + 1
  BY DEF Next, Draw, DrawFails, ClientBus, ServerBus, Run, vars, Fault,
         DrawCopy, DrawCached, DrawAborts, EndCommandBufferFails, ExportFails,
         ClientSendsHandshake, ClientSendsFrame, ClientSendFails,
         ClientImports, ClientReceivesFrame, ServerConnects,
         ServerReceivesFrame, ServerSends, ServerSendFails, RunStarts,
         RunSendsDmabuf, RunWaits, WaitTimesOut, RunFindsNothing, RunAcquires,
         RunGivesUpWait, RunRenders, RunResizes, RunExportFails, CopyDone,
         RenderingDone
<1>3. ASSUME ~Handshaken PROVE ~Handshaken'
  <2>1. client_work # <<>> /\ Head(client_work).kind = "on_connect"
    BY <1>3 DEF Handshaken
  <2>2. client_work' = client_work \/ DrawCopy
    BY <2>1
    DEF Next, Draw, DrawFails, ClientBus, ServerBus, Run, vars,
        DrawCached, DrawAborts, EndCommandBufferFails, ExportFails,
        ClientSendsFrame, ClientSendFails, ClientImports, ClientReceivesFrame,
        ServerConnects, ServerReceivesFrame, ServerSends, ServerSendFails,
        RunStarts, RunSendsDmabuf, RunWaits, WaitTimesOut, RunFindsNothing,
        RunAcquires, RunGivesUpWait, RunRenders, RunResizes, RunExportFails,
        CopyDone, RenderingDone
  <2>3. CASE DrawCopy
    <3>1. client_work' = Append(client_work, FrameReady(Drawn))
      BY <2>3 DEF DrawCopy
    <3>2. Drawn \in Slot
      BY <2>3 DEF DrawCopy, Drawing, TypeOK
    <3>3. FrameReady(Drawn) \in ClientMsg
      BY <3>2 DEF FrameReady, ClientMsg
    <3>4. \A q \in Seq(ClientMsg), m \in ClientMsg :
              q # <<>> => Head(Append(q, m)) = Head(q) /\ Append(q, m) # <<>>
      OBVIOUS
    <3>5. Head(client_work') = Head(client_work) /\ client_work' # <<>>
      BY <2>1, <3>1, <3>3, <3>4 DEF TypeOK
    <3> QED BY <2>1, <3>5 DEF Handshaken
  <2> QED BY <2>1, <2>2, <2>3 DEF Handshaken
<1> QED BY <1>1, <1>2, <1>3

(* What a step costs, in slots lost and about to be lost.                  *)
LEMMA LossesStep ==
    ASSUME TypeOK, TypeOK', SlotInv, LossInv, [Next]_vars
    PROVE  Losses'
<1> DEFINE L == Cardinality(Lost)
           M == Cardinality(Lost')
<1> SUFFICES ASSUME Handshaken', faults' + 2 <= N
             PROVE  M + Pending' <= faults'
  BY DEF Losses
<1>1. (\A c \in Stage : pipe[c] \in Seq(Item)) /\ Unique(pipe)
  BY PipeType DEF SlotInv, OneHolder
<1>2. /\ L \in Nat
      /\ \A x : Lost' \subseteq Lost \union {x} => M \in Nat /\ M <= L + 1
      /\ Lost' = Lost => M = L
  BY LostCount
<1> HIDE DEF L, M
<1>3. Pending \in Nat /\ Pending' \in Nat /\ Pending' <= 1
  BY DEF Pending
<1>4. CASE ClientSendsHandshake
  <2>1. last_slot' = NoSlot
    BY <1>4 DEF ClientSendsHandshake, SlotInv, HandshakeFirst, NoHandshake,
       overlay, TypeOK
  <2>2. Pending' = 0
    BY <2>1 DEF Pending
  <2>3. \A s \in Slot : s \in SlotsIn(pipe'["client_queue"])
    <3> TAKE s \in Slot
    <3> DEFINE all == [i \in 1 .. N |-> [slot |-> i - 1, gen |-> 0]]
    <3>1. s + 1 \in DOMAIN all /\ all[s + 1].slot = s /\ s # NoSlot
      BY DEF Slot, NoSlot
    <3>2. pipe'["client_queue"] = all
      BY <1>4, HandshakePipe
    <3> HIDE DEF all
    <3> QED BY <3>1, <3>2 DEF SlotsIn
  <2>4. Lost' = {}
    BY <2>3, LostOfPipe DEF Owner, ClientStage
  <2>5. M = 0
    BY <2>4, FS_EmptySet DEF M
  <2> QED BY <2>2, <2>5 DEF TypeOK
<1> SUFFICES ASSUME ~ClientSendsHandshake PROVE M + Pending' <= faults'
  BY <1>4
<1>5. /\ faults \in Nat /\ faults' \in Nat /\ faults <= faults'
      /\ L + Pending <= faults /\ faults + 2 <= N
  <2>1. faults \in Nat /\ faults' \in Nat /\ faults <= faults'
    BY HandshakenBefore
  <2>2. faults + 2 <= N
    <3>1. \A f, g, n \in Nat : f <= g /\ g + 2 <= n => f + 2 <= n
      OBVIOUS
    <3>2. N \in Nat
      OBVIOUS
    <3> QED BY <2>1, <3>1, <3>2, Zenon
  <2>3. Handshaken
    BY HandshakenBefore
  <2> QED BY <2>1, <2>2, <2>3 DEF LossInv, Losses, L
<1>6. PipeMoves
  BY StepsOfThePipe
<1>7. /\ pipe' = pipe => Lost' = Lost
      /\ \A a, b \in Stage : a # b /\ Moved(pipe, pipe', a, b) => Lost' = Lost
      /\ \A a \in Stage : Added(pipe, pipe', a) => Lost' = Lost
      /\ \A a \in Stage : Dropped(pipe, pipe', a) =>
             /\ Head(pipe[a]).slot \notin Slot => Lost' = Lost
             /\ M \in Nat /\ M <= L + 1
  BY <1>1, <1>2, LostByStep
<1>8. last_slot # NoSlot /\ current_slot = NoSlot /\ client_queue # <<>>
          => Head(client_queue).slot # last_slot
  <2>1. L < N - 1
    BY <1>2, <1>3, <1>5
  <2> QED BY <1>2, <2>1, ShownIsAlone DEF LossInv, L
<1>9. CASE DrawCopy
  <2>1. Lost' = Lost
    BY <1>6, <1>7, <1>9 DEF PipeMoves, Stage
  <2>2. Pending' = 0
    BY <1>9 DEF DrawCopy, Pending
  <2> QED BY <1>2, <1>3, <1>5, <2>1, <2>2
<1>10. CASE DrawCached
  <2>1. current_slot' = NoSlot /\ NextFrame /\ faults' = faults
    BY <1>10 DEF DrawCached
  <2>2. Pending' = 0
    BY <2>1 DEF Pending
  <2>3. CASE pipe' = pipe
    BY <1>2, <1>3, <1>5, <1>7, <2>2, <2>3
  <2>4. CASE Dropped(pipe, pipe', "current_slot")
             /\ Head(pipe["current_slot"]).slot = last_slot
    <3>1. current_slot = last_slot /\ last_slot # NoSlot
      BY <2>4 DEF Dropped, pipe, Single
    <3>2. Pending = 1
      BY <3>1 DEF Pending
    <3>3. M \in Nat /\ M <= L + 1
      BY <1>7, <2>4 DEF Stage
    <3> QED BY <1>2, <1>5, <2>2, <3>2, <3>3
  <2>5. CASE Dropped(pipe, pipe', "client_queue")
             /\ Head(pipe["client_queue"]).slot = last_slot
    <3>1. client_queue # <<>> /\ client_queue' = Tail(client_queue)
          /\ Head(client_queue).slot = last_slot
      BY <2>5 DEF Dropped, pipe
    <3>2. client_queue' # client_queue
      <4>1. Len(Tail(client_queue)) # Len(client_queue)
        BY <3>1, HeadTailProperties DEF TypeOK
      <4> QED BY <3>1, <4>1
    <3>3. current_slot = NoSlot /\ last_slot # NoSlot
      BY <2>1, <3>1, <3>2, HeldSlot DEF Slot, NoSlot
    <3> QED BY <1>8, <3>1, <3>3
  <2> QED BY <1>6, <1>10, <2>3, <2>4, <2>5 DEF PipeMoves
<1>11. CASE DrawAborts
  <2>1. Lost' = Lost
    BY <1>6, <1>7, <1>11 DEF PipeMoves, Stage
  <2>2. /\ NextFrame /\ current_slot' = Held /\ last_slot' = last_slot
        /\ faults' = faults
    BY <1>11 DEF DrawAborts
  <2>3. CASE CanTake
    <3>1. Held # last_slot \/ last_slot = NoSlot
      BY <1>8, <2>2, <2>3, HeldSlot
    <3>2. Pending' = 0
      BY <2>2, <3>1 DEF Pending
    <3> QED BY <1>2, <1>3, <1>5, <2>1, <3>2
  <2>4. CASE ~CanTake
    <3>1. Pending' = Pending
      BY <2>2, <2>4 DEF Held, Pending
    <3> QED BY <1>2, <1>3, <1>5, <2>1, <3>1
  <2> QED BY <2>3, <2>4
<1>12. CASE EndCommandBufferFails
  <2>1. Lost' = Lost
    BY <1>6, <1>7, <1>12 DEF PipeMoves, Stage
  <2>2. faults' = faults + 1
    BY <1>12 DEF EndCommandBufferFails, Fault
  <2>3. L <= faults /\ M = L
    BY <1>2, <1>3, <1>5, <2>1
  <2>4. \A l, x, f \in Nat : l <= f /\ x <= 1 => l + x <= f + 1
    OBVIOUS
  <2> QED BY <1>2, <1>3, <1>5, <2>2, <2>3, <2>4
<1>13. CASE ExportFails
  <2>1. M \in Nat /\ M <= L + 1
    BY <1>6, <1>7, <1>13 DEF PipeMoves, Stage
  <2>2. faults' = faults + 1 /\ current_slot' = NoSlot
    BY <1>13 DEF ExportFails, Fault
  <2>3. Pending' = 0
    BY <2>2 DEF Pending
  <2> QED BY <1>2, <1>3, <1>5, <2>1, <2>2, <2>3
<1>14. CASE ClientImports
  <2>1. Lost' = Lost
    <3>1. Dropped(pipe, pipe', "to_client") /\ Head(pipe["to_client"]).slot = NoSlot
      BY <1>6, <1>14 DEF PipeMoves
    <3> QED BY <1>7, <3>1 DEF Stage, Slot, NoSlot
  <2>2. Pending' = 0
    BY <1>14 DEF ClientImports, Pending
  <2> QED BY <1>2, <1>3, <1>5, <2>1, <2>2
<1>15. CASE ClientSendFails \/ ServerSendFails \/ RunExportFails
  <2>1. Lost' = Lost \/ (M \in Nat /\ M <= L + 1)
    BY <1>6, <1>7, <1>15 DEF PipeMoves, Stage
  <2>2. faults' = faults + 1 /\ Pending' = Pending
    BY <1>15 DEF ClientSendFails, ServerSendFails, RunExportFails, Fault,
       overlay, Pending
  <2> QED BY <1>2, <1>3, <1>5, <2>1, <2>2
<1>16. CASE ServerConnects
  <2>1. Lost' = Lost
    <3>1. Head(to_server) \in ClientMsg /\ Head(to_server).kind = "on_connect"
      BY <1>16, HeadTailProperties DEF ServerConnects, TypeOK
    <3>2. Head(to_server).slot = NoSlot /\ pipe["to_server"] = to_server
      BY <3>1 DEF ClientMsg, pipe
    <3>3. Dropped(pipe, pipe', "to_server")
      BY <1>6, <1>16 DEF PipeMoves
    <3> QED BY <1>7, <3>2, <3>3 DEF Stage, Slot, NoSlot
  <2>2. Pending' = Pending
    BY <1>16 DEF ServerConnects, overlay, Pending
  <2> QED BY <1>2, <1>3, <1>5, <2>1, <2>2
<1>17. CASE \/ ClientSendsFrame \/ ClientReceivesFrame \/ ServerReceivesFrame
            \/ ServerSends \/ RunAcquires \/ RunGivesUpWait \/ RunRenders
            \/ RunSendsDmabuf
  <2>1. Lost' = Lost
    BY <1>6, <1>7, <1>17 DEF PipeMoves, Stage
  <2>2. Pending' = Pending
    BY <1>17 DEF ClientSendsFrame, ClientReceivesFrame, ServerReceivesFrame,
       ServerSends, RunAcquires, RunGivesUpWait, RunRenders, RunSendsDmabuf,
       overlay, Pending
  <2> QED BY <1>2, <1>3, <1>5, <2>1, <2>2
<1>18. CASE Idle
  <2>1. Lost' = Lost
    BY <1>7, <1>18, IdlePipe
  <2>2. Pending' = Pending
    BY <1>18 DEF Idle, RunStarts, RunWaits, WaitTimesOut, RunFindsNothing,
       RunResizes, CopyDone, RenderingDone, vars, overlay, Pending
  <2> QED BY <1>2, <1>3, <1>5, <2>1, <2>2
<1> QED
  BY <1>9, <1>10, <1>11, <1>12, <1>13, <1>14, <1>15, <1>16, <1>17, <1>18
  DEF Next, Draw, DrawFails, ClientBus, ServerBus, Run, Idle

(* While two slots are left, no slot is lost but to a failed call, and     *)
(* each failed call costs one at most: draws that find their frame cached  *)
(* drop nothing, because the slot shown comes round after all others.      *)
THEOREM LostOnlyByFaultsCorrect == Spec => []LostOnlyByFaults
<1>1. Init => LossInv
  BY DEF Init, LossInv, Rotation, Losses, Handshaken
<1>2. TypeOK /\ TypeOK' /\ SlotInv /\ LossInv /\ [Next]_vars => LossInv'
  BY RotationStep, LossesStep DEF LossInv
<1>3. TypeOK /\ LossInv => LostOnlyByFaults
  BY LostCount DEF TypeOK, LossInv, Losses, LostOnlyByFaults, Pending
<1> QED BY TypeCorrect, SlotInvariant, <1>1, <1>2, <1>3, PTL DEF Spec
=============================================================================
