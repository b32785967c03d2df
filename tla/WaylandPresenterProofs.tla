----------------------- MODULE WaylandPresenterProofs -----------------------
(***************************************************************************)
(* Theorems about WaylandPresenter for any number of buffers, resizes,     *)
(* lost connections and surfaces: the server does not draw into what the   *)
(* compositor reads unless slots were handed out twice, no slot gets lost  *)
(* once the current buffers are imported, and no set of buffers is missed. *)
(***************************************************************************)
EXTENDS WaylandPresenter, SequenceTheorems, TLAPS

USE SizeAssumption, BoundsAssumption DEF SizeAssumption, BoundsAssumption
-----------------------------------------------------------------------------
(* Queues without repetition.                                              *)

LEMMA RangeMembers ==
    ASSUME NEW S, NEW q \in Seq(S)
    PROVE  /\ Len(q) \in Nat /\ DOMAIN q = 1 .. Len(q)
           /\ \A i \in DOMAIN q : q[i] \in S /\ q[i] \in Range(q)
           /\ \A x \in Range(q) : x \in S /\ \E i \in DOMAIN q : q[i] = x
  BY DEF Range

LEMMA EmptyQueue == Range(<<>>) = {} /\ IsInjective(<<>>)
  BY DEF Range, IsInjective

LEMMA QueueAppend ==
    ASSUME NEW S, NEW q \in Seq(S), NEW x \in S
    PROVE  /\ Append(q, x) \in Seq(S) /\ Range(Append(q, x)) = Range(q) \union {x}
           /\ IsInjective(q) /\ x \notin Range(q) => IsInjective(Append(q, x))
<1> DEFINE r == Append(q, x)
<1>1. /\ Len(q) \in Nat /\ DOMAIN q = 1 .. Len(q)
      /\ r \in Seq(S) /\ DOMAIN r = 1 .. Len(q) + 1
      /\ (\A i \in 1 .. Len(q) : r[i] = q[i]) /\ r[Len(q) + 1] = x
  OBVIOUS
<1> HIDE DEF r
<1>2. Range(r) = Range(q) \union {x}
  <2>1. \A i \in 1 .. Len(q) + 1 : i \in 1 .. Len(q) \/ i = Len(q) + 1
    BY <1>1
  <2>2. \A i \in 1 .. Len(q) : i \in 1 .. Len(q) + 1
    BY <1>1
  <2>3. Len(q) + 1 \in 1 .. Len(q) + 1
    BY <1>1
  <2>4. \A i \in DOMAIN r : r[i] \in Range(q) \union {x}
    BY <1>1, <2>1 DEF Range
  <2>5. \A y \in Range(q) \union {x} : \E i \in DOMAIN r : r[i] = y
    BY <1>1, <2>2, <2>3 DEF Range
  <2> QED BY <2>4, <2>5 DEF Range
<1>3. ASSUME IsInjective(q), x \notin Range(q) PROVE IsInjective(r)
  BY <1>1, <1>3 DEF IsInjective, Range
<1> QED BY <1>1, <1>2, <1>3 DEF r

LEMMA QueueTail ==
    ASSUME NEW S, NEW q \in Seq(S), q # <<>>
    PROVE  /\ Head(q) \in S /\ Tail(q) \in Seq(S)
           /\ Range(q) = {Head(q)} \union Range(Tail(q))
           /\ IsInjective(q) =>
                  IsInjective(Tail(q)) /\ Head(q) \notin Range(Tail(q))
<1> DEFINE r == Tail(q)
<1>1. /\ Len(q) \in Nat \ {0} /\ DOMAIN q = 1 .. Len(q)
      /\ r \in Seq(S) /\ DOMAIN r = 1 .. Len(q) - 1
      /\ (\A i \in 1 .. Len(q) - 1 : r[i] = q[i + 1]) /\ q[1] = Head(q)
      /\ Head(q) \in S
  OBVIOUS
<1> HIDE DEF r
<1>2. Range(q) = {Head(q)} \union Range(r)
  <2>1. \A i \in DOMAIN q : i # 1 => i - 1 \in DOMAIN r /\ (i - 1) + 1 = i
    BY <1>1
  <2>2. \A i \in DOMAIN r : i + 1 \in DOMAIN q
    BY <1>1
  <2>3. \A i \in DOMAIN q : q[i] \in {Head(q)} \union Range(r)
    BY <1>1, <2>1 DEF Range
  <2>4. \A y \in {Head(q)} \union Range(r) : \E i \in DOMAIN q : q[i] = y
    BY <1>1, <2>2 DEF Range
  <2> QED BY <2>3, <2>4 DEF Range
<1>3. ASSUME IsInjective(q) PROVE IsInjective(r) /\ Head(q) \notin Range(r)
  <2>1. \A i \in DOMAIN r : i + 1 \in DOMAIN q /\ i + 1 # 1 /\ r[i] = q[i + 1]
    BY <1>1
  <2>2. IsInjective(r)
    <3> SUFFICES ASSUME NEW i \in DOMAIN r, NEW j \in DOMAIN r, r[i] = r[j]
                 PROVE  i = j
      BY DEF IsInjective
    <3>1. i + 1 = j + 1
      BY <1>3, <2>1 DEF IsInjective
    <3> QED BY <1>1, <3>1
  <2>3. \A i \in DOMAIN r : r[i] # q[1]
    BY <1>1, <1>3, <2>1 DEF IsInjective
  <2> QED BY <1>1, <2>2, <2>3 DEF Range
<1> QED BY <1>1, <1>2, <1>3 DEF r

LEMMA QueueJoin ==
    ASSUME NEW S, NEW p \in Seq(S), NEW q \in Seq(S)
    PROVE  /\ p \o q \in Seq(S) /\ Range(p \o q) = Range(p) \union Range(q)
           /\ IsInjective(p) /\ IsInjective(q) /\ Range(p) \intersect Range(q) = {}
                  => IsInjective(p \o q)
<1> DEFINE r == p \o q
<1>1. /\ Len(p) \in Nat /\ DOMAIN p = 1 .. Len(p)
      /\ Len(q) \in Nat /\ DOMAIN q = 1 .. Len(q)
      /\ r \in Seq(S) /\ DOMAIN r = 1 .. Len(p) + Len(q)
      /\ \A i \in 1 .. Len(p) : r[i] = p[i]
      /\ \A i \in Len(p) + 1 .. Len(p) + Len(q) : r[i] = q[i - Len(p)]
  OBVIOUS
<1> HIDE DEF r
<1>2. \A i \in DOMAIN r : \/ i \in DOMAIN p /\ r[i] = p[i]
                          \/ i - Len(p) \in DOMAIN q /\ r[i] = q[i - Len(p)]
                             /\ i \notin DOMAIN p
  BY <1>1
<1>3. \A i \in DOMAIN p : i \in DOMAIN r /\ r[i] = p[i]
  BY <1>1
<1>4. \A i \in DOMAIN q : i + Len(p) \in DOMAIN r /\ r[i + Len(p)] = q[i]
  <2> TAKE i \in DOMAIN q
  <2>1. i + Len(p) \in Len(p) + 1 .. Len(p) + Len(q) /\ (i + Len(p)) - Len(p) = i
    BY <1>1
  <2>2. i + Len(p) \in 1 .. Len(p) + Len(q)
    BY <1>1
  <2> QED BY <1>1, <2>1, <2>2
<1>5. Range(r) = Range(p) \union Range(q)
  BY <1>2, <1>3, <1>4 DEF Range
<1>6. ASSUME IsInjective(p), IsInjective(q), Range(p) \intersect Range(q) = {}
      PROVE  IsInjective(r)
  <2> SUFFICES ASSUME NEW i \in DOMAIN r, NEW j \in DOMAIN r, r[i] = r[j]
               PROVE  i = j
    BY DEF IsInjective
  <2>1. CASE i \in DOMAIN p /\ j \in DOMAIN p
    BY <1>3, <1>6, <2>1 DEF IsInjective
  <2>2. CASE i \notin DOMAIN p /\ j \notin DOMAIN p
    <3>1. i - Len(p) = j - Len(p)
      BY <1>2, <1>6, <2>2 DEF IsInjective
    <3> QED BY <1>1, <3>1
  <2>3. CASE i \in DOMAIN p /\ j \notin DOMAIN p
    <3>1. r[i] \in Range(p) /\ r[j] \in Range(q)
      BY <1>2, <1>3, <2>3 DEF Range
    <3> QED BY <1>6, <3>1
  <2>4. CASE i \notin DOMAIN p /\ j \in DOMAIN p
    <3>1. r[j] \in Range(p) /\ r[i] \in Range(q)
      BY <1>2, <1>3, <2>4 DEF Range
    <3> QED BY <1>6, <3>1
  <2> QED BY <2>1, <2>2, <2>3, <2>4
<1> QED BY <1>1, <1>5, <1>6 DEF r

LEMMA QueueSuffix ==
    ASSUME NEW S, NEW q \in Seq(S), NEW i \in 1 .. Len(q) + 1
    PROVE  /\ SubSeq(q, i, Len(q)) \in Seq(S)
           /\ Range(SubSeq(q, i, Len(q))) \subseteq Range(q)
           /\ IsInjective(q) => IsInjective(SubSeq(q, i, Len(q)))
<1> DEFINE r == SubSeq(q, i, Len(q))
<1>1. /\ Len(q) \in Nat /\ DOMAIN q = 1 .. Len(q) /\ i \in Nat \ {0}
      /\ r \in Seq(S) /\ DOMAIN r = 1 .. Len(q) - i + 1
      /\ \A k \in 1 .. Len(q) - i + 1 : r[k] = q[i + k - 1]
  OBVIOUS
<1> HIDE DEF r
<1>2. \A k \in DOMAIN r : i + k - 1 \in DOMAIN q /\ r[k] = q[i + k - 1]
  BY <1>1
<1>3. Range(r) \subseteq Range(q)
  BY <1>2 DEF Range
<1>4. ASSUME IsInjective(q) PROVE IsInjective(r)
  <2> SUFFICES ASSUME NEW k \in DOMAIN r, NEW l \in DOMAIN r, r[k] = r[l]
               PROVE  k = l
    BY DEF IsInjective
  <2>1. i + k - 1 = i + l - 1
    BY <1>2, <1>4 DEF IsInjective
  <2> QED BY <1>1, <2>1
<1> QED BY <1>1, <1>3, <1>4 DEF r

LEMMA SlotsInOrder ==
    AllSlots \in Seq(Slot) /\ Range(AllSlots) = Slot /\ IsInjective(AllSlots)
<1>1. /\ DOMAIN AllSlots = 1 .. N /\ N \in Nat
      /\ \A i \in 1 .. N : AllSlots[i] = i - 1 /\ i - 1 \in Slot
  BY DEF AllSlots, Slot
<1>2. AllSlots \in Seq(Slot)
  BY <1>1 DEF AllSlots
<1>3. \A s \in Slot : s + 1 \in 1 .. N /\ AllSlots[s + 1] = s
  BY <1>1 DEF Slot
<1>4. Range(AllSlots) = Slot
  BY <1>1, <1>3 DEF Range
<1>5. IsInjective(AllSlots)
  BY <1>1 DEF IsInjective
<1> QED BY <1>2, <1>4, <1>5
-----------------------------------------------------------------------------
(* The messages to the client.                                             *)

Msg == {FrameMsg(s) : s \in Slot} \union {DmabufMsg(g) : g \in Gen \ {0}}

LEMMA Messages ==
    /\ Slot \subseteq Nat /\ Gen \subseteq Nat /\ 0 \in Gen /\ NoSlot \notin Slot
    /\ \A s \in Slot : /\ FrameMsg(s) \in Msg /\ FrameMsg(s).kind = "frame_ready"
                       /\ FrameMsg(s).slot = s
    /\ \A g \in Gen \ {0} : /\ DmabufMsg(g) \in Msg /\ DmabufMsg(g).kind = "dmabuf"
                            /\ DmabufMsg(g).gen = g
    /\ \A m \in Msg : m.kind = "frame_ready" => m.slot \in Slot /\ m = FrameMsg(m.slot)
    /\ \A m \in Msg : m.kind = "dmabuf" => m.gen \in Gen \ {0} /\ m = DmabufMsg(m.gen)
    /\ \A m \in Msg : m.kind \in {"frame_ready", "dmabuf"}
<1>1. Slot \subseteq Nat /\ Gen \subseteq Nat /\ 0 \in Gen /\ NoSlot \notin Slot
  BY DEF Slot, Gen, NoSlot
<1>2. \A s \in Slot : /\ FrameMsg(s) \in Msg /\ FrameMsg(s).kind = "frame_ready"
                      /\ FrameMsg(s).slot = s
  BY DEF Msg, FrameMsg
<1>3. \A g \in Gen \ {0} : /\ DmabufMsg(g) \in Msg /\ DmabufMsg(g).kind = "dmabuf"
                           /\ DmabufMsg(g).gen = g
  BY DEF Msg, DmabufMsg
<1>4. \A m \in Msg : \/ \E s \in Slot : m = FrameMsg(s)
                     \/ \E g \in Gen \ {0} : m = DmabufMsg(g)
  BY DEF Msg
<1> QED BY <1>1, <1>2, <1>3, <1>4

(* The slots of the frames in a queue of messages.                         *)
FramesIn(q) ==
    {q[i].slot : i \in {j \in DOMAIN q : q[j].kind = "frame_ready"}}

LEMMA FramesInRange ==
    ASSUME NEW q \in Seq(Msg)
    PROVE  FramesIn(q) = {s \in Slot : FrameMsg(s) \in Range(q)}
<1>1. ASSUME NEW i \in DOMAIN q, q[i].kind = "frame_ready"
      PROVE  q[i].slot \in Slot /\ FrameMsg(q[i].slot) \in Range(q)
  <2>1. q[i] \in Msg /\ q[i] \in Range(q)
    BY RangeMembers
  <2> QED BY <1>1, <2>1, Messages
<1>2. ASSUME NEW s \in Slot, FrameMsg(s) \in Range(q)
      PROVE  s \in FramesIn(q)
  <2>1. PICK i \in DOMAIN q : q[i] = FrameMsg(s)
    BY <1>2 DEF Range
  <2> QED BY <2>1, Messages DEF FramesIn
<1> QED BY <1>1, <1>2 DEF FramesIn

(* The announcements in a queue ascend, beyond lo and up to hi.            *)
Ascending(q, lo, hi) ==
    /\ \A i \in DOMAIN q : q[i].kind = "dmabuf" => lo < q[i].gen /\ q[i].gen <= hi
    /\ \A i, j \in DOMAIN q :
           i < j /\ q[i].kind = "dmabuf" /\ q[j].kind = "dmabuf" =>
               q[i].gen < q[j].gen

LEMMA AscendingTail ==
    ASSUME NEW q \in Seq(Msg), q # <<>>, NEW lo \in Nat, NEW hi \in Nat,
           Ascending(q, lo, hi)
    PROVE  /\ Ascending(Tail(q), lo, hi)
           /\ Head(q).kind = "dmabuf" =>
                  /\ lo < Head(q).gen /\ Head(q).gen <= hi
                  /\ Ascending(Tail(q), Head(q).gen, hi)
<1> DEFINE r == Tail(q)
<1>1. /\ Len(q) \in Nat \ {0} /\ DOMAIN q = 1 .. Len(q)
      /\ DOMAIN r = 1 .. Len(q) - 1
      /\ (\A i \in 1 .. Len(q) - 1 : r[i] = q[i + 1]) /\ q[1] = Head(q)
  OBVIOUS
<1> HIDE DEF r
<1>2. 1 \in DOMAIN q /\ \A i \in DOMAIN r : i + 1 \in DOMAIN q /\ 1 < i + 1
                                           /\ r[i] = q[i + 1]
  BY <1>1
<1>3. \A i, j \in DOMAIN r : i < j => i + 1 < j + 1
  BY <1>1
<1>4. Ascending(r, lo, hi)
  BY <1>2, <1>3 DEF Ascending
<1>5. ASSUME Head(q).kind = "dmabuf"
      PROVE  /\ lo < Head(q).gen /\ Head(q).gen <= hi
             /\ Ascending(r, Head(q).gen, hi)
  BY <1>1, <1>2, <1>3, <1>5 DEF Ascending
<1> QED BY <1>4, <1>5 DEF r

LEMMA AscendingAppend ==
    ASSUME NEW q \in Seq(Msg), NEW lo \in Nat, NEW hi \in Nat, lo <= hi,
           Ascending(q, lo, hi)
    PROVE  /\ \A s \in Slot : Ascending(Append(q, FrameMsg(s)), lo, hi)
           /\ hi + 1 \in Gen => Ascending(Append(q, DmabufMsg(hi + 1)), lo, hi + 1)
<1>1. ASSUME NEW m \in Msg
      PROVE  /\ Len(q) \in Nat /\ DOMAIN q = 1 .. Len(q)
             /\ DOMAIN Append(q, m) = 1 .. Len(q) + 1
             /\ \A i \in 1 .. Len(q) : Append(q, m)[i] = q[i] /\ i < Len(q) + 1
             /\ Append(q, m)[Len(q) + 1] = m
  OBVIOUS
<1>2. ASSUME NEW s \in Slot PROVE Ascending(Append(q, FrameMsg(s)), lo, hi)
  <2> DEFINE r == Append(q, FrameMsg(s))
  <2>1. FrameMsg(s) \in Msg /\ FrameMsg(s).kind # "dmabuf"
    BY Messages
  <2>2. \A i \in DOMAIN r : r[i].kind = "dmabuf" => i \in DOMAIN q /\ r[i] = q[i]
    BY <1>1, <2>1
  <2> HIDE DEF r
  <2>3. Ascending(r, lo, hi)
    BY <2>2 DEF Ascending
  <2> QED BY <2>3 DEF r
<1>3. ASSUME hi + 1 \in Gen
      PROVE  Ascending(Append(q, DmabufMsg(hi + 1)), lo, hi + 1)
  <2> DEFINE r == Append(q, DmabufMsg(hi + 1))
  <2>1. DmabufMsg(hi + 1) \in Msg /\ DmabufMsg(hi + 1).gen = hi + 1
    BY <1>3, Messages
  <2>2. \A i \in DOMAIN r :
            \/ i \in DOMAIN q /\ r[i] = q[i] /\ i < Len(q) + 1
            \/ i = Len(q) + 1 /\ r[i] = DmabufMsg(hi + 1)
    BY <1>1, <2>1
  <2>3. /\ Len(q) \in Nat /\ DOMAIN q = 1 .. Len(q)
        /\ \A i \in DOMAIN q : q[i] \in Msg
    OBVIOUS
  <2>4. \A i \in DOMAIN q : q[i].kind = "dmabuf" => q[i].gen \in Nat
    BY <2>3, Messages
  <2> HIDE DEF r
  <2>5. ASSUME NEW i \in DOMAIN r, r[i].kind = "dmabuf"
        PROVE  lo < r[i].gen /\ r[i].gen <= hi + 1
    BY <2>1, <2>2, <2>4, <2>5 DEF Ascending
  <2>6. ASSUME NEW i \in DOMAIN r, NEW j \in DOMAIN r, i < j,
               r[i].kind = "dmabuf", r[j].kind = "dmabuf"
        PROVE  r[i].gen < r[j].gen
    <3>1. i \in DOMAIN q /\ r[i] = q[i]
      BY <2>2, <2>3, <2>6
    <3>2. CASE j \in DOMAIN q /\ r[j] = q[j]
      BY <2>6, <3>1, <3>2 DEF Ascending
    <3>3. CASE r[j] = DmabufMsg(hi + 1)
      BY <2>1, <2>4, <2>6, <3>1, <3>3 DEF Ascending
    <3> QED BY <2>2, <3>2, <3>3
  <2>7. Ascending(r, lo, hi + 1)
    BY <2>5, <2>6 DEF Ascending
  <2> QED BY <2>7 DEF r
<1> QED BY <1>2, <1>3
-----------------------------------------------------------------------------
(* Types.                                                                  *)

(* A generation for every connection and every resize.                     *)
Counted == generation = resizes + losses + (IF bus = "up" THEN 1 ELSE 0)
Typed == TypeOK /\ sent \in Seq(Msg) /\ Counted

(* What TypeOK says of the messages follows from their being messages.     *)
LEMMA SentTyped ==
    ASSUME NEW q \in Seq(Msg)
    PROVE  \A i \in DOMAIN q :
               \/ q[i].kind = "dmabuf" /\ q[i].gen \in Gen
               \/ q[i].kind = "frame_ready" /\ q[i].slot \in Slot
<1>1. \A m \in Msg : \/ m.kind = "dmabuf" /\ m.gen \in Gen
                     \/ m.kind = "frame_ready" /\ m.slot \in Slot
  BY Messages
<1>2. \A i \in DOMAIN q : q[i] \in Msg
  BY RangeMembers
<1> QED BY <1>1, <1>2

LEMMA GivenBack ==
    ASSUME returned \in Seq(Slot), NEW slots \in Seq(Slot)
    PROVE  /\ GiveBack(slots) \in Seq(Slot)
           /\ connected => Range(GiveBack(slots)) = Range(returned) \union Range(slots)
           /\ ~connected => GiveBack(slots) = returned
BY QueueJoin DEF GiveBack

LEMMA Dispatched ==
    ASSUME returned \in Seq(Slot), events \in Seq(Slot), busy \subseteq Slot,
           DispatchEvents
    PROVE  /\ returned' \in Seq(Slot) /\ busy' \subseteq Slot /\ events' = <<>>
           /\ busy' = busy \ Range(events)
           /\ connected => Range(returned') = Range(returned) \union Range(events)
           /\ ~connected => returned' = returned
BY GivenBack DEF DispatchEvents

LEMMA InitTyped == Init => Typed
<1> SUFFICES ASSUME Init PROVE Typed
  OBVIOUS
<1>1. 0 \in Gen /\ <<>> \in Seq(Slot) /\ <<>> \in Seq(Msg)
  BY DEF Gen
<1>2. Counted
  BY DEF Init, Counted
<1>3. TypeOK
  <2>1. /\ 0 \in 0 .. MaxResizes /\ 0 \in 0 .. MaxUpsets /\ 1 \in 1 .. MaxUpsets + 1
        /\ DOMAIN <<>> = {}
    OBVIOUS
  <2> QED BY <1>1, <2>1 DEF Init, TypeOK
<1> QED BY <1>1, <1>2, <1>3 DEF Init, Typed

(* There is a generation left for the next connection and the next resize. *)
LEMMA NextGeneration ==
    ASSUME Typed, bus # "up" \/ resizes < MaxResizes
    PROVE  generation + 1 \in Gen \ {0}
<1>1. /\ resizes \in 0 .. MaxResizes /\ losses \in 0 .. MaxUpsets
      /\ generation = resizes + losses + (IF bus = "up" THEN 1 ELSE 0)
  BY DEF Typed, TypeOK, Counted
<1> QED BY <1>1 DEF Gen

LEMMA TypeStep == Typed /\ [Next]_vars => Typed'
<1> SUFFICES ASSUME Typed, [Next]_vars PROVE Typed'
  OBVIOUS
<1> USE DEF Typed, TypeOK, Counted
<1>0. /\ 0 \in Gen /\ \A g \in 0 .. MaxResizes + MaxUpsets + 1 : g \in Gen
      /\ \A g \in Gen : g \in Nat
      /\ \A s \in Slot, g \in Gen : g # 0 => [slot |-> s, gen |-> g] \in Buffer
      /\ <<>> \in Seq(Slot)
  BY DEF Gen, Buffer
<1>1. CASE Joins
  <2>1. generation + 1 \in Gen \ {0}
    BY <1>1, NextGeneration DEF Joins
  <2>2. frame_queue' \in Seq(Slot)
    BY <1>1, SlotsInOrder, QueueJoin DEF Joins
  <2>3. sent' \in Seq(Msg)
    BY <1>1, <2>1, Messages DEF Joins
  <2>4. Counted'
    BY <1>1 DEF Joins, counters
  <2> HIDE DEF Counted
  <2> QED BY <1>1, <2>1, <2>2, <2>3, <2>4, SentTyped
          DEF Joins, surface, thread, compositor, counters
<1>2. CASE Disconnects
  <2>1. returned' \in Seq(Slot)
    BY <1>2, QueueSuffix DEF Disconnects
  <2> QED BY <1>2, <2>1 DEF Disconnects, ipc, surface, thread, compositor
<1>3. CASE Reconnects
  BY <1>3 DEF Reconnects, ipc, surface, thread, compositor, server, counters
<1>4. CASE on_dmabuf
  <2>1. sent' \in Seq(Msg) /\ Head(sent) \in Msg
    BY <1>4, QueueTail DEF on_dmabuf
  <2>2. Head(sent).gen \in Gen
    BY <1>4, <2>1, Messages DEF on_dmabuf
  <2> QED BY <1>4, <2>1, <2>2, SentTyped
          DEF on_dmabuf, surface, thread, compositor, counters
<1>5. CASE on_frame
  <2>1. sent' \in Seq(Msg) /\ Head(sent) \in Msg
    BY <1>5, QueueTail DEF on_frame
  <2>2. Head(sent).slot \in Slot
    BY <1>5, <2>1, Messages DEF on_frame
  <2>3. frame_queue' \in Seq(Slot)
    BY <1>5, <2>2, QueueAppend DEF on_frame
  <2> QED BY <1>5, <2>1, <2>3, SentTyped
          DEF on_frame, surface, thread, compositor, counters
<1>6. CASE Acquires
  <2>1. returned' \in Seq(Slot) /\ Head(returned) \in Slot
    BY <1>6, QueueTail DEF Acquires
  <2> QED BY <1>6, <2>1 DEF Acquires, ipc, surface, thread, compositor, counters
<1>7. CASE Renders
  <2>1. sent' \in Seq(Msg)
    BY <1>7, Messages, QueueAppend DEF Renders
  <2> QED BY <1>7, <2>1, SentTyped
          DEF Renders, ipc, surface, thread, compositor, counters
<1>8. CASE Resizes
  <2>1. generation + 1 \in Gen \ {0}
    BY <1>8, NextGeneration DEF Resizes
  <2>2. sent' \in Seq(Msg)
    BY <1>8, <2>1, Messages, QueueAppend DEF Resizes
  <2>3. Counted'
    BY <1>8 DEF Resizes
  <2>4. resizes' \in 0 .. MaxResizes
    BY <1>8 DEF Resizes
  <2> HIDE DEF Counted
  <2> QED BY <1>8, <2>1, <2>2, <2>3, <2>4, SentTyped
          DEF Resizes, ipc, surface, thread, compositor
<1>9. CASE Releases
  <2>1. PICK b \in held \ {shown} :
            /\ held' = held \ {b}
            /\ events' = IF b.gen = buffers THEN Append(events, b.slot) ELSE events
    BY <1>9 DEF Releases
  <2>2. b.slot \in Slot
    BY DEF Buffer
  <2>3. events' \in Seq(Slot)
    BY <2>1, <2>2, QueueAppend
  <2> QED BY <1>9, <2>1, <2>3 DEF Releases, ipc, surface, thread, server, counters
<1>10. CASE WaylandThread
  <2>1. CASE SeesLoss
    BY <1>0, <2>1, Dispatched DEF SeesLoss, ipc, server, counters
  <2>2. CASE detach
    BY <1>0, <2>2 DEF detach, server, counters
  <2>3. CASE SkipsImport
    BY <1>0, <2>3, Dispatched DEF SkipsImport, ipc, server, counters
  <2>4. CASE TakesImport
    BY <1>0, <2>4, Dispatched DEF TakesImport, server, counters
  <2>5. CASE Rebuilds
    <3> DEFINE dispatched == IF attached THEN events ELSE <<>>
    <3>1. dispatched \o AllSlots \in Seq(Slot)
      BY SlotsInOrder, QueueJoin
    <3>2. returned' \in Seq(Slot)
      BY <2>5, <3>1, GivenBack DEF Rebuilds
    <3>3. doubled' \in BOOLEAN
      BY <2>5 DEF Rebuilds
    <3> QED BY <1>0, <2>5, <3>2, <3>3 DEF Rebuilds, server, counters
  <2>6. CASE Presents
    <3>1. Head(frame_queue) \in Slot /\ frame_queue' \in Seq(Slot)
      BY <2>6, QueueTail DEF Presents
    <3>2. [slot |-> Head(frame_queue), gen |-> buffers] \in Buffer
      BY <1>0, <2>6, <3>1 DEF Presents
    <3> QED BY <2>6, <3>1, <3>2 DEF Presents, server, counters
  <2>7. CASE PresentsNothing
    <3>1. frame_queue' \in Seq(Slot)
      <4>1. frame_queue # <<>> => Tail(frame_queue) \in Seq(Slot)
        BY QueueTail
      <4> QED BY <2>7, <4>1 DEF PresentsNothing
    <3> QED BY <2>7, <3>1
            DEF PresentsNothing, surface, compositor, server, counters
  <2> QED BY <1>10, <2>1, <2>2, <2>3, <2>4, <2>5, <2>6, <2>7 DEF WaylandThread
<1>11. CASE NewSurface
  <2>1. Counted'
    BY <1>11 DEF NewSurface, server
  <2>2. surfaces' \in 1 .. MaxUpsets + 1
    BY <1>11 DEF NewSurface
  <2> HIDE DEF Counted
  <2> QED BY <1>0, <1>11, <2>1, <2>2 DEF NewSurface, ipc, thread, server
<1>12. CASE UNCHANGED vars
  BY <1>12 DEF vars, ipc, surface, thread, compositor, server, counters
<1> QED BY <1>1, <1>2, <1>3, <1>4, <1>5, <1>6, <1>7, <1>8, <1>9, <1>10, <1>11,
           <1>12 DEF Next

(* TypeOK: every state is well typed; the generations never run out.       *)
THEOREM TypeCorrect == Spec => []TypeOK
<1>1. Typed => TypeOK
  BY DEF Typed
<1> QED BY InitTyped, TypeStep, <1>1, PTL DEF Spec
-----------------------------------------------------------------------------
(* Imports.                                                                *)

(* Announcements are taken in the order they were made: a set of buffers   *)
(* is announced, stored in fdinfo, taken and imported, each time for a     *)
(* later set.  The compositor holds nothing that was not imported yet.     *)
Imports ==
    /\ pc = "rebuild" <=> taken # 0
    /\ taken # 0 => imported_generation < taken
    /\ taken <= import_generation
    /\ imported_generation <= import_generation
    /\ import_generation <= generation
    /\ fdinfo # 0 => /\ fdinfo = import_generation
                     /\ taken < fdinfo /\ imported_generation < fdinfo
    /\ Ascending(sent, import_generation, generation)
    /\ buffers \in {0, imported_generation}
    /\ \A b \in held : b.gen <= imported_generation
    /\ events # <<>> => buffers # 0

LEMMA Numbered == Typed => {fdinfo, import_generation, taken, buffers,
                            imported_generation, generation} \subseteq Nat
<1>1. Typed => {fdinfo, import_generation, taken, buffers,
                imported_generation, generation} \subseteq Gen
  BY DEF Typed, TypeOK
<1>2. Gen \subseteq Nat
  BY Messages
<1> QED BY <1>1, <1>2

LEMMA AscendingFew ==
    /\ \A lo, hi : Ascending(<<>>, lo, hi)
    /\ \A g \in Gen \ {0}, lo \in Nat : lo < g => Ascending(<<DmabufMsg(g)>>, lo, g)
<1>1. DOMAIN <<>> = {}
  OBVIOUS
<1>2. \A lo, hi : Ascending(<<>>, lo, hi)
  BY <1>1 DEF Ascending
<1>3. ASSUME NEW g \in Gen \ {0}, NEW lo \in Nat, lo < g
      PROVE  Ascending(<<DmabufMsg(g)>>, lo, g)
  <2> DEFINE q == <<DmabufMsg(g)>>
  <2>1. DOMAIN q = {1} /\ q[1] = DmabufMsg(g)
    OBVIOUS
  <2>2. DmabufMsg(g).gen = g /\ g \in Nat
    BY Messages
  <2> HIDE DEF q
  <2>3. Ascending(q, lo, g)
    BY <1>3, <2>1, <2>2 DEF Ascending
  <2> QED BY <2>3 DEF q
<1> QED BY <1>2, <1>3

LEMMA InitImports == Init => Imports
BY AscendingFew DEF Init, Imports

LEMMA ImportsStep == Typed /\ Imports /\ [Next]_vars => Imports'
<1> SUFFICES ASSUME Typed, Imports, [Next]_vars PROVE Imports'
  OBVIOUS
<1> USE DEF Imports
<1>0. /\ {fdinfo, import_generation, taken, buffers, imported_generation,
           generation} \subseteq Nat
      /\ sent \in Seq(Msg) /\ held \subseteq Buffer
      /\ \A b \in Buffer : b.gen \in Nat \ {0}
  BY Numbered, Messages DEF Typed, TypeOK, Buffer
<1>1. CASE Joins
  <2>1. generation + 1 \in Gen \ {0}
    BY <1>1, NextGeneration DEF Joins
  <2>2. Ascending(sent', import_generation', generation')
    BY <1>0, <1>1, <2>1, AscendingFew DEF Joins
  <2> QED BY <1>0, <1>1, <2>2 DEF Joins, surface, thread, compositor
<1>2. CASE Disconnects
  BY <1>2, AscendingFew DEF Disconnects, ipc, surface, thread, compositor
<1>3. CASE Reconnects
  BY <1>3 DEF Reconnects, ipc, surface, thread, compositor, server
<1>4. CASE on_dmabuf
  <2>1. /\ import_generation < Head(sent).gen /\ Head(sent).gen <= generation
        /\ Ascending(sent', import_generation', generation')
    BY <1>0, <1>4, AscendingTail DEF on_dmabuf
  <2>2. Head(sent).gen \in Nat
    BY <1>0, <1>4, QueueTail, Messages DEF on_dmabuf
  <2> QED BY <1>0, <1>4, <2>1, <2>2 DEF on_dmabuf, surface, thread, compositor
<1>5. CASE on_frame
  <2>1. Ascending(sent', import_generation', generation')
    BY <1>0, <1>5, AscendingTail DEF on_frame
  <2> QED BY <1>5, <2>1 DEF on_frame, surface, thread, compositor
<1>6. CASE Acquires
  BY <1>6 DEF Acquires, ipc, surface, thread, compositor
<1>7. CASE Renders
  <2>1. buf_idx \in Slot
    BY <1>7 DEF Renders, Typed, TypeOK
  <2>2. Ascending(sent', import_generation', generation')
    BY <1>0, <1>7, <2>1, AscendingAppend DEF Renders, ipc
  <2> QED BY <1>7, <2>2 DEF Renders, ipc, surface, thread, compositor
<1>8. CASE Resizes
  <2>1. generation + 1 \in Gen
    BY <1>8, NextGeneration DEF Resizes
  <2>2. Ascending(sent', import_generation', generation')
    BY <1>0, <1>8, <2>1, AscendingAppend DEF Resizes, ipc
  <2> QED BY <1>0, <1>8, <2>2 DEF Resizes, ipc, surface, thread, compositor
<1>9. CASE Releases
  <2>1. PICK b \in held \ {shown} :
            /\ held' = held \ {b}
            /\ events' = IF b.gen = buffers THEN Append(events, b.slot) ELSE events
    BY <1>9 DEF Releases
  <2>2. events' # <<>> => buffers # 0
    BY <1>0, <2>1
  <2> QED BY <1>9, <2>1, <2>2 DEF Releases, ipc, surface, thread, server
<1>10. CASE WaylandThread
  <2>1. CASE SeesLoss
    BY <2>1 DEF SeesLoss, DispatchEvents, ipc, server
  <2>2. CASE detach
    BY <2>2 DEF detach, server
  <2>3. CASE SkipsImport
    BY <2>3 DEF SkipsImport, DispatchEvents, ipc, server
  <2>4. CASE TakesImport
    BY <1>0, <2>4 DEF TakesImport, NothingToImport, DispatchEvents, server
  <2>5. CASE Rebuilds
    <3>1. \A b \in held : b.gen <= taken
      BY <1>0, <2>5 DEF Rebuilds
    <3> QED BY <1>0, <2>5, <3>1 DEF Rebuilds, server
  <2>6. CASE Presents
    <3>1. /\ held' = held \union {[slot |-> Head(frame_queue), gen |-> buffers]}
          /\ buffers = imported_generation
      BY <2>6 DEF Presents
    <3>2. \A b \in held' : b.gen <= imported_generation
      BY <1>0, <3>1
    <3> QED BY <2>6, <3>2 DEF Presents, server
  <2>7. CASE PresentsNothing
    BY <2>7 DEF PresentsNothing, surface, compositor, server
  <2> QED BY <1>10, <2>1, <2>2, <2>3, <2>4, <2>5, <2>6, <2>7 DEF WaylandThread
<1>11. CASE NewSurface
  BY <1>11 DEF NewSurface, ipc, thread, server
<1>12. CASE UNCHANGED vars
  BY <1>12 DEF vars, ipc, surface, thread, compositor, server
<1> QED BY <1>1, <1>2, <1>3, <1>4, <1>5, <1>6, <1>7, <1>8, <1>9, <1>10, <1>11,
           <1>12 DEF Next
-----------------------------------------------------------------------------
(* The slots on their way.                                                 *)

LEMMA Way ==
    /\ OnTheWay = Range(returned) \union ({buf_idx} \ {NoSlot}) \union FramesIn(sent)
    /\ OnTheWay' = Range(returned') \union ({buf_idx'} \ {NoSlot}) \union FramesIn(sent')
BY DEF OnTheWay, FramesSent, FramesIn

(* What the frames in a queue are after a message joins or leaves it.      *)
LEMMA FramesChange ==
    /\ FramesIn(<<>>) = {}
    /\ \A g \in Gen \ {0} : FramesIn(<<DmabufMsg(g)>>) = {}
    /\ \A q \in Seq(Msg) :
           /\ \A s \in Slot : FramesIn(Append(q, FrameMsg(s))) = FramesIn(q) \union {s}
           /\ \A g \in Gen \ {0} : FramesIn(Append(q, DmabufMsg(g))) = FramesIn(q)
           /\ q # <<>> /\ Head(q).kind = "dmabuf" => FramesIn(q) = FramesIn(Tail(q))
           /\ q # <<>> /\ Head(q).kind = "frame_ready" =>
                  FramesIn(q) = {Head(q).slot} \union FramesIn(Tail(q))
<1>1. FramesIn(<<>>) = {}
  BY DEF FramesIn
<1>2. \A g \in Gen \ {0} : FramesIn(<<DmabufMsg(g)>>) = {}
  <2> TAKE g \in Gen \ {0}
  <2> DEFINE q == <<DmabufMsg(g)>>
  <2>1. DOMAIN q = {1} /\ q[1] = DmabufMsg(g)
    OBVIOUS
  <2>2. DmabufMsg(g).kind # "frame_ready"
    BY Messages
  <2> HIDE DEF q
  <2>3. FramesIn(q) = {}
    BY <2>1, <2>2 DEF FramesIn
  <2> QED BY <2>3 DEF q
<1>3. ASSUME NEW q \in Seq(Msg), NEW s \in Slot
      PROVE  FramesIn(Append(q, FrameMsg(s))) = FramesIn(q) \union {s}
  <2>1. FrameMsg(s) \in Msg /\ \A u \in Slot : FrameMsg(u) = FrameMsg(s) => u = s
    BY Messages
  <2>2. /\ Append(q, FrameMsg(s)) \in Seq(Msg)
        /\ Range(Append(q, FrameMsg(s))) = Range(q) \union {FrameMsg(s)}
    BY <2>1, QueueAppend
  <2> QED BY <2>1, <2>2, FramesInRange
<1>4. ASSUME NEW q \in Seq(Msg), NEW g \in Gen \ {0}
      PROVE  FramesIn(Append(q, DmabufMsg(g))) = FramesIn(q)
  <2>1. DmabufMsg(g) \in Msg /\ \A u \in Slot : FrameMsg(u) # DmabufMsg(g)
    BY Messages
  <2>2. /\ Append(q, DmabufMsg(g)) \in Seq(Msg)
        /\ Range(Append(q, DmabufMsg(g))) = Range(q) \union {DmabufMsg(g)}
    BY <2>1, QueueAppend
  <2> QED BY <2>1, <2>2, FramesInRange
<1>5. ASSUME NEW q \in Seq(Msg), q # <<>>
      PROVE  /\ Head(q) \in Msg /\ Tail(q) \in Seq(Msg)
             /\ FramesIn(q) = {s \in Slot : FrameMsg(s) = Head(q)}
                                  \union FramesIn(Tail(q))
  <2>1. /\ Head(q) \in Msg /\ Tail(q) \in Seq(Msg)
        /\ Range(q) = {Head(q)} \union Range(Tail(q))
    BY <1>5, QueueTail
  <2> QED BY <2>1, FramesInRange
<1>6. ASSUME NEW q \in Seq(Msg), q # <<>>, Head(q).kind = "dmabuf"
      PROVE  FramesIn(q) = FramesIn(Tail(q))
  <2>1. \A s \in Slot : FrameMsg(s) # Head(q)
    BY <1>6, Messages
  <2> QED BY <1>5, <1>6, <2>1
<1>7. ASSUME NEW q \in Seq(Msg), q # <<>>, Head(q).kind = "frame_ready"
      PROVE  FramesIn(q) = {Head(q).slot} \union FramesIn(Tail(q))
  <2>1. Head(q) \in Msg
    BY <1>5, <1>7
  <2>2. /\ Head(q).slot \in Slot
        /\ \A s \in Slot : FrameMsg(s) = Head(q) <=> s = Head(q).slot
    BY <1>7, <2>1, Messages
  <2> QED BY <1>5, <1>7, <2>2
<1> QED BY <1>1, <1>2, <1>3, <1>4, <1>6, <1>7

(* Before the first import nothing was handed out, and the first import    *)
(* meets nothing that is not back.                                         *)
Unused == imported_generation = 0 => OnTheWay = {}
Fresh == generation <= 1 => ~doubled
Early == Unused /\ Fresh

LEMMA InitEarly == Init => Early
<1>1. Range(<<>>) = {} /\ FramesIn(<<>>) = {}
  BY EmptyQueue, FramesChange
<1> QED BY <1>1, Way DEF Init, Early, Unused, Fresh

LEMMA EarlyStep == Typed /\ Imports /\ Early /\ [Next]_vars => Early'
<1> SUFFICES ASSUME Typed, Imports, Early, [Next]_vars PROVE Early'
  OBVIOUS
<1> DEFINE way == Range(returned) \union ({buf_idx} \ {NoSlot}) \union FramesIn(sent)
<1>0. /\ {taken, buffers, import_generation, imported_generation, generation}
             \subseteq Nat
      /\ sent \in Seq(Msg) /\ returned \in Seq(Slot) /\ events \in Seq(Slot)
      /\ busy \subseteq Slot /\ buf_idx \in Slot \union {NoSlot}
  BY Numbered DEF Typed, TypeOK
<1>1. (imported_generation = 0 => way = {}) /\ (generation <= 1 => ~doubled)
  BY Way DEF Early, Unused, Fresh
<1>2. SUFFICES (imported_generation' = 0 => way' = {}) /\ (generation' <= 1 => ~doubled')
  BY Way DEF Early, Unused, Fresh
<1>3. returned = <<>> <=> Range(returned) = {}
  BY <1>0, RangeMembers, EmptyQueue
<1>4. CASE Joins
  <2>1. generation + 1 \in Gen \ {0}
    BY <1>4, NextGeneration DEF Joins
  <2>2. FramesIn(sent') = {}
    BY <1>4, <2>1, FramesChange DEF Joins
  <2>3. generation' <= 1 => ~doubled'
    BY <1>0, <1>1, <1>4 DEF Joins
  <2>4. /\ returned' = returned /\ buf_idx' = buf_idx
        /\ imported_generation' = imported_generation
    BY <1>4 DEF Joins, thread
  <2> QED BY <1>1, <2>2, <2>3, <2>4
<1>5. CASE Disconnects
  <2>1. Range(returned') \subseteq Range(returned)
    BY <1>0, <1>5, QueueSuffix DEF Disconnects
  <2> QED BY <1>1, <1>5, <2>1, FramesChange DEF Disconnects, thread
<1>6. CASE Reconnects
  BY <1>1, <1>6 DEF Reconnects, thread, server
<1>7. CASE on_dmabuf \/ on_frame
  <2>1. FramesIn(sent') \subseteq FramesIn(sent)
    BY <1>0, <1>7, FramesChange DEF on_dmabuf, on_frame
  <2> QED BY <1>1, <1>7, <2>1 DEF on_dmabuf, on_frame, thread
<1>8. CASE Acquires
  BY <1>1, <1>3, <1>8 DEF Acquires, thread
<1>9. CASE Renders
  BY <1>1, <1>9 DEF Renders, thread
<1>10. CASE Resizes
  BY <1>0, <1>1, <1>10 DEF Resizes, thread
<1>11. CASE Releases
  BY <1>1, <1>11 DEF Releases, thread, server
<1>12. ASSUME DispatchEvents, imported_generation = 0 PROVE Range(returned') = Range(returned)
  <2>1. events = <<>>
    BY <1>0, <1>12 DEF Imports
  <2> QED BY <1>0, <1>12, <2>1, Dispatched, EmptyQueue
<1>13. CASE SeesLoss \/ SkipsImport \/ TakesImport
  <2>1. imported_generation = 0 => Range(returned') = Range(returned)
    BY <1>12, <1>13 DEF SeesLoss, SkipsImport, TakesImport
  <2> QED BY <1>1, <1>13, <2>1 DEF SeesLoss, SkipsImport, TakesImport, server
<1>14. CASE Rebuilds
  <2>1. imported_generation' = taken /\ imported_generation < taken /\ taken <= generation
    BY <1>0, <1>14 DEF Rebuilds, Imports
  <2>2. ASSUME generation <= 1 PROVE OnTheWay = {} /\ events = <<>>
    <3>1. imported_generation = 0
      BY <1>0, <2>1, <2>2
    <3> QED BY <1>1, <3>1, Way DEF Imports
  <2>3. generation' <= 1 => ~doubled'
    BY <1>1, <1>14, <2>2 DEF Rebuilds, server
  <2>4. imported_generation' # 0
    BY <1>0, <2>1
  <2> QED BY <2>3, <2>4
<1>15. CASE detach \/ Presents \/ PresentsNothing
  BY <1>1, <1>15 DEF detach, Presents, PresentsNothing, server
<1>16. CASE NewSurface
  BY <1>1, <1>16 DEF NewSurface, thread, server
<1>17. CASE UNCHANGED vars
  BY <1>1, <1>17 DEF vars, thread, server
<1> QED BY <1>4, <1>5, <1>6, <1>7, <1>8, <1>9, <1>10, <1>11, <1>13, <1>14,
           <1>15, <1>16, <1>17 DEF Next, WaylandThread
-----------------------------------------------------------------------------
(* Slots stay in play.                                                     *)

(* The compositor has every busy slot or has just released it.  While the  *)
(* thread knows of a loss, the buffers it shows are an earlier server's.   *)
Waits == \A s \in busy : [slot |-> s, gen |-> buffers] \in held \/ s \in Range(events)
Detached == pc = "detach" /\ bus = "up" => buffers # generation
Covered == bus = "up" /\ buffers = generation =>
               Slot \subseteq OnTheWay \union Range(frame_queue) \union busy
InPlay == Waits /\ Detached /\ Covered

LEMMA InitInPlay == Init => InPlay
BY DEF Init, InPlay, Waits, Detached, Covered

LEMMA WaitsStep == Typed /\ Imports /\ Waits /\ [Next]_vars => Waits'
<1> SUFFICES ASSUME Typed, Imports, Waits, [Next]_vars PROVE Waits'
  OBVIOUS
<1> USE DEF Waits
<1>0. events \in Seq(Slot) /\ busy \subseteq Slot /\ held \subseteq Buffer
  BY DEF Typed, TypeOK
<1>1. CASE Joins \/ Disconnects \/ Reconnects
  BY <1>1 DEF Joins, Disconnects, Reconnects, surface, compositor
<1>2. CASE on_dmabuf \/ on_frame \/ Acquires \/ Renders \/ Resizes
  BY <1>2 DEF on_dmabuf, on_frame, Acquires, Renders, Resizes, surface, compositor
<1>3. CASE Releases
  <2>1. PICK b \in held \ {shown} :
            /\ held' = held \ {b}
            /\ events' = IF b.gen = buffers THEN Append(events, b.slot) ELSE events
    BY <1>3 DEF Releases
  <2>2. b.slot \in Slot /\ b = [slot |-> b.slot, gen |-> b.gen]
    BY <1>0 DEF Buffer
  <2>3. Range(Append(events, b.slot)) = Range(events) \union {b.slot}
    BY <1>0, <2>2, QueueAppend
  <2>4. busy' = busy /\ buffers' = buffers
    BY <1>3 DEF Releases, surface
  <2>5. CASE b.gen = buffers
    <3>1. Range(events') = Range(events) \union {b.slot}
      BY <2>1, <2>3, <2>5
    <3>2. \A s \in busy : [slot |-> s, gen |-> buffers] = b => s = b.slot
      OBVIOUS
    <3> QED BY <2>1, <2>4, <3>1, <3>2
  <2>6. CASE b.gen # buffers
    <3>1. \A s \in busy : [slot |-> s, gen |-> buffers] # b
      BY <2>6
    <3> QED BY <2>1, <2>4, <2>6, <3>1
  <2> QED BY <2>5, <2>6
<1>4. CASE SeesLoss \/ SkipsImport \/ TakesImport
  BY <1>4 DEF SeesLoss, SkipsImport, TakesImport, DispatchEvents
<1>5. CASE detach \/ Rebuilds
  BY <1>5 DEF detach, Rebuilds
<1>6. CASE Presents
  BY <1>6 DEF Presents
<1>7. CASE PresentsNothing
  BY <1>7 DEF PresentsNothing, surface, compositor
<1>8. CASE NewSurface
  BY <1>8 DEF NewSurface
<1>9. CASE UNCHANGED vars
  BY <1>9 DEF vars, surface, compositor
<1> QED BY <1>1, <1>2, <1>3, <1>4, <1>5, <1>6, <1>7, <1>8, <1>9
        DEF Next, WaylandThread

LEMMA DetachedStep == Typed /\ Imports /\ Detached /\ [Next]_vars => Detached'
<1> SUFFICES ASSUME Typed, Imports, Detached, [Next]_vars PROVE Detached'
  OBVIOUS
<1> USE DEF Detached
<1>0. /\ {buffers, import_generation, imported_generation, generation} \subseteq Nat
      /\ buffers <= generation
  BY Numbered DEF Imports
<1>1. CASE Joins \/ Resizes
  BY <1>0, <1>1 DEF Joins, Resizes, surface, thread
<1>2. CASE Disconnects \/ Reconnects
  BY <1>2 DEF Disconnects, Reconnects
<1>3. CASE on_dmabuf \/ on_frame \/ Acquires \/ Renders \/ Releases
  BY <1>3 DEF on_dmabuf, on_frame, Acquires, Renders, Releases, surface, thread, server
<1>4. CASE SeesLoss
  BY <1>4 DEF SeesLoss, connected
<1>5. CASE detach \/ SkipsImport \/ TakesImport \/ Rebuilds \/ Presents \/ PresentsNothing
  BY <1>5 DEF detach, SkipsImport, TakesImport, Rebuilds, Presents, PresentsNothing
<1>6. CASE NewSurface
  BY <1>6 DEF NewSurface, thread
<1>7. CASE UNCHANGED vars
  BY <1>7 DEF vars, surface, thread, server
<1> QED BY <1>1, <1>2, <1>3, <1>4, <1>5, <1>6, <1>7 DEF Next, WaylandThread

LEMMA CoveredStep == Typed /\ Imports /\ InPlay /\ [Next]_vars => Covered'
<1> SUFFICES ASSUME Typed, Imports, InPlay, [Next]_vars,
                    bus' = "up", buffers' = generation', NEW s \in Slot
             PROVE  s \in OnTheWay' \/ s \in Range(frame_queue') \/ s \in busy'
  BY DEF Covered
<1>0. /\ {buffers, import_generation, imported_generation, generation} \subseteq Nat
      /\ buffers <= generation
      /\ sent \in Seq(Msg) /\ returned \in Seq(Slot) /\ frame_queue \in Seq(Slot)
      /\ events \in Seq(Slot) /\ busy \subseteq Slot /\ buf_idx \in Slot \union {NoSlot}
  BY Numbered DEF Imports, Typed, TypeOK
<1>1. ASSUME bus = "up", buffers = generation
      PROVE  \/ s \in Range(returned) \/ s = buf_idx \/ s \in FramesIn(sent)
             \/ s \in Range(frame_queue) \/ s \in busy
  BY <1>1, Way DEF InPlay, Covered
<1>2. SUFFICES \/ s \in Range(returned') \/ s = buf_idx' \/ s \in FramesIn(sent')
               \/ s \in Range(frame_queue') \/ s \in busy'
  <2>1. s # NoSlot
    BY Messages
  <2> QED BY <1>2, <2>1, Way
<1>3. CASE Joins \/ Resizes
  BY <1>0, <1>3 DEF Joins, Resizes, surface
<1>4. CASE Disconnects \/ Reconnects
  BY <1>4 DEF Disconnects, Reconnects
<1>5. CASE on_dmabuf
  <2>1. FramesIn(sent') = FramesIn(sent)
    BY <1>0, <1>5, FramesChange DEF on_dmabuf
  <2> QED BY <1>1, <1>5, <2>1 DEF on_dmabuf, surface
<1>6. CASE on_frame
  <2>1. FramesIn(sent) = {Head(sent).slot} \union FramesIn(sent')
    BY <1>0, <1>6, FramesChange DEF on_frame
  <2>2. Head(sent).slot \in Slot
    BY <1>0, <1>6, QueueTail, Messages DEF on_frame
  <2>3. Range(frame_queue') = Range(frame_queue) \union {Head(sent).slot}
    BY <1>0, <1>6, <2>2, QueueAppend DEF on_frame
  <2> QED BY <1>1, <1>6, <2>1, <2>3 DEF on_frame, surface
<1>7. CASE Acquires
  <2>1. Range(returned) = {buf_idx'} \union Range(returned')
    BY <1>0, <1>7, QueueTail DEF Acquires
  <2>2. s # NoSlot
    BY Messages
  <2> QED BY <1>1, <1>7, <2>1, <2>2 DEF Acquires, ipc, surface
<1>8. CASE Renders
  <2>1. FramesIn(sent') = FramesIn(sent) \union {buf_idx}
    BY <1>0, <1>8, FramesChange DEF Renders
  <2> QED BY <1>1, <1>8, <2>1 DEF Renders, ipc, surface
<1>9. CASE Releases
  BY <1>1, <1>9 DEF Releases, ipc, surface, server
<1>10. CASE SeesLoss
  BY <1>10 DEF SeesLoss, connected
<1>11. CASE detach
  BY <1>11 DEF detach, server, InPlay, Detached
<1>12. CASE SkipsImport \/ TakesImport
  <2>1. Range(returned') = Range(returned) \union Range(events)
    BY <1>0, <1>12, Dispatched DEF SkipsImport, TakesImport
  <2>2. busy' = busy \ Range(events)
    BY <1>12 DEF SkipsImport, TakesImport, DispatchEvents
  <2>3. /\ bus' = bus /\ buffers' = buffers /\ generation' = generation
        /\ buf_idx' = buf_idx /\ sent' = sent /\ frame_queue' = frame_queue
    BY <1>12 DEF SkipsImport, TakesImport, ipc, server
  <2> QED BY <1>1, <2>1, <2>2, <2>3
<1>13. CASE Rebuilds
  <2> DEFINE dispatched == IF attached THEN events ELSE <<>>
  <2>1. dispatched \in Seq(Slot)
    BY <1>0, QueueJoin
  <2>2. /\ dispatched \o AllSlots \in Seq(Slot)
        /\ Slot \subseteq Range(dispatched \o AllSlots)
    <3> HIDE DEF dispatched
    <3>1. AllSlots \in Seq(Slot) /\ Range(AllSlots) = Slot
      BY SlotsInOrder
    <3>2. /\ dispatched \o AllSlots \in Seq(Slot)
          /\ Range(dispatched \o AllSlots) = Range(dispatched) \union Range(AllSlots)
      BY <2>1, <3>1, QueueJoin
    <3> QED BY <3>1, <3>2
  <2>3. returned' = GiveBack(dispatched \o AllSlots) /\ connected
    BY <1>13 DEF Rebuilds, connected
  <2>4. Slot \subseteq Range(returned')
    BY <1>0, <2>2, <2>3, GivenBack
  <2> QED BY <2>4
<1>14. CASE Presents
  <2>1. Range(frame_queue) = {Head(frame_queue)} \union Range(frame_queue')
    BY <1>0, <1>14, QueueTail DEF Presents
  <2> QED BY <1>1, <1>14, <2>1 DEF Presents, server
<1>15. CASE PresentsNothing
  <2>1. \/ frame_queue' = frame_queue
        \/ Range(frame_queue) \subseteq busy \union Range(frame_queue')
    <3>1. frame_queue # <<>> => Range(frame_queue) =
              {Head(frame_queue)} \union Range(Tail(frame_queue))
      BY <1>0, QueueTail
    <3> QED BY <1>15, <3>1 DEF PresentsNothing
  <2> QED BY <1>1, <1>15, <2>1 DEF PresentsNothing, surface, server
<1>16. CASE NewSurface
  <2>1. resizes \in Nat /\ losses \in Nat /\ generation = resizes + losses + 1
    BY <1>16 DEF NewSurface, Typed, TypeOK, Counted
  <2>2. generation # 0
    BY <2>1
  <2>3. buffers' = 0 /\ generation' = generation
    BY <1>16 DEF NewSurface, server
  <2> QED BY <2>2, <2>3
<1>17. CASE UNCHANGED vars
  BY <1>1, <1>17 DEF vars, ipc, surface, server
<1> QED BY <1>3, <1>4, <1>5, <1>6, <1>7, <1>8, <1>9, <1>10, <1>11, <1>12, <1>13,
           <1>14, <1>15, <1>16, <1>17 DEF Next, WaylandThread

(* SlotsStayInPlay: once the current set is imported, every slot is with   *)
(* the server, on its way, or with the compositor, which will release it.  *)
THEOREM SlotsStayInPlayCorrect == Spec => []SlotsStayInPlay
<1>1. Typed /\ InPlay => SlotsStayInPlay
  <2> SUFFICES ASSUME Typed, InPlay, bus = "up", buffers = generation
               PROVE  Slot = OnTheWay \union Range(frame_queue) \union WithCompositor
    BY DEF SlotsStayInPlay
  <2>1. WithCompositor = busy
    BY DEF InPlay, Waits, WithCompositor
  <2>2. /\ sent \in Seq(Msg) /\ returned \in Seq(Slot) /\ frame_queue \in Seq(Slot)
        /\ busy \subseteq Slot /\ buf_idx \in Slot \union {NoSlot}
    BY DEF Typed, TypeOK
  <2>3. /\ Range(returned) \subseteq Slot /\ Range(frame_queue) \subseteq Slot
        /\ FramesIn(sent) \subseteq Slot
    BY <2>2, RangeMembers, FramesInRange
  <2>4. OnTheWay \union Range(frame_queue) \union busy \subseteq Slot
    BY <2>2, <2>3, Way
  <2> QED BY <2>1, <2>4 DEF InPlay, Covered
<1>2. Typed /\ Imports /\ InPlay /\ [Next]_vars => InPlay'
  BY WaitsStep, DetachedStep, CoveredStep DEF InPlay
<1> QED BY InitTyped, TypeStep, InitImports, ImportsStep, InitInPlay, <1>1, <1>2, PTL
        DEF Spec
-----------------------------------------------------------------------------
(* A slot is in one place.                                                 *)

(* What the compositor holds of the buffers the server renders into.       *)
Current == {s \in Slot : [slot |-> s, gen |-> generation] \in held}

(* No slot is in two places, or twice in one.                              *)
Apart ==
    /\ Range(returned) \intersect FramesIn(sent) = {}
    /\ Range(returned) \intersect Range(frame_queue) = {}
    /\ Range(returned) \intersect Range(events) = {}
    /\ Range(returned) \intersect Current = {}
    /\ FramesIn(sent) \intersect Range(frame_queue) = {}
    /\ FramesIn(sent) \intersect Range(events) = {}
    /\ FramesIn(sent) \intersect Current = {}
    /\ Range(frame_queue) \intersect Range(events) = {}
    /\ Range(frame_queue) \intersect Current = {}
    /\ Range(events) \intersect Current = {}
    /\ buf_idx \notin UNION {Range(returned), FramesIn(sent), Range(frame_queue),
                             Range(events), Current}
Single == /\ IsInjective(returned) /\ IsInjective(sent)
          /\ IsInjective(frame_queue) /\ IsInjective(events)
Settled == ~doubled /\ imported_generation = generation

(* Once the current buffers are imported, and as long as no import has     *)
(* handed out a slot that was not back, each slot is in one place.         *)
Once == Settled => Apart /\ Single

(* Announcements alone are all different.                                  *)
LEMMA AnnouncementsDiffer ==
    ASSUME NEW q \in Seq(Msg), NEW lo \in Nat, NEW hi \in Nat,
           Ascending(q, lo, hi), FramesIn(q) = {}
    PROVE  IsInjective(q)
<1>1. ASSUME NEW i \in DOMAIN q
      PROVE  q[i].kind = "dmabuf" /\ q[i].gen \in Nat
  <2>1. q[i] \in Msg
    BY RangeMembers
  <2>2. q[i].kind # "frame_ready"
    BY DEF FramesIn
  <2> QED BY <2>1, <2>2, Messages
<1>2. DOMAIN q \subseteq Int
  BY RangeMembers
<1>3. ASSUME NEW i \in DOMAIN q, NEW j \in DOMAIN q, q[i] = q[j] PROVE i = j
  <2>1. ~(i < j) /\ ~(j < i)
    BY <1>1, <1>3 DEF Ascending
  <2> QED BY <1>2, <2>1
<1> QED BY <1>3 DEF IsInjective

LEMMA InitOnce == Init => Once
<1> SUFFICES ASSUME Init PROVE Apart /\ Single
  BY DEF Once
<1>1. /\ returned = <<>> /\ sent = <<>> /\ frame_queue = <<>> /\ events = <<>>
      /\ buf_idx = NoSlot /\ held = {}
  BY DEF Init
<1>2. Range(<<>>) = {} /\ IsInjective(<<>>) /\ FramesIn(<<>>) = {}
  BY EmptyQueue, FramesChange
<1>3. Current = {}
  BY <1>1 DEF Current
<1> QED BY <1>1, <1>2, <1>3 DEF Apart, Single

(* The bus and the server.                                                 *)
LEMMA OnceElsewhere ==
    ASSUME Typed, Imports, Once, Settled',
           \/ Joins \/ Disconnects \/ Reconnects \/ on_dmabuf \/ on_frame
           \/ Acquires \/ Renders \/ Resizes \/ Releases \/ NewSurface \/ UNCHANGED vars
    PROVE  Apart' /\ Single'
<1>0. /\ sent \in Seq(Msg) /\ returned \in Seq(Slot) /\ frame_queue \in Seq(Slot)
      /\ events \in Seq(Slot) /\ buf_idx \in Slot \union {NoSlot} /\ held \subseteq Buffer
      /\ NoSlot \notin Slot
  BY Messages DEF Typed, TypeOK
<1>1. /\ {import_generation, imported_generation, generation, buffers} \subseteq Nat
      /\ imported_generation <= generation /\ buffers \in {0, imported_generation}
  BY Numbered DEF Imports
<1>2. /\ Range(returned) \subseteq Slot /\ FramesIn(sent) \subseteq Slot
      /\ Range(frame_queue) \subseteq Slot /\ Range(events) \subseteq Slot
      /\ Current \subseteq Slot
  BY <1>0, RangeMembers, FramesInRange DEF Current
<1>3. Range(<<>>) = {} /\ IsInjective(<<>>) /\ FramesIn(<<>>) = {}
  BY EmptyQueue, FramesChange
<1>4. ~Joins /\ ~Resizes
  BY <1>1 DEF Settled, Joins, Resizes, thread
<1>5. Settled
  BY <1>4 DEF Settled, Disconnects, Reconnects, on_dmabuf, on_frame, Acquires, Renders,
              Releases, NewSurface, vars, thread, server
<1>6. Apart /\ Single
  BY <1>5 DEF Once
<1>7. CASE Disconnects
  <2>1. Range(returned') \subseteq Range(returned) /\ IsInjective(returned')
    BY <1>0, <1>6, <1>7, QueueSuffix DEF Disconnects, Single
  <2>2. /\ sent' = <<>> /\ buf_idx' = NoSlot /\ frame_queue' = frame_queue
        /\ events' = events /\ Current' = Current
    BY <1>7 DEF Disconnects, ipc, compositor, Current
  <2> QED BY <1>0, <1>2, <1>3, <1>6, <2>1, <2>2 DEF Apart, Single
<1>8. CASE Reconnects
  <2>1. Current' = Current
    BY <1>8 DEF Reconnects, compositor, server, Current
  <2> QED BY <1>6, <1>8, <2>1 DEF Reconnects, ipc, compositor, server, Apart, Single
<1>9. CASE on_dmabuf
  <2>1. FramesIn(sent') = FramesIn(sent) /\ IsInjective(sent')
    BY <1>0, <1>6, <1>9, FramesChange, QueueTail DEF on_dmabuf, Single
  <2>2. Current' = Current
    BY <1>9 DEF on_dmabuf, compositor, Current
  <2> QED BY <1>6, <1>9, <2>1, <2>2 DEF on_dmabuf, compositor, Apart, Single
<1>10. CASE on_frame
  <2> DEFINE s == Head(sent).slot
  <2>1. /\ Head(sent) \in Msg /\ sent' \in Seq(Msg) /\ IsInjective(sent')
        /\ Head(sent) \notin Range(sent')
    BY <1>0, <1>6, <1>10, QueueTail DEF on_frame, Single
  <2>2. s \in Slot /\ Head(sent) = FrameMsg(s)
    BY <1>10, <2>1, Messages DEF on_frame
  <2>3. FramesIn(sent) = {s} \union FramesIn(sent')
    BY <1>0, <1>10, FramesChange DEF on_frame
  <2>4. s \notin FramesIn(sent')
    BY <2>1, <2>2, FramesInRange
  <2>5. s \in FramesIn(sent)
    BY <2>3
  <2> HIDE DEF s
  <2>6. s \notin Range(frame_queue)
    BY <1>6, <2>5 DEF Apart
  <2>7. frame_queue' = Append(frame_queue, s)
    BY <1>10 DEF on_frame, s
  <2>8. Range(frame_queue') = Range(frame_queue) \union {s} /\ IsInjective(frame_queue')
    BY <1>0, <1>6, <2>2, <2>6, <2>7, QueueAppend DEF Single
  <2>9. /\ Current' = Current /\ returned' = returned /\ events' = events
        /\ buf_idx' = buf_idx
    BY <1>10 DEF on_frame, compositor, Current
  <2> QED BY <1>6, <2>1, <2>3, <2>4, <2>5, <2>8, <2>9 DEF Apart, Single
<1>11. CASE Acquires
  <2>1. /\ Range(returned) = {buf_idx'} \union Range(returned')
        /\ buf_idx' \notin Range(returned') /\ IsInjective(returned')
    BY <1>0, <1>6, <1>11, QueueTail DEF Acquires, Single
  <2>2. /\ Current' = Current /\ sent' = sent /\ frame_queue' = frame_queue
        /\ events' = events
    BY <1>11 DEF Acquires, ipc, compositor, Current
  <2> QED BY <1>6, <2>1, <2>2 DEF Apart, Single
<1>12. CASE Renders
  <2>1. buf_idx \in Slot /\ buf_idx \notin FramesIn(sent)
    BY <1>0, <1>6, <1>12 DEF Renders, Apart
  <2>2. FrameMsg(buf_idx) \in Msg /\ FrameMsg(buf_idx) \notin Range(sent)
    BY <1>0, <2>1, Messages, FramesInRange
  <2>3. sent' = Append(sent, FrameMsg(buf_idx))
    BY <1>12 DEF Renders
  <2>4. FramesIn(sent') = FramesIn(sent) \union {buf_idx} /\ IsInjective(sent')
    BY <1>0, <1>6, <2>1, <2>2, <2>3, FramesChange, QueueAppend DEF Single
  <2>5. /\ Current' = Current /\ returned' = returned /\ frame_queue' = frame_queue
        /\ events' = events /\ buf_idx' = NoSlot
    BY <1>12 DEF Renders, ipc, compositor, Current
  <2> QED BY <1>0, <1>2, <1>6, <2>1, <2>4, <2>5 DEF Apart, Single
<1>13. CASE Releases
  <2>1. PICK b \in held \ {shown} :
            /\ held' = held \ {b}
            /\ events' = IF b.gen = buffers THEN Append(events, b.slot) ELSE events
    BY <1>13 DEF Releases
  <2>2. b.slot \in Slot /\ b.gen # 0 /\ b = [slot |-> b.slot, gen |-> b.gen]
    BY <1>0 DEF Buffer
  <2>3. /\ returned' = returned /\ frame_queue' = frame_queue /\ sent' = sent
        /\ buf_idx' = buf_idx /\ generation' = generation
    BY <1>13 DEF Releases, ipc, server
  <2>4. Current' \subseteq Current
    BY <2>1, <2>3 DEF Current
  <2>5. CASE b.gen = buffers
    <3>1. b.gen = generation
      BY <1>1, <1>5, <2>2, <2>5 DEF Settled
    <3>2. b.slot \in Current /\ b.slot \notin Current'
      BY <2>1, <2>2, <2>3, <3>1 DEF Current
    <3>3. b.slot \notin Range(events)
      BY <1>6, <3>2 DEF Apart
    <3>4. events' = Append(events, b.slot)
      BY <2>1, <2>5
    <3>5. Range(events') = Range(events) \union {b.slot} /\ IsInjective(events')
      BY <1>0, <1>6, <2>2, <3>3, <3>4, QueueAppend DEF Single
    <3> QED BY <1>6, <2>3, <2>4, <3>2, <3>5 DEF Apart, Single
  <2>6. CASE b.gen # buffers
    BY <1>6, <2>1, <2>3, <2>4, <2>6 DEF Apart, Single
  <2> QED BY <2>5, <2>6
<1>14. CASE NewSurface
  <2>1. Current' = Current
    BY <1>14 DEF NewSurface, server, Current
  <2> QED BY <1>3, <1>6, <1>14, <2>1 DEF NewSurface, ipc, server, Apart, Single
<1>15. CASE UNCHANGED vars
  <2>1. Current' = Current
    BY <1>15 DEF vars, compositor, server, Current
  <2> QED BY <1>6, <1>15, <2>1 DEF vars, ipc, compositor, server, Apart, Single
<1> QED BY <1>4, <1>7, <1>8, <1>9, <1>10, <1>11, <1>12, <1>13, <1>14, <1>15

(* The import that makes the current buffers those shown finds every slot  *)
(* back, so that it hands out each once.                                   *)
LEMMA OnceRebuilt ==
    ASSUME Typed, Imports, Rebuilds, Settled'
    PROVE  Apart' /\ Single'
<1> DEFINE dispatched == IF attached THEN events ELSE <<>>
<1>0. /\ sent \in Seq(Msg) /\ returned \in Seq(Slot) /\ events \in Seq(Slot)
      /\ buf_idx \in Slot \union {NoSlot} /\ NoSlot \notin Slot
      /\ {taken, import_generation, imported_generation, generation} \subseteq Nat
      /\ AllSlots \in Seq(Slot) /\ Range(AllSlots) = Slot /\ IsInjective(AllSlots)
  BY Messages, Numbered, SlotsInOrder DEF Typed, TypeOK
<1>1. /\ dispatched = <<>> /\ OnTheWay = {} /\ imported_generation < taken
      /\ taken = generation
  BY DEF Rebuilds, Settled, Imports, server
<1>2. /\ frame_queue' = <<>> /\ events' = <<>> /\ sent' = sent /\ buf_idx' = buf_idx
      /\ held' = held /\ generation' = generation
      /\ returned' = GiveBack(dispatched \o AllSlots)
  BY DEF Rebuilds, server
<1>3. Range(<<>>) = {} /\ IsInjective(<<>>)
  BY EmptyQueue
<1>4. Range(returned) = {} /\ FramesIn(sent) = {} /\ buf_idx = NoSlot
  BY <1>1, Way
<1>5. IsInjective(sent)
  BY <1>0, <1>4, AnnouncementsDiffer DEF Imports
<1>6. Current' = {}
  <2>1. \A b \in held : b.gen # generation
    BY <1>0, <1>1 DEF Imports, Typed, TypeOK, Buffer
  <2>2. \A s \in Slot : [slot |-> s, gen |-> generation] \notin held
    BY <2>1
  <2> QED BY <1>2, <2>2 DEF Current
<1> HIDE DEF dispatched
<1>7. /\ dispatched \o AllSlots \in Seq(Slot) /\ IsInjective(dispatched \o AllSlots)
      /\ Range(dispatched \o AllSlots) = Slot
  <2>1. dispatched \in Seq(Slot) /\ Range(dispatched) = {} /\ IsInjective(dispatched)
    BY <1>1, <1>3
  <2>2. /\ dispatched \o AllSlots \in Seq(Slot)
        /\ Range(dispatched \o AllSlots) = Range(dispatched) \union Range(AllSlots)
    <3>1. AllSlots \in Seq(Slot) /\ dispatched \in Seq(Slot)
      BY <2>1, SlotsInOrder
    <3> QED BY <3>1, QueueJoin
  <2>3. IsInjective(dispatched \o AllSlots)
    BY <1>0, <2>1, QueueJoin
  <2> QED BY <1>0, <2>1, <2>2, <2>3
<1>8. IsInjective(returned')
  <2>1. IsInjective(returned)
    BY <1>4 DEF Range, IsInjective
  <2> QED BY <1>0, <1>2, <1>4, <1>7, <2>1, QueueJoin DEF GiveBack
<1>9. Range(returned') \subseteq Slot
  <2>1. returned' \in Seq(Slot)
    BY <1>0, <1>2, <1>7, GivenBack
  <2> QED BY <2>1, RangeMembers
<1> QED BY <1>0, <1>2, <1>3, <1>4, <1>5, <1>6, <1>8, <1>9 DEF Apart, Single

(* The rest of the Wayland thread.                                         *)
LEMMA OnceInThread ==
    ASSUME Typed, Imports, Once, Settled',
           \/ SeesLoss \/ detach \/ SkipsImport \/ TakesImport
           \/ Presents \/ PresentsNothing
    PROVE  Apart' /\ Single'
<1>0. /\ returned \in Seq(Slot) /\ frame_queue \in Seq(Slot)
      /\ events \in Seq(Slot) /\ busy \subseteq Slot
  BY DEF Typed, TypeOK
<1>1. Range(<<>>) = {} /\ IsInjective(<<>>)
  BY EmptyQueue
<1>2. Settled
  BY DEF Settled, SeesLoss, detach, SkipsImport, TakesImport, Presents, PresentsNothing,
         server
<1>3. Apart /\ Single
  BY <1>2 DEF Once
<1>4. CASE detach
  <2>1. Current' = Current
    BY <1>4 DEF detach, server, Current
  <2> QED BY <1>1, <1>3, <1>4, <2>1 DEF detach, server, Apart, Single
<1>5. CASE SeesLoss \/ SkipsImport \/ TakesImport
  <2>1. events' = <<>> /\ returned' = GiveBack(events)
    BY <1>5 DEF SeesLoss, SkipsImport, TakesImport, DispatchEvents
  <2>2. /\ Current' = Current /\ sent' = sent /\ buf_idx' = buf_idx
        /\ frame_queue' = frame_queue
    BY <1>5 DEF SeesLoss, SkipsImport, TakesImport, ipc, server, Current
  <2>3. /\ IsInjective(returned) /\ IsInjective(events)
        /\ Range(returned) \intersect Range(events) = {}
    BY <1>3 DEF Apart, Single
  <2>4. /\ Range(returned') \subseteq Range(returned) \union Range(events)
        /\ IsInjective(returned')
    BY <1>0, <2>1, <2>3, QueueJoin DEF GiveBack
  <2> QED BY <1>1, <1>3, <2>1, <2>2, <2>4 DEF Apart, Single
<1>6. CASE Presents
  <2> DEFINE s == Head(frame_queue)
  <2>1. /\ s \in Slot /\ Range(frame_queue) = {s} \union Range(frame_queue')
        /\ s \notin Range(frame_queue') /\ IsInjective(frame_queue')
    BY <1>0, <1>3, <1>6, QueueTail DEF Presents, Single
  <2>2. held' = held \union {[slot |-> s, gen |-> buffers]} /\ buffers = generation
    BY <1>2, <1>6 DEF Presents, Imports, Settled
  <2> HIDE DEF s
  <2>3. /\ returned' = returned /\ events' = events /\ sent' = sent
        /\ buf_idx' = buf_idx /\ generation' = generation
    BY <1>6 DEF Presents, server
  <2>4. Current' = Current \union {s}
    BY <2>1, <2>2, <2>3 DEF Current
  <2> QED BY <1>3, <2>1, <2>3, <2>4 DEF Apart, Single
<1>7. CASE PresentsNothing
  <2>1. frame_queue # <<>> =>
            /\ Range(frame_queue) = {Head(frame_queue)} \union Range(Tail(frame_queue))
            /\ IsInjective(Tail(frame_queue))
    BY <1>0, <1>3, QueueTail DEF Single
  <2>2. Range(frame_queue') \subseteq Range(frame_queue) /\ IsInjective(frame_queue')
    BY <1>3, <1>7, <2>1 DEF PresentsNothing, Single
  <2>3. /\ returned' = returned /\ events' = events /\ sent' = sent
        /\ buf_idx' = buf_idx /\ Current' = Current
    BY <1>7 DEF PresentsNothing, compositor, server, Current
  <2> QED BY <1>3, <2>2, <2>3 DEF Apart, Single
<1> QED BY <1>4, <1>5, <1>6, <1>7

(* ServerDrawsWhatWasReleased: the server does not draw into a buffer the  *)
(* compositor still reads, until an import hands out slots that were not   *)
(* back, which the first one never does.  Every state is well typed, too.  *)
THEOREM ServerDrawsWhatWasReleasedCorrect == Spec => []ServerDrawsWhatWasReleased
<1>1. Typed /\ Imports /\ Early /\ Once => ServerDrawsWhatWasReleased
  <2> SUFFICES ASSUME Typed, Imports, Once, ~doubled, buf_idx # NoSlot,
                      [slot |-> buf_idx, gen |-> generation] \in held
               PROVE  FALSE
    BY DEF Early, Fresh, Typed, ServerDrawsWhatWasReleased
  <2>1. buf_idx \in Slot /\ {imported_generation, import_generation, generation} \subseteq Nat
    BY Numbered DEF Typed, TypeOK
  <2>2. generation <= imported_generation
    BY DEF Imports
  <2>3. imported_generation = generation
    BY <2>1, <2>2 DEF Imports
  <2>4. buf_idx \in Current
    BY <2>1 DEF Current
  <2> QED BY <2>3, <2>4 DEF Once, Settled, Apart
<1>2. Typed /\ Imports /\ Once /\ [Next]_vars => Once'
  BY OnceElsewhere, OnceRebuilt, OnceInThread DEF Once, Next, WaylandThread
<1> QED BY InitTyped, TypeStep, InitImports, ImportsStep, InitEarly, EarlyStep,
           InitOnce, <1>1, <1>2, PTL DEF Spec
-----------------------------------------------------------------------------
(* No set of buffers is missed.                                            *)

(* NewSetsAreImported without the promise that anything happens: with a    *)
(* server, and with no announcement on the bus, in fdinfo or being taken,  *)
(* the set imported last is the one the server draws into, and the overlay *)
(* shows it unless its surface is a new one.  fdinfo is moved out by one   *)
(* import while on_dmabuf may store the next, and a lost connection drops  *)
(* announcements that were sent.                                           *)
NoSetIsMissed ==
    /\ bus = "up" /\ fdinfo = 0 /\ taken = 0
    /\ \A i \in DOMAIN sent : sent[i].kind # "dmabuf"
    => imported_generation = generation /\ (surfaces = 1 => buffers = generation)

(* The newest set is announced or has been received, and what was received *)
(* last waits, is being taken or has been imported.                        *)
Newest ==
    /\ bus = "up" => \/ import_generation = generation
                     \/ DmabufMsg(generation) \in Range(sent)
    /\ import_generation \in {fdinfo, taken, imported_generation}
    /\ surfaces = 1 => buffers = imported_generation

LEMMA NewestStep == Typed /\ Imports /\ Newest /\ [Next]_vars => Newest'
<1> SUFFICES ASSUME Typed, Imports, Newest, [Next]_vars PROVE Newest'
  OBVIOUS
<1> USE DEF Newest
<1>0. /\ sent \in Seq(Msg) /\ generation \in Nat /\ surfaces \in Nat /\ surfaces > 0
      /\ surfaces + 1 # 1
  BY Numbered DEF Typed, TypeOK
<1>1. CASE Joins
  <2>1. Range(<<DmabufMsg(generation + 1)>>) = {DmabufMsg(generation + 1)}
    BY DEF Range
  <2> QED BY <1>1, <2>1 DEF Joins, surface, thread, counters
<1>2. CASE Disconnects \/ Reconnects
  BY <1>2 DEF Disconnects, Reconnects, ipc, surface, thread, server, counters
<1>3. CASE on_dmabuf
  <2>1. Range(sent) = {Head(sent)} \union Range(sent') /\ Head(sent) \in Msg
    BY <1>0, <1>3, QueueTail DEF on_dmabuf
  <2>2. DmabufMsg(generation).gen = generation
    BY DEF DmabufMsg
  <2>3. import_generation < Head(sent).gen /\ Head(sent).gen <= generation
    BY <1>0, <1>3, Numbered, AscendingTail DEF Imports, on_dmabuf
  <2>4. Head(sent).gen \in Nat /\ import_generation \in Nat
    BY <1>3, <2>1, Numbered, Messages DEF on_dmabuf
  <2>5. import_generation # generation
    BY <1>0, <2>3, <2>4
  <2> QED BY <1>3, <2>1, <2>2, <2>5 DEF on_dmabuf, surface, thread, counters
<1>4. CASE on_frame
  <2>1. Range(sent) = {Head(sent)} \union Range(sent')
    BY <1>0, <1>4, QueueTail DEF on_frame
  <2>2. DmabufMsg(generation).kind = "dmabuf"
    BY DEF DmabufMsg
  <2> QED BY <1>4, <2>1, <2>2 DEF on_frame, surface, thread, counters
<1>5. CASE Renders
  <2>1. buf_idx \in Slot
    BY <1>5 DEF Renders, Typed, TypeOK
  <2>2. FrameMsg(buf_idx) \in Msg
    BY <2>1, Messages
  <2>3. Range(sent') = Range(sent) \union {FrameMsg(buf_idx)}
    BY <1>0, <1>5, <2>2, QueueAppend DEF Renders
  <2> QED BY <1>5, <2>3 DEF Renders, ipc, surface, thread, counters
<1>6. CASE Resizes
  <2>1. generation + 1 \in Gen \ {0}
    BY <1>6, NextGeneration DEF Resizes
  <2>2. DmabufMsg(generation + 1) \in Msg
    BY <2>1, Messages
  <2>3. Range(sent') = Range(sent) \union {DmabufMsg(generation + 1)}
    BY <1>0, <1>6, <2>2, QueueAppend DEF Resizes
  <2> QED BY <1>6, <2>3 DEF Resizes, ipc, surface, thread
<1>7. CASE Acquires \/ Releases
  BY <1>7 DEF Acquires, Releases, ipc, surface, thread, server, counters
<1>8. CASE TakesImport
  BY <1>8 DEF TakesImport, Imports, server, counters
<1>9. CASE Rebuilds
  <2>1. import_generation' \in {fdinfo', imported_generation'}
    BY <1>9, Numbered DEF Rebuilds, Imports
  <2> QED BY <1>9, <2>1 DEF Rebuilds, server, counters
<1>10. CASE SeesLoss \/ detach \/ SkipsImport \/ Presents \/ PresentsNothing
  BY <1>10 DEF SeesLoss, detach, SkipsImport, Presents, PresentsNothing, ipc, surface,
               thread, server, counters
<1>11. CASE NewSurface
  BY <1>0, <1>11 DEF NewSurface, ipc, thread, server
<1>12. CASE UNCHANGED vars
  BY <1>12 DEF vars, ipc, surface, thread, server, counters
<1> QED BY <1>1, <1>2, <1>3, <1>4, <1>5, <1>6, <1>7, <1>8, <1>9, <1>10, <1>11, <1>12
        DEF Next, WaylandThread

(* For any number of resizes and lost connections, and wherever they meet  *)
(* the import: fdinfo always holds the newest set that was received, until *)
(* the import that moves it out has taken it over.                         *)
THEOREM NoSetIsMissedCorrect == Spec => []NoSetIsMissed
<1>1. Init => Newest
  BY DEF Init, Newest
<1>2. Typed /\ Imports /\ Newest => NoSetIsMissed
  <2> SUFFICES ASSUME Typed, Imports, Newest, bus = "up", fdinfo = 0, taken = 0,
                      \A i \in DOMAIN sent : sent[i].kind # "dmabuf"
               PROVE  /\ imported_generation = generation
                      /\ surfaces = 1 => buffers = generation
    BY DEF NoSetIsMissed
  <2>1. DmabufMsg(generation) \notin Range(sent)
    BY DEF DmabufMsg, Range
  <2>2. import_generation = generation
    BY <2>1 DEF Newest
  <2>3. import_generation = imported_generation
    BY Numbered DEF Newest, Imports
  <2> QED BY <2>2, <2>3 DEF Newest
<1> QED BY InitTyped, TypeStep, InitImports, ImportsStep, NewestStep, <1>1, <1>2,
           PTL DEF Spec
=============================================================================
