--------------------------- MODULE SessionProofs ---------------------------
(***************************************************************************)
(* Theorems about Session for any number of shared buffers, sizes, starts  *)
(* of the server and swapchains: the slots stay in play across             *)
(* connections, the size the client takes for sent is the one the server   *)
(* knows, and a connection whose greeting is over works.                   *)
(***************************************************************************)
EXTENDS Session, FiniteSetTheorems, SequenceTheorems, TLAPS

USE BufferSizeAssumption, SizesAssumption, BoundsAssumption
    DEF BufferSizeAssumption, SizesAssumption, BoundsAssumption
-----------------------------------------------------------------------------
(* The messages.                                                           *)

(* The kind of a message tells what it is.                                 *)
LEMMA Messages ==
    /\ Hello \in Work /\ Hello.kind = "on_connect"
    /\ \A z \in Sizes : Size(z) \in Work /\ Size(z).kind = "resolution" /\ Size(z).size = z
    /\ \A s \in Slots : Frame(s) \in Work /\ Frame(s).kind = "frame_ready" /\ Frame(s).slot = s
    /\ \A s, t \in Slots : Frame(s) = Frame(t) => s = t
    /\ \A m \in Work : m.kind = "on_connect" => m = Hello
    /\ \A m \in Work : m.kind = "resolution" => m.size \in Sizes /\ m = Size(m.size)
    /\ \A m \in Work : m.kind = "frame_ready" => m.slot \in Slots /\ m = Frame(m.slot)
    /\ \A m \in Work : m.kind \in {"on_connect", "resolution", "frame_ready"}
    /\ Dmabuf \in News /\ Dmabuf.kind = "dmabuf"
    /\ \A s \in Slots : Frame(s) \in News
    /\ \A m \in News : m.kind = "frame_ready" => m.slot \in Slots /\ m = Frame(m.slot)
    /\ \A m \in News : m.kind = "dmabuf" => m = Dmabuf
    /\ \A m \in News : m.kind \in {"dmabuf", "frame_ready"}
<1>1. /\ Hello \in Work /\ Hello.kind = "on_connect"
      /\ \A z \in Sizes :
            Size(z) \in Work /\ Size(z).kind = "resolution" /\ Size(z).size = z
      /\ \A s \in Slots :
            Frame(s) \in Work /\ Frame(s).kind = "frame_ready" /\ Frame(s).slot = s
  BY DEF Work, Hello, Size, Frame
<1>2. \A s, t \in Slots : Frame(s) = Frame(t) => s = t
  BY <1>1
<1>3. ASSUME NEW m \in Work
      PROVE  \/ m = Hello
             \/ \E z \in Sizes : m = Size(z)
             \/ \E s \in Slots : m = Frame(s)
  BY DEF Work
<1>4. /\ Dmabuf \in News /\ Dmabuf.kind = "dmabuf"
      /\ \A s \in Slots : Frame(s) \in News
      /\ \A m \in News : m = Dmabuf \/ \E s \in Slots : m = Frame(s)
  BY DEF News, Dmabuf
<1>5. /\ \A m \in Work : m.kind = "on_connect" => m = Hello
      /\ \A m \in Work : m.kind = "resolution" => m.size \in Sizes /\ m = Size(m.size)
      /\ \A m \in Work : m.kind = "frame_ready" => m.slot \in Slots /\ m = Frame(m.slot)
      /\ \A m \in Work : m.kind \in {"on_connect", "resolution", "frame_ready"}
  BY <1>1, <1>3
<1>6. /\ \A m \in News : m.kind = "frame_ready" => m.slot \in Slots /\ m = Frame(m.slot)
      /\ \A m \in News : m.kind = "dmabuf" => m = Dmabuf
      /\ \A m \in News : m.kind \in {"dmabuf", "frame_ready"}
  BY <1>1, <1>4
<1> QED BY <1>1, <1>2, <1>4, <1>5, <1>6

(* NoSlot is no slot.                                                      *)
LEMMA NoSlotIsNone == NoSlot \notin Slots /\ Slots \subseteq Int
  BY DEF NoSlot, Slots
-----------------------------------------------------------------------------
(* How often a message is in a queue.                                      *)

LEMMA QueueFacts ==
    ASSUME NEW S
    PROVE  /\ <<>> \in Seq(S)
           /\ \A q \in Seq(S), m \in S : Append(q, m) \in Seq(S)
           /\ \A q \in Seq(S) : q # <<>> => Head(q) \in S /\ Tail(q) \in Seq(S)
  OBVIOUS

LEMMA TimesType ==
    ASSUME NEW S, NEW q \in Seq(S), NEW m
    PROVE  Times(m, q) \in Nat /\ IsFiniteSet({k \in DOMAIN q : q[k] = m})
<1>1. Len(q) \in Nat /\ DOMAIN q = 1 .. Len(q)
  OBVIOUS
<1>2. IsFiniteSet(1 .. Len(q))
  <2>1. 1 \in Int /\ Len(q) \in Int
    BY <1>1
  <2> QED BY <2>1, FS_Interval
<1>3. {k \in DOMAIN q : q[k] = m} \subseteq 1 .. Len(q)
  BY <1>1
<1> QED BY <1>2, <1>3, FS_Subset, FS_CardinalityType DEF Times

LEMMA TimesEmpty == \A m : Times(m, <<>>) = 0
<1> TAKE m
<1>1. {k \in DOMAIN <<>> : <<>>[k] = m} = {}
  OBVIOUS
<1> QED BY <1>1, FS_EmptySet DEF Times

(* What is in a queue is in it at least once, and conversely.              *)
LEMMA TimesFound ==
    ASSUME NEW S, NEW q \in Seq(S), NEW m
    PROVE  Times(m, q) = 0 <=> \A k \in DOMAIN q : q[k] # m
<1>1. Times(m, q) = 0 <=> {k \in DOMAIN q : q[k] = m} = {}
  BY TimesType, FS_EmptySet DEF Times
<1> QED BY <1>1

LEMMA TimesAppend ==
    ASSUME NEW S, NEW q \in Seq(S), NEW x \in S, NEW m
    PROVE  Times(m, Append(q, x)) = Times(m, q) + (IF x = m THEN 1 ELSE 0)
<1> DEFINE r == Append(q, x)
           A == {k \in DOMAIN q : q[k] = m}
           B == {k \in DOMAIN r : r[k] = m}
<1>1. /\ Len(q) \in Nat /\ DOMAIN q = 1 .. Len(q) /\ DOMAIN r = 1 .. Len(q) + 1
      /\ (\A k \in 1 .. Len(q) : r[k] = q[k]) /\ r[Len(q) + 1] = x
  OBVIOUS
<1>2. IsFiniteSet(A) /\ Cardinality(A) \in Nat
  BY TimesType, FS_CardinalityType DEF Times
<1> HIDE DEF r
<1>3. CASE x = m
  <2>1. B = A \union {Len(q) + 1} /\ Len(q) + 1 \notin A
    BY <1>1, <1>3
  <2>2. Cardinality(B) = Cardinality(A) + 1
    BY <1>2, <2>1, FS_AddElement
  <2> QED BY <1>3, <2>2 DEF Times, r
<1>4. CASE x # m
  <2>1. B = A
    BY <1>1, <1>4
  <2>2. Times(m, r) = Times(m, q)
    BY <2>1 DEF Times
  <2>3. Times(m, q) \in Nat
    BY TimesType
  <2> QED BY <1>4, <2>2, <2>3 DEF r
<1> QED BY <1>3, <1>4

LEMMA TimesTail ==
    ASSUME NEW S, NEW q \in Seq(S), q # <<>>, NEW m
    PROVE  Times(m, q) = Times(m, Tail(q)) + (IF Head(q) = m THEN 1 ELSE 0)
<1> DEFINE r == Tail(q)
           A == {k \in DOMAIN r : r[k] = m}
           B == {k \in DOMAIN q : q[k] = m}
           C == {k \in 2 .. Len(q) : q[k] = m}
           f == [k \in A |-> k + 1]
<1>1. /\ Len(q) \in Nat \ {0} /\ DOMAIN q = 1 .. Len(q) /\ DOMAIN r = 1 .. Len(q) - 1
      /\ (\A k \in 1 .. Len(q) - 1 : r[k] = q[k + 1]) /\ q[1] = Head(q)
      /\ r \in Seq(S)
  OBVIOUS
<1> HIDE DEF r
<1>2. IsFiniteSet(A) /\ Cardinality(A) \in Nat /\ Times(m, r) \in Nat
  BY <1>1, TimesType, FS_CardinalityType
<1>3. IsFiniteSet(C) /\ Cardinality(C) = Cardinality(A)
  <2>1. f \in Bijection(A, C)
    <3>1. \A k \in A : k + 1 \in C
      BY <1>1
    <3>2. \A j, k \in A : j + 1 = k + 1 => j = k
      BY <1>1
    <3>3. \A c \in C : \E k \in A : k + 1 = c
      <4> TAKE c \in C
      <4>1. c - 1 \in A /\ (c - 1) + 1 = c
        BY <1>1
      <4> QED BY <4>1
    <3> QED BY <3>1, <3>2, <3>3 DEF Bijection, Injection, Surjection, IsInjective
  <2> HIDE DEF f
  <2> QED BY <1>2, <2>1, FS_Bijection DEF ExistsBijection
<1> HIDE DEF C
<1>4. CASE Head(q) = m
  <2>1. B = C \union {1} /\ 1 \notin C
    BY <1>1, <1>4 DEF C
  <2>2. Cardinality(B) = Cardinality(C) + 1
    BY <1>3, <2>1, FS_AddElement
  <2> QED BY <1>3, <1>4, <2>2 DEF Times, r
<1>5. CASE Head(q) # m
  <2>1. B = C
    BY <1>1, <1>5 DEF C
  <2>2. Times(m, q) = Times(m, r)
    BY <1>3, <2>1 DEF Times
  <2> QED BY <1>2, <1>5, <2>2 DEF r
<1> QED BY <1>4, <1>5

(* on_connect hands out every slot once.                                   *)
LEMMA TimesHandedOut ==
    ASSUME NEW q \in Seq(Slots), NEW s \in Slots
    PROVE  /\ q \o [k \in 1 .. BufferSize |-> k - 1] \in Seq(Slots)
           /\ Times(s, q \o [k \in 1 .. BufferSize |-> k - 1]) = Times(s, q) + 1
<1> DEFINE h == [k \in 1 .. BufferSize |-> k - 1]
           r == q \o h
           A == {k \in DOMAIN q : q[k] = s}
           B == {k \in DOMAIN r : r[k] = s}
<1>1. h \in Seq(Slots) /\ Len(h) = BufferSize /\ \A k \in 1 .. BufferSize : h[k] = k - 1
  <2>1. h \in [1 .. BufferSize -> Slots]
    BY DEF Slots
  <2> QED BY <2>1
<1> HIDE DEF h
<1>2. /\ r \in Seq(Slots) /\ Len(q) \in Nat /\ DOMAIN q = 1 .. Len(q)
      /\ DOMAIN r = 1 .. Len(q) + BufferSize
      /\ \A k \in 1 .. Len(q) : r[k] = q[k]
      /\ \A k \in 1 .. Len(q) + BufferSize : k > Len(q) => r[k] = h[k - Len(q)]
  <2>1. Len(q) \in Nat /\ DOMAIN q = 1 .. Len(q)
    OBVIOUS
  <2>2. /\ r \in Seq(Slots) /\ Len(r) = Len(q) + Len(h)
        /\ \A k \in 1 .. Len(q) + Len(h) :
              r[k] = IF k <= Len(q) THEN q[k] ELSE h[k - Len(q)]
    BY <1>1, ConcatProperties
  <2> HIDE DEF r
  <2> QED BY <1>1, <2>1, <2>2
<1>3. IsFiniteSet(A)
  BY TimesType
<1>4. s \in Int /\ 0 <= s /\ s < BufferSize
  BY DEF Slots
<1> HIDE DEF r
<1>5. B = A \union {Len(q) + s + 1} /\ Len(q) + s + 1 \notin A
  <2>1. ASSUME NEW k \in 1 .. Len(q) + BufferSize, k > Len(q)
        PROVE  r[k] = k - Len(q) - 1
    <3>1. k - Len(q) \in 1 .. BufferSize
      BY <1>2, <2>1
    <3> QED BY <1>1, <1>2, <2>1, <3>1
  <2>2. r[Len(q) + s + 1] = s /\ Len(q) + s + 1 \in DOMAIN r
    BY <1>2, <1>4, <2>1
  <2>3. ASSUME NEW k \in B PROVE k \in A \union {Len(q) + s + 1}
    <3>1. CASE k \in 1 .. Len(q)
      BY <1>2, <3>1
    <3>2. CASE k \notin 1 .. Len(q)
      <4>1. k \in 1 .. Len(q) + BufferSize /\ k > Len(q) /\ r[k] = s
        BY <1>2, <3>2
      <4>2. s = k - Len(q) - 1
        BY <2>1, <4>1
      <4>3. k \in Int /\ Len(q) \in Int
        BY <1>2, <4>1
      <4> QED BY <1>4, <4>2, <4>3
    <3> QED BY <3>1, <3>2
  <2>4. A \subseteq B
    BY <1>2
  <2>5. Len(q) + s + 1 \notin A
    BY <1>2, <1>4
  <2> QED BY <2>2, <2>3, <2>4, <2>5
<1>6. Cardinality(B) = Cardinality(A) + 1
  BY <1>3, <1>5, FS_AddElement
<1> QED BY <1>2, <1>6 DEF Times, r, h

(* No message of a kind is in a queue; x is the last of its kind in it.    *)
NoneOf(kind, q) == \A k \in DOMAIN q : q[k].kind # kind
LastOf(kind, x, q) ==
    \E k \in DOMAIN q : q[k] = x /\ \A j \in DOMAIN q : j > k => q[j].kind # kind

LEMMA LastAppend ==
    ASSUME NEW S, NEW q \in Seq(S), NEW m \in S, NEW kind
    PROVE  /\ m.kind # kind =>
                 /\ NoneOf(kind, q) => NoneOf(kind, Append(q, m))
                 /\ \A x : LastOf(kind, x, q) => LastOf(kind, x, Append(q, m))
           /\ LastOf(kind, m, Append(q, m))
<1> DEFINE r == Append(q, m)
<1>1. /\ Len(q) \in Nat /\ DOMAIN q = 1 .. Len(q) /\ DOMAIN r = 1 .. Len(q) + 1
      /\ (\A j \in 1 .. Len(q) : r[j] = q[j]) /\ r[Len(q) + 1] = m
  OBVIOUS
<1> HIDE DEF r
<1>2. ASSUME m.kind # kind, NoneOf(kind, q) PROVE NoneOf(kind, r)
  BY <1>1, <1>2 DEF NoneOf
<1>3. ASSUME m.kind # kind, NEW x, LastOf(kind, x, q) PROVE LastOf(kind, x, r)
  <2>1. PICK i \in 1 .. Len(q) :
           q[i] = x /\ \A j \in 1 .. Len(q) : j > i => q[j].kind # kind
    BY <1>1, <1>3 DEF LastOf
  <2>2. r[i] = x /\ i \in DOMAIN r
    BY <1>1, <2>1
  <2>3. \A j \in DOMAIN r : j > i => r[j].kind # kind
    BY <1>1, <1>3, <2>1
  <2> QED BY <2>2, <2>3 DEF LastOf
<1>4. LastOf(kind, m, r)
  <2>1. r[Len(q) + 1] = m /\ Len(q) + 1 \in DOMAIN r
    BY <1>1
  <2>2. \A j \in DOMAIN r : ~(j > Len(q) + 1)
    BY <1>1
  <2> QED BY <2>1, <2>2 DEF LastOf
<1> QED BY <1>2, <1>3, <1>4 DEF r

LEMMA LastTail ==
    ASSUME NEW S, NEW q \in Seq(S), q # <<>>, NEW kind
    PROVE  /\ NoneOf(kind, q) => NoneOf(kind, Tail(q)) /\ Head(q).kind # kind
           /\ \A x : LastOf(kind, x, q) =>
                    LastOf(kind, x, Tail(q)) \/ (Head(q) = x /\ NoneOf(kind, Tail(q)))
<1> DEFINE r == Tail(q)
<1>1. /\ Len(q) \in Nat \ {0} /\ DOMAIN q = 1 .. Len(q) /\ DOMAIN r = 1 .. Len(q) - 1
      /\ (\A j \in 1 .. Len(q) - 1 : r[j] = q[j + 1]) /\ q[1] = Head(q)
  OBVIOUS
<1> HIDE DEF r
<1>2. ASSUME NoneOf(kind, q) PROVE NoneOf(kind, r) /\ Head(q).kind # kind
  <2>1. q[1].kind # kind
    BY <1>1, <1>2 DEF NoneOf
  <2>2. ASSUME NEW j \in 1 .. Len(q) - 1 PROVE r[j].kind # kind
    <3>1. j + 1 \in DOMAIN q
      BY <1>1
    <3> QED BY <1>1, <1>2, <3>1 DEF NoneOf
  <2> QED BY <1>1, <2>1, <2>2 DEF NoneOf
<1>3. ASSUME NEW x, LastOf(kind, x, q)
      PROVE  LastOf(kind, x, r) \/ (Head(q) = x /\ NoneOf(kind, r))
  <2>1. PICK i \in 1 .. Len(q) :
           q[i] = x /\ \A j \in 1 .. Len(q) : j > i => q[j].kind # kind
    BY <1>1, <1>3 DEF LastOf
  <2>2. ASSUME NEW j \in 1 .. Len(q) - 1, j > i - 1 PROVE r[j].kind # kind
    <3>1. j + 1 \in 1 .. Len(q) /\ j + 1 > i
      BY <1>1, <2>2
    <3> QED BY <1>1, <2>1, <3>1
  <2>3. CASE i = 1
    BY <1>1, <2>1, <2>2, <2>3 DEF NoneOf
  <2>4. CASE i # 1
    <3>1. i - 1 \in DOMAIN r /\ r[i - 1] = x
      <4>1. i - 1 \in 1 .. Len(q) - 1 /\ (i - 1) + 1 = i
        BY <1>1, <2>4
      <4> QED BY <1>1, <2>1, <4>1
    <3> QED BY <1>1, <2>2, <3>1 DEF LastOf
  <2> QED BY <2>3, <2>4
<1> QED BY <1>2, <1>3 DEF r
-----------------------------------------------------------------------------
(* Every state is well typed.                                              *)

LEMMA TypeInit == Init => TypeOK
<1> SUFFICES ASSUME Init PROVE TypeOK
  OBVIOUS
<1>1. work_q \in Seq(Work) /\ to_server \in Seq(Work)
  BY QueueFacts DEF Init
<1>2. frame_queue \in Seq(Slots) /\ server_queue \in Seq(Slots) /\ to_client \in Seq(News)
  BY QueueFacts DEF Init
<1>3. starts \in 0 .. MaxStarts /\ resizes \in 0 .. MaxResizes
  BY DEF Init
<1> QED BY <1>1, <1>2, <1>3 DEF Init, TypeOK

LEMMA TypeNext ==
    ASSUME TypeOK, [Next]_vars
    PROVE  TypeOK'
<1> USE DEF TypeOK
<1>1. /\ \A q \in Seq(Work), m \in Work : Append(q, m) \in Seq(Work)
      /\ \A q \in Seq(Work) : q # <<>> => Head(q) \in Work /\ Tail(q) \in Seq(Work)
      /\ \A q \in Seq(Slots), s \in Slots : Append(q, s) \in Seq(Slots)
      /\ \A q \in Seq(Slots) : q # <<>> => Head(q) \in Slots /\ Tail(q) \in Seq(Slots)
      /\ \A q \in Seq(News), m \in News : Append(q, m) \in Seq(News)
      /\ \A q \in Seq(News) : q # <<>> => Head(q) \in News /\ Tail(q) \in Seq(News)
  BY QueueFacts
<1>2. \A q \in Seq(Slots) : q \o [k \in 1 .. BufferSize |-> k - 1] \in Seq(Slots)
  <2> TAKE q \in Seq(Slots)
  <2>1. 0 \in Slots
    BY DEF Slots
  <2> QED BY <2>1, TimesHandedOut
<1>3. CASE App
  <2>1. CASE Start
    BY <2>1 DEF Start, overlay, shown, wire, server
  <2>2. ASSUME NEW z \in Sizes, SendResolution(z) PROVE TypeOK'
    <3>1. work_q' \in Seq(Work) /\ resizes' \in 0 .. MaxResizes
      BY <1>1, <2>2, Messages DEF SendResolution
    <3> QED BY <2>2, <3>1 DEF SendResolution, shown, wire, server
  <2>3. CASE NextFrame
    BY <1>1, <2>3 DEF NextFrame, client, wire, server
  <2>4. CASE Draw
    <3>1. CASE DrawCopy
      BY <1>1, <3>1, Messages DEF DrawCopy, wire, server
    <3>2. CASE DrawCached
      BY <3>2 DEF DrawCached, client, wire, server
    <3> QED BY <2>4, <3>1, <3>2 DEF Draw
  <2> QED BY <1>3, <2>1, <2>2, <2>3, <2>4 DEF App
<1>4. CASE BusThread
  <2>1. CASE ConnectFails
    BY <2>1 DEF ConnectFails, vars, client, overlay, shown, wire, server
  <2>2. CASE Connect
    BY <1>1, <2>2, Messages DEF Connect, overlay, shown, server
  <2>3. CASE RunHello
    <3>1. work_q' \in Seq(Work) /\ to_server' \in Seq(Work)
      BY <1>1, <2>3, Messages DEF RunHello, TakesWork, Sent
    <3>2. frame_queue' \in Seq(Slots) /\ signalling' \in Sizes \union {NoSize}
      BY <1>2, <2>3 DEF RunHello
    <3> QED BY <2>3, <3>1, <3>2 DEF RunHello, shown, server
  <2>4. CASE RunResolution
    BY <1>1, <2>4, Messages DEF RunResolution, TakesWork, overlay, shown, wire, server
  <2>5. CASE SendSize
    <3>1. to_server' \in Seq(Work) /\ sent' \in Sizes \union {NoSize}
      BY <1>1, <2>5, Messages DEF SendSize, Sent
    <3> QED BY <2>5, <3>1 DEF SendSize, overlay, shown, server
  <2>6. CASE RunFrame
    BY <1>1, <2>6 DEF RunFrame, TakesWork, Sent, overlay, shown, server
  <2>7. CASE OnDmabuf \/ OnFrame
    <3>1. CASE OnDmabuf
      BY <1>1, <3>1 DEF OnDmabuf, Hears, client, server
    <3>2. CASE OnFrame
      BY <1>1, <3>2, Messages DEF OnFrame, Hears, client, shown, server
    <3> QED BY <2>7, <3>1, <3>2
  <2>8. CASE OnDisconnected
    BY <2>8, QueueFacts DEF OnDisconnected, overlay, shown, server
  <2> QED BY <1>4, <2>1, <2>2, <2>3, <2>4, <2>5, <2>6, <2>7, <2>8 DEF BusThread
<1>5. CASE ServerStarts
  BY <1>5 DEF ServerStarts, client, overlay, shown, wire
<1>6. CASE ServerStops
  BY <1>6, QueueFacts DEF ServerStops, client, overlay, shown
<1>7. CASE ServerBus
  <2>1. CASE ServerGreeted
    BY <1>1, <2>1 DEF ServerGreeted, Receives, client, overlay, shown
  <2>2. CASE ServerSized
    BY <1>1, <2>2, Messages DEF ServerSized, Receives, client, overlay, shown
  <2>3. CASE ServerReceivesFrame
    BY <1>1, <2>3, Messages DEF ServerReceivesFrame, Receives, client, overlay, shown
  <2> QED BY <1>7, <2>1, <2>2, <2>3 DEF ServerBus
<1>8. CASE ServerRun
  <2>1. CASE ServerAnnounces
    BY <1>1, <2>1, Messages DEF ServerAnnounces, client, overlay, shown
  <2>2. CASE ServerRenders
    BY <1>1, <2>2, Messages DEF ServerRenders, client, overlay, shown
  <2> QED BY <1>8, <2>1, <2>2 DEF ServerRun
<1>9. CASE UNCHANGED vars
  BY <1>9 DEF vars, client, overlay, shown, wire, server
<1> QED BY <1>3, <1>4, <1>5, <1>6, <1>7, <1>8, <1>9 DEF Next

(* Every reachable state is well typed: the queues hold only what their    *)
(* writers put there, whatever the order of connections and restarts.      *)
THEOREM TypeCorrect == Spec => []TypeOK
<1>1. TypeOK /\ [Next]_vars => TypeOK'
  BY TypeNext
<1> QED BY <1>1, TypeInit, PTL DEF Spec
-----------------------------------------------------------------------------
(* The connection.                                                         *)

Links ==
    /\ link = "open" => up
    /\ greeted => link = "open"
    /\ link = "none" <=> bus # "loop"
    /\ link # "open" => to_server = <<>> /\ server_queue = <<>> /\ known = NoSize

LEMMA LinksNext ==
    ASSUME TypeOK, Links, [Next]_vars
    PROVE  Links'
<1> USE DEF Links
<1>1. CASE App
  BY <1>1 DEF App, Start, SendResolution, NextFrame, Draw, DrawCopy, DrawCached,
       client, overlay, shown, wire, server
<1>2. CASE BusThread
  <2>1. CASE Connect
    BY <2>1 DEF Connect, overlay, shown, server
  <2>2. CASE RunHello
    BY <2>2 DEF RunHello, TakesWork, Dispatching, Sent, server
  <2>3. CASE SendSize \/ RunFrame
    BY <2>3 DEF SendSize, RunFrame, TakesWork, Dispatching, Sent, overlay, shown, server
  <2>4. CASE OnDisconnected
    BY <2>4 DEF OnDisconnected, Dispatching, overlay, shown, server
  <2>5. CASE ConnectFails \/ RunResolution \/ OnDmabuf \/ OnFrame
    BY <2>5 DEF ConnectFails, RunResolution, OnDmabuf, OnFrame, Hears, TakesWork, vars,
         client, overlay, shown, wire, server
  <2> QED BY <1>2, <2>1, <2>2, <2>3, <2>4, <2>5 DEF BusThread
<1>3. CASE ServerStarts
  BY <1>3 DEF ServerStarts, client, overlay, shown, wire
<1>4. CASE ServerStops
  BY <1>4 DEF ServerStops, client, overlay, shown
<1>5. CASE ServerBus
  BY <1>5 DEF ServerBus, ServerGreeted, ServerSized, ServerReceivesFrame, Receives,
              client, overlay, shown
<1>6. CASE ServerRun
  BY <1>6 DEF ServerRun, ServerAnnounces, ServerRenders, client, overlay, shown
<1>7. CASE UNCHANGED vars
  BY <1>7 DEF vars, client, overlay, shown, wire, server
<1> QED BY <1>1, <1>2, <1>3, <1>4, <1>5, <1>6, <1>7 DEF Next
-----------------------------------------------------------------------------
(* The slots.                                                              *)

(* The terms of Copies(s).                                                 *)
LEMMA CopiesType ==
    ASSUME TypeOK, NEW s \in Slots
    PROVE  /\ Times(s, frame_queue) \in Nat
           /\ Times(Frame(s), work_q) \in Nat /\ Times(Frame(s), to_server) \in Nat
           /\ Times(s, server_queue) \in Nat /\ Times(Frame(s), to_client) \in Nat
           /\ Times(Hello, work_q) \in Nat /\ Times(Hello, to_server) \in Nat
           /\ Copies(s) \in Nat
<1>1. /\ Times(s, frame_queue) \in Nat
      /\ Times(s, server_queue) \in Nat /\ Times(Frame(s), to_client) \in Nat
  BY TimesType DEF TypeOK
<1>2. /\ Times(Frame(s), work_q) \in Nat /\ Times(Frame(s), to_server) \in Nat
      /\ Times(Hello, work_q) \in Nat /\ Times(Hello, to_server) \in Nat
  BY TimesType DEF TypeOK
<1> QED BY <1>1, <1>2 DEF Copies

LEMMA CopiesTypeNext ==
    ASSUME TypeOK', NEW s \in Slots
    PROVE  Copies(s)' \in Nat /\ Times(Hello, work_q)' \in Nat
<1>1. /\ \A q \in Seq(Work) : Times(Frame(s), q) \in Nat /\ Times(Hello, q) \in Nat
      /\ \A q \in Seq(Slots) : Times(s, q) \in Nat
      /\ \A q \in Seq(News) : Times(Frame(s), q) \in Nat
  BY TimesType
<1>2. /\ Times(s, frame_queue') \in Nat
      /\ Times(Frame(s), work_q') \in Nat /\ Times(Frame(s), to_server') \in Nat
      /\ Times(s, server_queue') \in Nat /\ Times(Frame(s), to_client') \in Nat
      /\ Times(Hello, work_q') \in Nat
  BY <1>1 DEF TypeOK
<1> QED BY <1>2 DEF Copies

(* What taking from and adding to the queues of messages does to the       *)
(* number of frames of s and of greetings in them.                         *)
LEMMA WorkMoves ==
    ASSUME NEW q \in Seq(Work), NEW s \in Slots
    PROVE  /\ \A z \in Sizes : /\ Times(Frame(s), Append(q, Size(z))) = Times(Frame(s), q)
                               /\ Times(Hello, Append(q, Size(z))) = Times(Hello, q)
           /\ \A t \in Slots :
                 /\ Times(Frame(s), Append(q, Frame(t))) =
                       Times(Frame(s), q) + (IF t = s THEN 1 ELSE 0)
                 /\ Times(Hello, Append(q, Frame(t))) = Times(Hello, q)
           /\ Times(Frame(s), Append(q, Hello)) = Times(Frame(s), q)
           /\ Times(Hello, Append(q, Hello)) = Times(Hello, q) + 1
           /\ q # <<>> =>
                 /\ Head(q).kind = "resolution" =>
                       /\ Times(Frame(s), q) = Times(Frame(s), Tail(q))
                       /\ Times(Hello, q) = Times(Hello, Tail(q))
                 /\ Head(q).kind = "frame_ready" =>
                       /\ Times(Frame(s), q) =
                             Times(Frame(s), Tail(q)) + (IF Head(q).slot = s THEN 1 ELSE 0)
                       /\ Times(Hello, q) = Times(Hello, Tail(q))
                 /\ Head(q).kind = "on_connect" =>
                       /\ Times(Frame(s), q) = Times(Frame(s), Tail(q))
                       /\ Times(Hello, q) = Times(Hello, Tail(q)) + 1
<1>1. /\ Hello \in Work /\ Frame(s) \in Work /\ Hello # Frame(s)
      /\ \A z \in Sizes : Size(z) \in Work /\ Size(z) # Hello /\ Size(z) # Frame(s)
      /\ \A t \in Slots : /\ Frame(t) \in Work /\ Frame(t) # Hello
                          /\ Frame(t) = Frame(s) <=> t = s
  BY Messages
<1>2. \A x \in Work, m \in Work :
         Times(m, Append(q, x)) = Times(m, q) + (IF x = m THEN 1 ELSE 0)
  BY TimesAppend
<1>3. q # <<>> => \A m \in Work :
         Times(m, q) = Times(m, Tail(q)) + (IF Head(q) = m THEN 1 ELSE 0)
  BY TimesTail
<1>4. \A m \in Work : Times(m, q) \in Nat /\ (q # <<>> => Times(m, Tail(q)) \in Nat)
  BY TimesType, QueueFacts
<1>5. ASSUME NEW z \in Sizes
      PROVE  /\ Times(Frame(s), Append(q, Size(z))) = Times(Frame(s), q)
             /\ Times(Hello, Append(q, Size(z))) = Times(Hello, q)
  <2>1. /\ Times(Frame(s), Append(q, Size(z))) = Times(Frame(s), q) + 0
        /\ Times(Hello, Append(q, Size(z))) = Times(Hello, q) + 0
    BY <1>1, <1>2
  <2> QED BY <1>1, <1>4, <2>1
<1>6. ASSUME NEW t \in Slots
      PROVE  /\ Times(Frame(s), Append(q, Frame(t))) =
                   Times(Frame(s), q) + (IF t = s THEN 1 ELSE 0)
             /\ Times(Hello, Append(q, Frame(t))) = Times(Hello, q)
  <2>1. /\ Times(Frame(s), Append(q, Frame(t))) =
              Times(Frame(s), q) + (IF t = s THEN 1 ELSE 0)
        /\ Times(Hello, Append(q, Frame(t))) = Times(Hello, q) + 0
    BY <1>1, <1>2
  <2> QED BY <1>1, <1>4, <2>1
<1>7. /\ Times(Frame(s), Append(q, Hello)) = Times(Frame(s), q)
      /\ Times(Hello, Append(q, Hello)) = Times(Hello, q) + 1
  <2>1. /\ Times(Frame(s), Append(q, Hello)) = Times(Frame(s), q) + 0
        /\ Times(Hello, Append(q, Hello)) = Times(Hello, q) + 1
    BY <1>1, <1>2
  <2> QED BY <1>1, <1>4, <2>1
<1>8. ASSUME q # <<>>
      PROVE  /\ Head(q).kind = "resolution" =>
                   /\ Times(Frame(s), q) = Times(Frame(s), Tail(q))
                   /\ Times(Hello, q) = Times(Hello, Tail(q))
             /\ Head(q).kind = "frame_ready" =>
                   /\ Times(Frame(s), q) =
                         Times(Frame(s), Tail(q)) + (IF Head(q).slot = s THEN 1 ELSE 0)
                   /\ Times(Hello, q) = Times(Hello, Tail(q))
             /\ Head(q).kind = "on_connect" =>
                   /\ Times(Frame(s), q) = Times(Frame(s), Tail(q))
                   /\ Times(Hello, q) = Times(Hello, Tail(q)) + 1
  <2>1. PICK m \in Work : m = Head(q)
    BY <1>8
  <2>2. /\ Times(Frame(s), q) = Times(Frame(s), Tail(q)) + (IF m = Frame(s) THEN 1 ELSE 0)
        /\ Times(Hello, q) = Times(Hello, Tail(q)) + (IF m = Hello THEN 1 ELSE 0)
    BY <1>1, <1>3, <1>8, <2>1
  <2>3. /\ m.kind = "resolution" => m # Frame(s) /\ m # Hello
        /\ m.kind = "frame_ready" => m # Hello /\ (m = Frame(s) <=> m.slot = s)
        /\ m.kind = "on_connect" => m = Hello /\ m # Frame(s)
    BY Messages
  <2>4. /\ Times(Frame(s), Tail(q)) \in Nat /\ Times(Hello, Tail(q)) \in Nat
    BY <1>1, <1>4, <1>8
  <2> QED BY <2>1, <2>2, <2>3, <2>4
<1> QED BY <1>5, <1>6, <1>7, <1>8

(* The same for the queues of slots.                                       *)
LEMMA SlotMoves ==
    ASSUME NEW q \in Seq(Slots), NEW s \in Slots
    PROVE  /\ \A t \in Slots : Times(s, Append(q, t)) = Times(s, q) + (IF t = s THEN 1 ELSE 0)
           /\ q # <<>> => Times(s, q) = Times(s, Tail(q)) + (IF Head(q) = s THEN 1 ELSE 0)
  BY TimesAppend, TimesTail

(* The same for what the server sends.                                     *)
LEMMA NewsMoves ==
    ASSUME NEW q \in Seq(News), NEW s \in Slots
    PROVE  /\ Times(Frame(s), Append(q, Dmabuf)) = Times(Frame(s), q)
           /\ \A t \in Slots : Times(Frame(s), Append(q, Frame(t))) =
                                  Times(Frame(s), q) + (IF t = s THEN 1 ELSE 0)
           /\ q # <<>> =>
                 /\ Head(q).kind = "dmabuf" => Times(Frame(s), q) = Times(Frame(s), Tail(q))
                 /\ Head(q).kind = "frame_ready" =>
                       Times(Frame(s), q) =
                          Times(Frame(s), Tail(q)) + (IF Head(q).slot = s THEN 1 ELSE 0)
<1>1. /\ Dmabuf \in News /\ Frame(s) \in News /\ Dmabuf # Frame(s)
      /\ \A t \in Slots : Frame(t) \in News /\ (Frame(t) = Frame(s) <=> t = s)
  BY Messages
<1>2. \A x \in News : Times(Frame(s), Append(q, x)) =
                         Times(Frame(s), q) + (IF x = Frame(s) THEN 1 ELSE 0)
  BY TimesAppend
<1>3. Times(Frame(s), q) \in Nat
  BY TimesType
<1>4. Times(Frame(s), Append(q, Dmabuf)) = Times(Frame(s), q) + 0
  BY <1>1, <1>2
<1>5. ASSUME NEW t \in Slots
      PROVE  Times(Frame(s), Append(q, Frame(t))) =
                Times(Frame(s), q) + (IF t = s THEN 1 ELSE 0)
  BY <1>1, <1>2
<1>6. ASSUME q # <<>>
      PROVE  /\ Head(q).kind = "dmabuf" => Times(Frame(s), q) = Times(Frame(s), Tail(q))
             /\ Head(q).kind = "frame_ready" =>
                   Times(Frame(s), q) =
                      Times(Frame(s), Tail(q)) + (IF Head(q).slot = s THEN 1 ELSE 0)
  <2>1. PICK m \in News : m = Head(q)
    BY <1>6
  <2>2. Times(Frame(s), q) = Times(Frame(s), Tail(q)) + (IF m = Frame(s) THEN 1 ELSE 0)
    BY <1>1, <1>6, <2>1, TimesTail
  <2>3. /\ m.kind = "dmabuf" => m # Frame(s)
        /\ m.kind = "frame_ready" => (m = Frame(s) <=> m.slot = s)
    BY Messages
  <2>4. Times(Frame(s), Tail(q)) \in Nat
    BY <1>6, TimesType, QueueFacts
  <2> QED BY <2>1, <2>2, <2>3, <2>4
<1> QED BY <1>3, <1>4, <1>5, <1>6

Hellos == Times(Hello, work_q)

(* The steps that move a slot from one place to the next, and the steps    *)
(* that have nothing to do with slots, keep the number of copies and of    *)
(* greetings to come; so does a draw that copies.                          *)
Moves ==
    \/ Start \/ (\E z \in Sizes : SendResolution(z)) \/ NextFrame
    \/ ConnectFails \/ RunResolution \/ SendSize \/ OnDmabuf \/ OnFrame
    \/ RunFrame /\ link = "open"
    \/ ServerStarts \/ ServerBus \/ ServerRun \/ UNCHANGED vars

LEMMA CopiesMoved ==
    ASSUME TypeOK, TypeOK', Links, Moves \/ DrawCopy, NEW s \in Slots
    PROVE  Copies(s)' = Copies(s) /\ Hellos' = Hellos
<1> USE DEF Hellos
<1>1. /\ Times(s, frame_queue) \in Nat
      /\ Times(Frame(s), work_q) \in Nat /\ Times(Frame(s), to_server) \in Nat
      /\ Times(s, server_queue) \in Nat /\ Times(Frame(s), to_client) \in Nat
      /\ Times(Hello, work_q) \in Nat /\ Times(Hello, to_server) \in Nat
  BY CopiesType
<1>2. /\ Times(s, frame_queue') \in Nat
      /\ Times(Frame(s), work_q') \in Nat /\ Times(Frame(s), to_server') \in Nat
      /\ Times(s, server_queue') \in Nat /\ Times(Frame(s), to_client') \in Nat
      /\ Times(Hello, work_q') \in Nat
  <2>1. /\ \A q \in Seq(Work) : Times(Frame(s), q) \in Nat /\ Times(Hello, q) \in Nat
        /\ \A q \in Seq(Slots) : Times(s, q) \in Nat
        /\ \A q \in Seq(News) : Times(Frame(s), q) \in Nat
    BY TimesType
  <2> QED BY <2>1 DEF TypeOK
<1>3. CASE Start \/ (\E z \in Sizes : SendResolution(z)) \/ NextFrame \/ DrawCopy
  <2>1. CASE Start
    BY <2>1 DEF Start, Copies, overlay, shown, wire, server
  <2>2. ASSUME NEW z \in Sizes,
       SendResolution(z) PROVE Copies(s)' = Copies(s) /\ Hellos' = Hellos
    <3>1. /\ Times(Frame(s), work_q') = Times(Frame(s), work_q)
          /\ Times(Hello, work_q') = Times(Hello, work_q)
      BY <2>2, WorkMoves DEF SendResolution, TypeOK
    <3> QED BY <2>2, <3>1 DEF SendResolution, Copies, shown, wire, server
  <2>3. CASE NextFrame
    <3>1. Head(frame_queue) \in Slots /\ current_slot' = Head(frame_queue)
      BY <2>3 DEF NextFrame, TypeOK
    <3>2. Times(s, frame_queue) = Times(s, frame_queue') + (IF current_slot' = s THEN 1 ELSE 0)
      BY <2>3, SlotMoves DEF NextFrame, TypeOK
    <3>3. current_slot # s
      BY <2>3, NoSlotIsNone DEF NextFrame
    <3> QED BY <1>1, <1>2, <2>3, <3>2, <3>3 DEF NextFrame, Copies, client, wire, server
  <2>4. CASE DrawCopy
    <3>1. current_slot \in Slots /\ current_slot' # s
      BY <2>4, NoSlotIsNone DEF DrawCopy, TypeOK
    <3>2. /\ Times(Frame(s), work_q') =
                Times(Frame(s), work_q) + (IF current_slot = s THEN 1 ELSE 0)
          /\ Times(Hello, work_q') = Times(Hello, work_q)
      BY <2>4, <3>1, WorkMoves DEF DrawCopy, TypeOK
    <3> QED BY <1>1, <1>2, <2>4, <3>1, <3>2 DEF DrawCopy, Copies, wire, server
  <2> QED BY <1>3, <2>1, <2>2, <2>3, <2>4
<1>4. CASE ConnectFails \/ UNCHANGED vars
  BY <1>4 DEF ConnectFails, Copies, vars, client, overlay, shown, wire, server
<1>5. CASE RunResolution
  <2>1. /\ Times(Frame(s), work_q') = Times(Frame(s), work_q)
        /\ Times(Hello, work_q') = Times(Hello, work_q)
    BY <1>5, WorkMoves DEF RunResolution, TakesWork, TypeOK
  <2> QED BY <1>5, <2>1 DEF RunResolution, Copies, overlay, shown, wire, server
<1>6. CASE SendSize
  <2>1. Times(Frame(s), to_server') = Times(Frame(s), to_server)
    BY <1>6, WorkMoves DEF SendSize, Sent, TypeOK
  <2> QED BY <1>6, <2>1 DEF SendSize, Copies, overlay, shown, server
<1>7. CASE OnDmabuf \/ OnFrame
  <2>1. UNCHANGED <<current_slot, work_q, to_server, server_queue>>
    BY <1>7 DEF OnDmabuf, OnFrame, client, shown, server
  <2>2. CASE OnDmabuf
    <3>1. Times(Frame(s), to_client') = Times(Frame(s), to_client)
      BY <2>2, NewsMoves DEF OnDmabuf, Hears, TypeOK
    <3> QED BY <2>1, <2>2, <3>1 DEF OnDmabuf, Copies
  <2>3. CASE OnFrame
    <3>1. Head(to_client).slot \in Slots /\ Head(to_client).kind = "frame_ready"
      BY <2>3, Messages DEF OnFrame, Hears, TypeOK
    <3>2. /\ Times(s, frame_queue') =
                Times(s, frame_queue) + (IF Head(to_client).slot = s THEN 1 ELSE 0)
          /\ Times(Frame(s), to_client) =
                Times(Frame(s), to_client') + (IF Head(to_client).slot = s THEN 1 ELSE 0)
      BY <2>3, <3>1, SlotMoves, NewsMoves DEF OnFrame, Hears, TypeOK
    <3>3. Times(s, frame_queue') + Times(Frame(s), to_client') =
             Times(s, frame_queue) + Times(Frame(s), to_client)
      BY <1>1, <1>2, <3>2
    <3> QED BY <1>1, <1>2, <2>1, <3>3 DEF Copies
  <2> QED BY <1>7, <2>2, <2>3
<1>8. CASE RunFrame /\ link = "open"
  <2>1. /\ work_q # <<>> /\ work_q' = Tail(work_q) /\ Head(work_q).kind = "frame_ready"
        /\ to_server' = Append(to_server, Head(work_q))
    BY <1>8 DEF RunFrame, TakesWork, Sent
  <2>2. Head(work_q).slot \in Slots /\ Head(work_q) = Frame(Head(work_q).slot)
    BY <2>1, Messages DEF TypeOK
  <2>3. /\ Times(Frame(s), work_q) =
              Times(Frame(s), work_q') + (IF Head(work_q).slot = s THEN 1 ELSE 0)
        /\ Times(Hello, work_q) = Times(Hello, work_q')
    BY <2>1, WorkMoves DEF TypeOK
  <2>4. Times(Frame(s), to_server') =
           Times(Frame(s), to_server) + (IF Head(work_q).slot = s THEN 1 ELSE 0)
    BY <2>1, <2>2, WorkMoves DEF TypeOK
  <2> QED BY <1>1, <1>2, <1>8, <2>3, <2>4 DEF RunFrame, Copies, overlay, shown, server
<1>9. CASE ServerStarts
  BY <1>9 DEF ServerStarts, Copies, client, overlay, shown, wire
<1>10. CASE ServerBus
  <2>1. CASE ServerGreeted \/ ServerSized
    <3>1. /\ to_server # <<>> /\ to_server' = Tail(to_server)
          /\ Head(to_server).kind \in {"on_connect", "resolution"}
      BY <2>1 DEF ServerGreeted, ServerSized, Receives
    <3>2. Times(Frame(s), to_server') = Times(Frame(s), to_server)
      BY <3>1, WorkMoves DEF TypeOK
    <3> QED BY <2>1, <3>2 DEF ServerGreeted, ServerSized, Receives, Copies, client,
         overlay, shown
  <2>2. CASE ServerReceivesFrame
    <3>1. /\ to_server # <<>> /\ to_server' = Tail(to_server)
          /\ Head(to_server).kind = "frame_ready"
          /\ server_queue' = Append(server_queue, Head(to_server).slot)
      BY <2>2 DEF ServerReceivesFrame, Receives
    <3>2. Head(to_server).slot \in Slots
      BY <3>1, Messages DEF TypeOK
    <3>3. Times(Frame(s), to_server) =
             Times(Frame(s), to_server') + (IF Head(to_server).slot = s THEN 1 ELSE 0)
      BY <3>1, WorkMoves DEF TypeOK
    <3>4. Times(s, server_queue') =
             Times(s, server_queue) + (IF Head(to_server).slot = s THEN 1 ELSE 0)
      BY <3>1, <3>2, SlotMoves DEF TypeOK
    <3>5. Times(Frame(s), to_server') + Times(s, server_queue') =
             Times(Frame(s), to_server) + Times(s, server_queue)
      BY <1>1, <1>2, <3>3, <3>4
    <3>6. UNCHANGED <<frame_queue, current_slot, work_q, to_client>>
      BY <2>2 DEF ServerReceivesFrame, Receives, client, overlay, shown
    <3> QED BY <1>1, <1>2, <3>5, <3>6 DEF Copies
  <2> QED BY <1>10, <2>1, <2>2 DEF ServerBus
<1>11. CASE ServerRun
  <2>1. UNCHANGED <<frame_queue, current_slot, work_q, to_server>>
    BY <1>11 DEF ServerRun, ServerAnnounces, ServerRenders, client, overlay, shown
  <2>2. CASE ServerAnnounces
    <3>1. Times(Frame(s), to_client') = Times(Frame(s), to_client)
      BY <2>2, NewsMoves DEF ServerAnnounces, TypeOK
    <3> QED BY <2>1, <2>2, <3>1 DEF ServerAnnounces, Copies
  <2>3. CASE ServerRenders
    <3>1. Head(server_queue) \in Slots
      BY <2>3 DEF ServerRenders, TypeOK
    <3>2. /\ Times(s, server_queue) =
                Times(s, server_queue') + (IF Head(server_queue) = s THEN 1 ELSE 0)
          /\ Times(Frame(s), to_client') =
                Times(Frame(s), to_client) + (IF Head(server_queue) = s THEN 1 ELSE 0)
      BY <2>3, <3>1, SlotMoves, NewsMoves DEF ServerRenders, TypeOK
    <3>3. Times(s, server_queue') + Times(Frame(s), to_client') =
             Times(s, server_queue) + Times(Frame(s), to_client)
      BY <1>1, <1>2, <3>2
    <3> QED BY <1>1, <1>2, <2>1, <3>3 DEF Copies
  <2> QED BY <1>11, <2>2, <2>3 DEF ServerRun
<1> QED BY <1>3, <1>4, <1>5, <1>6, <1>7, <1>8, <1>9, <1>10, <1>11 DEF Moves

(* A draw from the cache drops one copy of the slot drawn last.            *)
LEMMA CopiesDropped ==
    ASSUME TypeOK, TypeOK', DrawCached, NEW s \in Slots
    PROVE  /\ Copies(s) = Copies(s)' + (IF s = last_slot THEN 1 ELSE 0)
           /\ Hellos' = Hellos
<1>1. /\ Times(s, frame_queue) \in Nat
      /\ Times(Frame(s), work_q) \in Nat /\ Times(Frame(s), to_server) \in Nat
      /\ Times(s, server_queue) \in Nat /\ Times(Frame(s), to_client) \in Nat
  BY CopiesType
<1>2. UNCHANGED <<frame_queue, work_q, to_server, server_queue, to_client>>
  BY DEF DrawCached, client, wire, server
<1>3. current_slot = last_slot /\ current_slot' # s
  BY NoSlotIsNone DEF DrawCached
<1> QED BY <1>1, <1>2, <1>3 DEF Copies, Hellos

(* The steps that end or open a connection lose copies and make none.      *)
LEMMA CopiesLost ==
    ASSUME TypeOK, TypeOK', Links, NEW s \in Slots,
           Connect \/ OnDisconnected \/ ServerStops \/ (RunFrame /\ link # "open")
    PROVE  /\ Copies(s)' <= Copies(s)
           /\ Hellos' = Hellos + (IF Connect THEN 1 ELSE 0)
<1> USE DEF Hellos
<1>1. /\ Times(s, frame_queue) \in Nat
      /\ Times(Frame(s), work_q) \in Nat /\ Times(Frame(s), to_server) \in Nat
      /\ Times(s, server_queue) \in Nat /\ Times(Frame(s), to_client) \in Nat
      /\ Times(Hello, work_q) \in Nat
  BY CopiesType
<1>2. \A m : Times(m, <<>>) = 0
  BY TimesEmpty
<1>3. CASE Connect
  <2>1. /\ Times(Frame(s), work_q') = Times(Frame(s), work_q)
        /\ Times(Hello, work_q') = Times(Hello, work_q) + 1
    BY <1>3, WorkMoves DEF Connect, TypeOK
  <2>2. Times(Frame(s), to_server') = 0 /\ Times(Frame(s), to_client') = 0
    BY <1>2, <1>3 DEF Connect
  <2> QED BY <1>1, <1>3, <2>1, <2>2 DEF Connect, Copies, overlay, shown, server
<1>4. CASE OnDisconnected
  <2>1. Times(Frame(s), to_client') = 0 /\ ~Connect
    BY <1>2, <1>4 DEF OnDisconnected, Dispatching, Connect
  <2> QED BY <1>1, <1>4, <2>1 DEF OnDisconnected, Copies, overlay, shown, server
<1>5. CASE ServerStops
  <2>1. Times(Frame(s), to_server') = 0 /\ Times(s, server_queue') = 0
    BY <1>2, <1>5 DEF ServerStops
  <2>2. ~Connect
    BY <1>5 DEF ServerStops, Connect, server
  <2> QED BY <1>1, <1>5, <2>1, <2>2 DEF ServerStops, Copies, client, overlay, shown
<1>6. CASE RunFrame /\ link # "open"
  <2>1. ~Connect /\ to_server' = to_server
    BY <1>6 DEF RunFrame, TakesWork, Dispatching, Sent, Connect
  <2>2. /\ Times(Frame(s), work_q) =
              Times(Frame(s), work_q') + (IF Head(work_q).slot = s THEN 1 ELSE 0)
        /\ Times(Hello, work_q) = Times(Hello, work_q')
    BY <1>6, WorkMoves DEF RunFrame, TakesWork, TypeOK
  <2>3. Times(Frame(s), work_q') \in Nat
    BY TimesType DEF TypeOK
  <2> QED BY <1>1, <1>6, <2>1, <2>2, <2>3 DEF RunFrame, Copies, overlay, shown, server
<1> QED BY <1>3, <1>4, <1>5, <1>6

(* A greeting sent to a server hands every slot out once more; one that    *)
(* cannot be sent hands out nothing.                                       *)
LEMMA CopiesMade ==
    ASSUME TypeOK, TypeOK', Links, RunHello, NEW s \in Slots
    PROVE  /\ Copies(s)' = Copies(s) + (IF link = "open" THEN 1 ELSE 0)
           /\ Hellos = Hellos' + 1
<1> USE DEF Hellos
<1>1. /\ Times(s, frame_queue) \in Nat
      /\ Times(Frame(s), work_q) \in Nat /\ Times(Frame(s), to_server) \in Nat
      /\ Times(s, server_queue) \in Nat /\ Times(Frame(s), to_client) \in Nat
      /\ Times(Hello, work_q) \in Nat
  BY CopiesType
<1>2. /\ Times(Frame(s), work_q) = Times(Frame(s), work_q')
      /\ Times(Hello, work_q) = Times(Hello, work_q') + 1
  BY WorkMoves DEF RunHello, TakesWork, TypeOK
<1>3. Times(Frame(s), to_server') = Times(Frame(s), to_server)
  BY WorkMoves DEF RunHello, Sent, TypeOK
<1>4. Times(s, frame_queue') = Times(s, frame_queue) + (IF link = "open" THEN 1 ELSE 0)
  <2>1. CASE link = "open"
    BY <2>1, TimesHandedOut DEF RunHello, TypeOK
  <2>2. CASE link # "open"
    BY <1>1, <2>2 DEF RunHello
  <2> QED BY <2>1, <2>2
<1>5. UNCHANGED <<current_slot, server_queue, to_client>>
  BY DEF RunHello, shown, server
<1> QED BY <1>1, <1>2, <1>3, <1>4, <1>5 DEF Copies

(* The last slot that is in play, in the order in which they come to the   *)
(* overlay, is s.                                                          *)
NoFrames(q) == NoneOf("frame_ready", q)
LastFrame(q, s) == LastOf("frame_ready", Frame(s), q)
LastSlot(q, s) == q # <<>> /\ q[Len(q)] = s

OverlayRear(s) == LastSlot(frame_queue, s) \/ (frame_queue = <<>> /\ current_slot = s)
NewsRear(s) == LastFrame(to_client, s) \/ (NoFrames(to_client) /\ OverlayRear(s))
ServerRear(s) == LastSlot(server_queue, s) \/ (server_queue = <<>> /\ NewsRear(s))
WireRear(s) == LastFrame(to_server, s) \/ (NoFrames(to_server) /\ ServerRear(s))
Rear(s) == LastFrame(work_q, s) \/ (NoFrames(work_q) /\ WireRear(s))

LEMMA SlotsAppend ==
    ASSUME NEW q \in Seq(Slots), NEW t \in Slots
    PROVE  LastSlot(Append(q, t), t)
  BY DEF LastSlot

LEMMA SlotsTail ==
    ASSUME NEW q \in Seq(Slots), q # <<>>, NEW s
    PROVE  LastSlot(q, s) => LastSlot(Tail(q), s) \/ (Tail(q) = <<>> /\ Head(q) = s)
<1> SUFFICES ASSUME LastSlot(q, s)
             PROVE  LastSlot(Tail(q), s) \/ (Tail(q) = <<>> /\ Head(q) = s)
  OBVIOUS
<1>1. /\ Len(q) \in Nat \ {0} /\ Len(Tail(q)) = Len(q) - 1 /\ Tail(q) \in Seq(Slots)
      /\ (\A j \in 1 .. Len(q) - 1 : Tail(q)[j] = q[j + 1]) /\ q[1] = Head(q)
  OBVIOUS
<1>2. CASE Len(q) = 1
  <2>1. Len(Tail(q)) = 0 /\ Tail(q) \in Seq(Slots)
    BY <1>1, <1>2
  <2>2. Tail(q) = <<>>
    BY <2>1, EmptySeq
  <2> QED BY <1>1, <1>2, <2>2 DEF LastSlot
<1>3. CASE Len(q) # 1
  <2>1. Len(q) - 1 \in 1 .. Len(q) - 1 /\ (Len(q) - 1) + 1 = Len(q)
    BY <1>1, <1>3
  <2>2. Tail(q)[Len(q) - 1] = q[Len(q)]
    BY <1>1, <2>1
  <2>3. Tail(q) # <<>>
    <3>1. Len(Tail(q)) # 0 /\ Len(<<>>) = 0
      BY <1>1, <1>3
    <3> QED BY <3>1
  <2> QED BY <1>1, <2>2, <2>3 DEF LastSlot
<1> QED BY <1>2, <1>3

(* If the overlay holds the last slot in play while another is in play,   *)
(* then it holds a second copy of it and the last is in a queue.           *)
LEMMA BehindTheOverlay ==
    ASSUME TypeOK, NEW s \in Slots, current_slot = s, Rear(s),
           NEW t \in Slots, t # s, Copies(t) >= 1
    PROVE  /\ Copies(s) >= 2
           /\ ~ /\ NoFrames(work_q) /\ NoFrames(to_server) /\ server_queue = <<>>
                /\ NoFrames(to_client) /\ frame_queue = <<>>
<1>1. /\ Times(s, frame_queue) \in Nat
      /\ Times(Frame(s), work_q) \in Nat /\ Times(Frame(s), to_server) \in Nat
      /\ Times(s, server_queue) \in Nat /\ Times(Frame(s), to_client) \in Nat
  BY CopiesType
<1>2. /\ LastFrame(work_q, s) => Times(Frame(s), work_q) # 0
      /\ LastFrame(to_server, s) => Times(Frame(s), to_server) # 0
      /\ LastFrame(to_client, s) => Times(Frame(s), to_client) # 0
      /\ LastSlot(server_queue, s) => Times(s, server_queue) # 0
      /\ LastSlot(frame_queue, s) => Times(s, frame_queue) # 0
  <2>1. /\ \A q \in Seq(Work) : LastFrame(q, s) => Times(Frame(s), q) # 0
        /\ \A q \in Seq(News) : LastFrame(q, s) => Times(Frame(s), q) # 0
    BY TimesFound DEF LastFrame, LastOf
  <2>2. \A q \in Seq(Slots) : LastSlot(q, s) => Times(s, q) # 0
    <3> TAKE q \in Seq(Slots)
    <3> HAVE LastSlot(q, s)
    <3>1. q # <<>> /\ q[Len(q)] = s
      BY DEF LastSlot
    <3>2. Len(q) \in DOMAIN q
      BY <3>1
    <3> QED BY <3>1, <3>2, TimesFound
  <2> QED BY <2>1, <2>2 DEF TypeOK
<1>3. ~ /\ NoFrames(work_q) /\ NoFrames(to_server) /\ server_queue = <<>>
        /\ NoFrames(to_client) /\ frame_queue = <<>>
  <2> SUFFICES ASSUME NoFrames(work_q), NoFrames(to_server), server_queue = <<>>,
                      NoFrames(to_client), frame_queue = <<>>
               PROVE  FALSE
    OBVIOUS
  <2>1. Frame(t).kind = "frame_ready"
    BY Messages
  <2>2. /\ \A q \in Seq(Work) : NoFrames(q) => Times(Frame(t), q) = 0
        /\ \A q \in Seq(News) : NoFrames(q) => Times(Frame(t), q) = 0
    BY <2>1, TimesFound DEF NoFrames, NoneOf
  <2>3. /\ Times(Frame(t), work_q) = 0 /\ Times(Frame(t), to_server) = 0
        /\ Times(Frame(t), to_client) = 0
    BY <2>2 DEF TypeOK
  <2>4. Times(t, server_queue) = 0 /\ Times(t, frame_queue) = 0
    BY TimesEmpty
  <2> QED BY <2>3, <2>4 DEF Copies
<1>4. Copies(s) >= 2
  <2>1. \/ LastFrame(work_q, s) \/ LastFrame(to_server, s) \/ LastSlot(server_queue, s)
        \/ LastFrame(to_client, s) \/ LastSlot(frame_queue, s)
    BY <1>3 DEF Rear, WireRear, ServerRear, NewsRear, OverlayRear
  <2> QED BY <1>1, <1>2, <2>1 DEF Copies
<1> QED BY <1>3, <1>4

(* A slot goes from the front of one place to the back of the place before *)
(* it; whatever else is sent or taken is no slot.  So the order stays.     *)
LEMMA RearMoved ==
    ASSUME TypeOK, Moves, NEW s \in Slots, Rear(s)
    PROVE  Rear(s)'
<1> USE DEF NoFrames, LastFrame
<1>1. \A q \in Seq(Work), m \in Work :
         /\ m.kind # "frame_ready" =>
               /\ NoFrames(q) => NoFrames(Append(q, m))
               /\ LastFrame(q, s) => LastFrame(Append(q, m), s)
         /\ m = Frame(s) => LastFrame(Append(q, m), s)
  BY LastAppend
<1>2. \A q \in Seq(News), m \in News :
         /\ m.kind # "frame_ready" =>
               /\ NoFrames(q) => NoFrames(Append(q, m))
               /\ LastFrame(q, s) => LastFrame(Append(q, m), s)
         /\ m = Frame(s) => LastFrame(Append(q, m), s)
  BY LastAppend
<1>3. \A q \in Seq(Work) : q # <<>> =>
         /\ NoFrames(q) => NoFrames(Tail(q)) /\ Head(q).kind # "frame_ready"
         /\ LastFrame(q, s) => \/ LastFrame(Tail(q), s)
                               \/ (Head(q) = Frame(s) /\ NoFrames(Tail(q)))
  BY LastTail
<1>4. \A q \in Seq(News) : q # <<>> =>
         /\ NoFrames(q) => NoFrames(Tail(q)) /\ Head(q).kind # "frame_ready"
         /\ LastFrame(q, s) => \/ LastFrame(Tail(q), s)
                               \/ (Head(q) = Frame(s) /\ NoFrames(Tail(q)))
  BY LastTail
<1>5. /\ work_q \in Seq(Work) /\ to_server \in Seq(Work) /\ to_client \in Seq(News)
      /\ server_queue \in Seq(Slots) /\ frame_queue \in Seq(Slots)
  BY DEF TypeOK
<1>6. Frame(s).kind = "frame_ready" /\ Frame(s).slot = s
  BY Messages
<1> USE DEF Rear, WireRear, ServerRear, NewsRear, OverlayRear
<1> HIDE DEF NoFrames, LastFrame
<1>7. CASE \/ Start \/ ConnectFails \/ ServerStarts \/ UNCHANGED vars
  BY <1>7 DEF Start, ConnectFails, ServerStarts, vars, client, overlay, shown, wire, server
<1>8. ASSUME NEW z \in Sizes, SendResolution(z) PROVE Rear(s)'
  <2>1. Size(z) \in Work /\ Size(z).kind # "frame_ready"
    BY Messages
  <2>2. /\ NoFrames(work_q) => NoFrames(work_q')
        /\ LastFrame(work_q, s) => LastFrame(work_q', s)
    BY <1>1, <1>5, <1>8, <2>1 DEF SendResolution
  <2> QED BY <1>8, <2>2 DEF SendResolution, shown, wire, server
<1>9. CASE NextFrame
  <2>1. LastSlot(frame_queue, s) =>
           LastSlot(frame_queue', s) \/ (frame_queue' = <<>> /\ current_slot' = s)
    BY <1>5, <1>9, SlotsTail DEF NextFrame
  <2>2. frame_queue # <<>>
    BY <1>9 DEF NextFrame
  <2> QED BY <1>9, <2>1, <2>2 DEF NextFrame, client, wire, server
<1>10. CASE RunResolution
  <2>1. /\ NoFrames(work_q) => NoFrames(work_q')
        /\ LastFrame(work_q, s) => LastFrame(work_q', s)
    BY <1>3, <1>5, <1>6, <1>10 DEF RunResolution, TakesWork
  <2> QED BY <1>10, <2>1 DEF RunResolution, overlay, shown, wire, server
<1>11. CASE SendSize
  <2>1. signalling \in Sizes
    BY <1>11 DEF SendSize, TypeOK
  <2>2. Size(signalling) \in Work /\ Size(signalling).kind # "frame_ready"
    BY <2>1, Messages
  <2>3. /\ NoFrames(to_server) => NoFrames(to_server')
        /\ LastFrame(to_server, s) => LastFrame(to_server', s)
    BY <1>1, <1>5, <1>11, <2>2 DEF SendSize, Sent
  <2> QED BY <1>11, <2>3 DEF SendSize, overlay, shown, server
<1>12. CASE OnDmabuf
  <2>1. /\ NoFrames(to_client) => NoFrames(to_client')
        /\ LastFrame(to_client, s) => LastFrame(to_client', s)
    BY <1>4, <1>5, <1>6, <1>12 DEF OnDmabuf, Hears
  <2> QED BY <1>12, <2>1 DEF OnDmabuf, client, server
<1>13. CASE OnFrame
  <2>1. /\ ~NoFrames(to_client)
        /\ LastFrame(to_client, s) =>
              LastFrame(to_client', s) \/ (Head(to_client) = Frame(s) /\ NoFrames(to_client'))
    BY <1>4, <1>5, <1>13 DEF OnFrame, Hears
  <2>2. Head(to_client) = Frame(s) => LastSlot(frame_queue', s)
    BY <1>5, <1>6, <1>13, SlotsAppend DEF OnFrame
  <2> QED BY <1>13, <2>1, <2>2 DEF OnFrame, client, shown, server
<1>14. CASE RunFrame /\ link = "open"
  <2>1. /\ ~NoFrames(work_q)
        /\ LastFrame(work_q, s) =>
              LastFrame(work_q', s) \/ (Head(work_q) = Frame(s) /\ NoFrames(work_q'))
    BY <1>3, <1>5, <1>14 DEF RunFrame, TakesWork
  <2>2. Head(work_q) = Frame(s) => LastFrame(to_server', s)
    BY <1>1, <1>5, <1>14, Messages DEF RunFrame, Sent
  <2> QED BY <1>14, <2>1, <2>2 DEF RunFrame, overlay, shown, server
<1>15. CASE ServerBus
  <2>1. CASE ServerGreeted \/ ServerSized
    <3>1. /\ NoFrames(to_server) => NoFrames(to_server')
          /\ LastFrame(to_server, s) => LastFrame(to_server', s)
      BY <1>3, <1>5, <1>6, <2>1 DEF ServerGreeted, ServerSized, Receives
    <3> QED BY <2>1, <3>1 DEF ServerGreeted, ServerSized, Receives, client, overlay, shown
  <2>2. CASE ServerReceivesFrame
    <3>1. /\ ~NoFrames(to_server)
          /\ LastFrame(to_server, s) =>
                LastFrame(to_server',
                s) \/ (Head(to_server) = Frame(s) /\ NoFrames(to_server'))
      BY <1>3, <1>5, <2>2 DEF ServerReceivesFrame, Receives
    <3>2. Head(to_server) = Frame(s) => LastSlot(server_queue', s)
      BY <1>5, <1>6, <2>2, SlotsAppend DEF ServerReceivesFrame
    <3> QED BY <2>2, <3>1, <3>2 DEF ServerReceivesFrame, Receives, client, overlay, shown
  <2> QED BY <1>15, <2>1, <2>2 DEF ServerBus
<1>16. CASE ServerRun
  <2>1. CASE ServerAnnounces
    <3>1. /\ NoFrames(to_client) => NoFrames(to_client')
          /\ LastFrame(to_client, s) => LastFrame(to_client', s)
      BY <1>2, <1>5, <2>1, Messages DEF ServerAnnounces
    <3> QED BY <2>1, <3>1 DEF ServerAnnounces, client, overlay, shown
  <2>2. CASE ServerRenders
    <3>1. /\ server_queue # <<>>
          /\ LastSlot(server_queue, s) =>
                LastSlot(server_queue', s) \/ (Head(server_queue) = s /\ server_queue' = <<>>)
      BY <1>5, <2>2, SlotsTail DEF ServerRenders
    <3>2. Head(server_queue) = s => LastFrame(to_client', s)
      BY <1>2, <1>5, <2>2, Messages DEF ServerRenders
    <3> QED BY <2>2, <3>1, <3>2 DEF ServerRenders, client, overlay, shown
  <2> QED BY <1>16, <2>1, <2>2 DEF ServerRun
<1> QED BY <1>7, <1>8, <1>9, <1>10, <1>11, <1>12, <1>13, <1>14, <1>15, <1>16 DEF Moves

(* The slot the overlay drew last is the last one to come again: it is not *)
(* dropped as long as another slot is in play.                             *)
Rotated == last_slot \in Slots /\ Copies(last_slot) >= 1 => Rear(last_slot)

(* A server that has been greeted, or will be by what is on the wire, has  *)
(* every slot in play, or every slot but one and none will be dropped any  *)
(* more; and every copy, with every greeting that will make one, is owed   *)
(* to a start of the server.                                               *)
InPlay(a) == Rotated /\ \A s \in Slots \ {a} : Copies(s) >= 1
Playing ==
    link = "open" /\ (greeted \/ Times(Hello, to_server) # 0) /\ BufferSize > 2 =>
        (\A s \in Slots : Copies(s) >= 1) \/ (\E a \in Slots : InPlay(a))
Unmet == IF up /\ link # "open" THEN 1 ELSE 0
Counted == \A s \in Slots : Copies(s) + Hellos + Unmet <= starts

SlotInv == Links /\ Playing /\ Counted

LEMMA SlotInvInit == Init => SlotInv
<1> SUFFICES ASSUME Init PROVE SlotInv
  OBVIOUS
<1>1. Links
  BY DEF Init, Links
<1>2. Playing
  BY <1>1 DEF Init, Playing
<1>3. Counted
  <2> SUFFICES ASSUME NEW s \in Slots PROVE Copies(s) + Hellos + Unmet <= starts
    BY DEF Counted
  <2>1. Copies(s) = 0 /\ Hellos = 0
    BY TimesEmpty, NoSlotIsNone DEF Init, Copies, Hellos
  <2> QED BY <2>1 DEF Init, Unmet
<1> QED BY <1>1, <1>2, <1>3 DEF SlotInv

(* What the steps other than RunHello do to the connection.                *)
LEMMA LinkSteps ==
    ASSUME TypeOK, Links, [Next]_vars
    PROVE  /\ link' = "open" => link = "open" \/ Connect
           /\ Connect => /\ up /\ link = "none" /\ ~greeted
                         /\ UNCHANGED <<up, starts, greeted>> /\ to_server' = <<>>
           /\ ~Connect => Unmet' + starts <= Unmet + starts'
           /\ Connect => Unmet = 1 /\ Unmet' = 0
           /\ starts' >= starts
<1> USE DEF Links, TypeOK, Unmet
<1>1. CASE App
  BY <1>1 DEF App, Start, SendResolution, NextFrame, Draw, DrawCopy, DrawCached,
       Connect, client, overlay, shown, wire, server
<1>2. CASE BusThread
  BY <1>2 DEF BusThread, ConnectFails, Connect, RunHello, RunResolution, SendSize,
       RunFrame, OnDmabuf, OnFrame, Hears, OnDisconnected, TakesWork, Dispatching,
       vars, client, overlay, shown, wire, server
<1>3. CASE ServerStarts
  <2>1. ~Connect /\ link' = link /\ starts' = starts + 1 /\ ~up
    BY <1>3 DEF ServerStarts, Connect, wire
  <2>2. starts \in Int
    OBVIOUS
  <2> HIDE DEF TypeOK
  <2> QED BY <2>1, <2>2
<1>4. CASE ServerStops
  <2>1. ~Connect /\ link' # "open" /\ starts' = starts /\ up /\ ~up'
    BY <1>4 DEF ServerStops, Connect, server
  <2>2. starts \in Int
    OBVIOUS
  <2>3. Unmet' = 0 /\ Unmet \in Nat
    BY <2>1
  <2> HIDE DEF TypeOK, Links, Unmet
  <2>4. Unmet' + starts <= Unmet + starts'
    BY <2>1, <2>2, <2>3
  <2>5. starts' >= starts
    BY <2>1, <2>2
  <2> QED BY <2>1, <2>4, <2>5
<1>5. CASE ServerBus
  BY <1>5 DEF ServerBus, ServerGreeted, ServerSized, ServerReceivesFrame, Receives, Connect,
              client, overlay, shown, wire, server
<1>6. CASE ServerRun
  BY <1>6 DEF ServerRun, ServerAnnounces, ServerRenders, Connect, client, overlay,
       shown, wire, server
<1>7. CASE UNCHANGED vars
  BY <1>7 DEF vars, Connect, client, overlay, shown, wire, server
<1> QED BY <1>1, <1>2, <1>3, <1>4, <1>5, <1>6, <1>7 DEF Next

(* A server is greeted by a greeting that was on the wire, and only        *)
(* RunHello puts one there.                                                *)
LEMMA GreetingSteps ==
    ASSUME TypeOK, Links, [Next]_vars, ~RunHello, link = "open",
           link' = "open", greeted' \/ Times(Hello, to_server') # 0
    PROVE  greeted \/ Times(Hello, to_server) # 0
<1>1. CASE App \/ ServerStarts \/ ServerRun \/ UNCHANGED vars
  BY <1>1 DEF App, Start, SendResolution, NextFrame, Draw, DrawCopy, DrawCached,
       ServerStarts, ServerRun, ServerAnnounces, ServerRenders, vars, client,
       overlay, shown, wire, server
<1>2. CASE BusThread
  <2>1. CASE ConnectFails \/ RunResolution \/ OnDmabuf \/ OnFrame
    BY <2>1 DEF ConnectFails, RunResolution, OnDmabuf, OnFrame, Hears, vars, client,
         overlay, shown, wire, server
  <2>2. CASE Connect \/ OnDisconnected
    BY <2>2 DEF Connect, OnDisconnected, Links
  <2>3. CASE SendSize
    <3>1. 0 \in Slots
      BY DEF Slots
    <3>2. Times(Hello, to_server') = Times(Hello, to_server)
      BY <2>3, <3>1, WorkMoves DEF SendSize, Sent, TypeOK
    <3> QED BY <2>3, <3>2 DEF SendSize, server
  <2>4. CASE RunFrame
    <3>1. /\ work_q # <<>> /\ Head(work_q).kind = "frame_ready"
          /\ to_server' = Append(to_server, Head(work_q))
      BY <2>4 DEF RunFrame, TakesWork, Sent
    <3>2. Head(work_q).slot \in Slots /\ Head(work_q) = Frame(Head(work_q).slot)
      BY <3>1, Messages DEF TypeOK
    <3>3. Times(Hello, to_server') = Times(Hello, to_server)
      BY <3>1, <3>2, WorkMoves DEF TypeOK
    <3> QED BY <2>4, <3>3 DEF RunFrame, server
  <2> QED BY <1>2, <2>1, <2>2, <2>3, <2>4 DEF BusThread
<1>3. CASE ServerStops
  BY <1>3 DEF ServerStops
<1>4. CASE ServerBus
  <2>1. to_server # <<>> /\ to_server' = Tail(to_server)
    BY <1>4 DEF ServerBus, ServerGreeted, ServerSized, ServerReceivesFrame, Receives
  <2>2. CASE ServerGreeted
    <3>1. Head(to_server).kind = "on_connect" /\ 0 \in Slots
      BY <2>2 DEF ServerGreeted, Receives, Slots
    <3>2. Times(Hello, to_server) = Times(Hello, Tail(to_server)) + 1
      BY <2>1, <3>1, WorkMoves DEF TypeOK
    <3>3. Times(Hello, Tail(to_server)) \in Nat
      BY <2>1, TimesType, QueueFacts DEF TypeOK
    <3> QED BY <3>2, <3>3
  <2>3. CASE ServerSized \/ ServerReceivesFrame
    <3>1. Head(to_server).kind \in {"resolution", "frame_ready"} /\ 0 \in Slots
      BY <2>3 DEF ServerSized, ServerReceivesFrame, Receives, Slots
    <3>2. Times(Hello, to_server) = Times(Hello, Tail(to_server))
      BY <2>1, <3>1, WorkMoves DEF TypeOK
    <3> QED BY <2>1, <2>3, <3>2 DEF ServerSized, ServerReceivesFrame
  <2> QED BY <1>4, <2>2, <2>3 DEF ServerBus
<1> QED BY <1>1, <1>2, <1>3, <1>4 DEF Next, BusThread

(* The steps of an open connection other than its greeting.                *)
LEMMA PlayingMoved ==
    ASSUME TypeOK, TypeOK', Links, Moves,
           (\A s \in Slots : Copies(s) >= 1) \/ (\E a \in Slots : InPlay(a))
    PROVE  (\A s \in Slots : Copies(s)' >= 1) \/ (\E a \in Slots : InPlay(a)')
<1>1. \A s \in Slots : Copies(s)' = Copies(s)
  BY CopiesMoved
<1>2. ASSUME Rotated PROVE Rotated'
  <2>1. last_slot' = last_slot \/ last_slot' = NoSlot
    BY DEF Moves, Start, SendResolution, NextFrame, ConnectFails, RunResolution,
         SendSize, OnDmabuf, OnFrame, RunFrame, ServerStarts, ServerBus,
         ServerGreeted, ServerSized, ServerReceivesFrame, Receives, ServerRun,
         ServerAnnounces, ServerRenders, vars, overlay, shown
  <2>2. ASSUME last_slot' = last_slot, last_slot \in Slots, Copies(last_slot)' >= 1
        PROVE  Rear(last_slot)'
    <3>1. PICK s \in Slots : s = last_slot
      BY <2>2
    <3>2. Copies(s)' >= 1
      BY <2>2, <3>1
    <3>3. Rear(s)
      BY <1>1, <1>2, <3>1, <3>2 DEF Rotated
    <3>4. Rear(s)'
      BY <3>3, RearMoved
    <3> QED BY <2>2, <3>1, <3>4
  <2>3. CASE last_slot' = last_slot
    BY <2>2, <2>3 DEF Rotated
  <2>4. CASE last_slot' = NoSlot
    BY <2>4, NoSlotIsNone DEF Rotated
  <2> QED BY <2>1, <2>3, <2>4
<1> QED BY <1>1, <1>2 DEF InPlay

(* The slot that is copied goes to the end.                                *)
LEMMA PlayingDrawn ==
    ASSUME TypeOK, TypeOK', Links, DrawCopy,
           (\A s \in Slots : Copies(s) >= 1) \/ (\E a \in Slots : InPlay(a))
    PROVE  (\A s \in Slots : Copies(s)' >= 1) \/ (\E a \in Slots : InPlay(a)')
<1>1. \A s \in Slots : Copies(s)' = Copies(s)
  BY CopiesMoved
<1>2. Rotated'
  <2>1. current_slot \in Slots /\ last_slot' = current_slot
    BY DEF DrawCopy, TypeOK
  <2>2. LastFrame(work_q', current_slot)
    BY <2>1, LastAppend, Messages DEF DrawCopy, LastFrame, TypeOK
  <2> QED BY <2>1, <2>2 DEF Rotated, Rear
<1> QED BY <1>1, <1>2 DEF InPlay

(* Of three or more slots two are in play, so the one that is dropped is   *)
(* not the last: either it is in play a second time, or nothing had been   *)
(* dropped before.                                                         *)
LEMMA PlayingDropped ==
    ASSUME TypeOK, TypeOK', DrawCached, BufferSize > 2,
           (\A s \in Slots : Copies(s) >= 1) \/ (\E a \in Slots : InPlay(a))
    PROVE  (\A s \in Slots : Copies(s)' >= 1) \/ (\E a \in Slots : InPlay(a)')
<1>1. PICK h \in Slots : current_slot = h /\ last_slot = h /\ last_slot' = h
  BY DEF DrawCached, TypeOK
<1>2. \A s \in Slots : Copies(s) = Copies(s)' + (IF s = h THEN 1 ELSE 0)
  BY <1>1, CopiesDropped
<1>3. \A s \in Slots : Copies(s) \in Nat /\ Copies(s)' \in Nat
  BY CopiesType, CopiesTypeNext
<1>4. CASE \A s \in Slots : Copies(s) >= 1
  <2>1. \A s \in Slots \ {h} : Copies(s)' >= 1
    BY <1>2, <1>3, <1>4
  <2>2. CASE Copies(h)' >= 1
    BY <2>1, <2>2
  <2>3. CASE ~(Copies(h)' >= 1)
    <3>1. Rotated'
      BY <1>1, <2>3 DEF Rotated
    <3> QED BY <1>1, <2>1, <3>1 DEF InPlay
  <2> QED BY <2>2, <2>3
<1>5. ASSUME NEW a \in Slots, InPlay(a) PROVE InPlay(a)'
  <2>1. Rotated /\ \A s \in Slots \ {a} : Copies(s) >= 1
    BY <1>5 DEF InPlay
  <2>2. Copies(h) >= 1
    BY <1>1, <1>2, <1>3
  <2>3. Rear(h)
    BY <1>1, <2>1, <2>2 DEF Rotated
  <2>4. PICK t \in Slots : t # a /\ t # h
    <3>1. 0 \in Slots /\ 1 \in Slots /\ 2 \in Slots
      BY DEF Slots
    <3> QED BY <3>1
  <2>5. /\ Copies(h) >= 2
        /\ ~ /\ NoFrames(work_q) /\ NoFrames(to_server) /\ server_queue = <<>>
             /\ NoFrames(to_client) /\ frame_queue = <<>>
    BY <1>1, <2>1, <2>3, <2>4, BehindTheOverlay
  <2>6. Rear(h)'
    <3>1. UNCHANGED <<frame_queue, work_q, to_server, server_queue, to_client>>
      BY DEF DrawCached, client, wire, server
    <3> QED BY <2>3, <2>5, <3>1 DEF Rear, WireRear, ServerRear, NewsRear, OverlayRear
  <2>7. Rotated'
    BY <1>1, <2>6 DEF Rotated
  <2>8. \A s \in Slots \ {a} : Copies(s)' >= 1
    BY <1>2, <1>3, <2>1, <2>5
  <2> QED BY <2>7, <2>8 DEF InPlay
<1> QED BY <1>4, <1>5

LEMMA SlotInvNext ==
    ASSUME TypeOK, TypeOK', SlotInv, [Next]_vars
    PROVE  SlotInv'
<1>1. Links /\ Playing /\ Counted
  BY DEF SlotInv
<1>2. Links'
  BY <1>1, LinksNext
<1>3. ASSUME NEW s \in Slots
      PROVE  /\ Copies(s) \in Nat /\ Hellos \in Nat /\ Copies(s)' \in Nat /\ Hellos' \in Nat
             /\ Unmet \in Nat /\ Unmet' \in Nat /\ starts \in Nat /\ starts' \in Nat
  <2>1. Copies(s) \in Nat /\ Hellos \in Nat /\ Copies(s)' \in Nat /\ Hellos' \in Nat
    BY CopiesType, CopiesTypeNext DEF Hellos
  <2>2. starts \in Nat /\ starts' \in Nat
    BY DEF TypeOK
  <2> QED BY <2>1, <2>2 DEF Unmet
<1>4. \/ Moves \/ DrawCopy \/ DrawCached
      \/ Connect \/ OnDisconnected \/ ServerStops \/ (RunFrame /\ link # "open")
      \/ RunHello
  BY DEF Next, App, Draw, BusThread, Moves
<1>5. Playing'
  <2> SUFFICES ASSUME link' = "open", greeted' \/ Times(Hello, to_server') # 0, BufferSize > 2
               PROVE  (\A s \in Slots : Copies(s)' >= 1) \/ (\E a \in Slots : InPlay(a)')
    BY DEF Playing
  <2>1. ~Connect
    BY <1>1, LinkSteps, TimesEmpty
  <2>2. link = "open"
    BY <1>1, <2>1, LinkSteps
  <2>3. CASE RunHello
    BY <1>1, <1>3, <2>2, <2>3, CopiesMade
  <2>4. CASE ~RunHello
    <3>1. (\A s \in Slots : Copies(s) >= 1) \/ (\E a \in Slots : InPlay(a))
      BY <1>1, <2>2, <2>4, GreetingSteps DEF Playing
    <3>2. ~OnDisconnected /\ ~ServerStops
      BY <2>2 DEF OnDisconnected, ServerStops
    <3>3. Moves \/ DrawCopy \/ DrawCached
      BY <1>4, <2>1, <2>2, <2>4, <3>2
    <3> QED BY <1>1, <3>1, <3>3, PlayingMoved, PlayingDrawn, PlayingDropped
  <2> QED BY <2>3, <2>4
<1>6. Counted'
  <2> SUFFICES ASSUME NEW s \in Slots PROVE Copies(s)' + Hellos' + Unmet' <= starts'
    BY DEF Counted
  <2>1. Copies(s) + Hellos + Unmet <= starts
    BY <1>1 DEF Counted
  <2>2. CASE Connect
    <3>1. Unmet = 1 /\ Unmet' = 0 /\ starts' >= starts
      BY <1>1, <2>2, LinkSteps
    <3>2. Copies(s)' <= Copies(s) /\ Hellos' = Hellos + 1
      BY <1>1, <2>2, CopiesLost
    <3> QED BY <1>3, <2>1, <3>1, <3>2
  <2>3. CASE ~Connect
    <3>1. Unmet' + starts <= Unmet + starts'
      BY <1>1, <2>3, LinkSteps
    <3>2. Copies(s)' + Hellos' <= Copies(s) + Hellos
      <4>1. CASE Moves \/ DrawCopy
        BY <1>1, <1>3, <4>1, CopiesMoved
      <4>2. CASE DrawCached
        BY <1>1, <1>3, <4>2, CopiesDropped
      <4>3. CASE OnDisconnected \/ ServerStops \/ (RunFrame /\ link # "open")
        BY <1>1, <1>3, <2>3, <4>3, CopiesLost
      <4>4. CASE RunHello
        <5>1. /\ Copies(s)' = Copies(s) + (IF link = "open" THEN 1 ELSE 0)
              /\ Hellos = Hellos' + 1
          BY <1>1, <4>4, CopiesMade
        <5> QED BY <1>3, <5>1
      <4> QED BY <1>4, <2>3, <4>1, <4>2, <4>3, <4>4
    <3> QED BY <1>3, <2>1, <3>1, <3>2
  <2> QED BY <2>2, <2>3
<1> QED BY <1>2, <1>5, <1>6 DEF SlotInv

LEMMA SlotInvariant == Spec => [](TypeOK /\ SlotInv)
<1>1. Init => TypeOK /\ SlotInv
  BY TypeInit, SlotInvInit
<1>2. TypeOK /\ SlotInv /\ [Next]_vars => (TypeOK /\ SlotInv)'
  BY TypeNext, SlotInvNext
<1> QED BY <1>1, <1>2, PTL DEF Spec

(* With more than two buffers at most one slot is out of play.             *)
LEMMA AtMostOneOut ==
    ASSUME TypeOK, SlotInv, link = "open", greeted, BufferSize > 2
    PROVE  Cardinality(OutOfPlay) <= 1
<1>1. (\A s \in Slots : Copies(s) >= 1) \/ (\E a \in Slots : InPlay(a))
  BY DEF SlotInv, Playing
<1>2. PICK a \in Slots : \A s \in Slots \ {a} : Copies(s) >= 1
  <2>1. 0 \in Slots
    BY DEF Slots
  <2> QED BY <1>1, <2>1 DEF InPlay
<1>3. OutOfPlay \subseteq {a}
  BY <1>2 DEF OutOfPlay
<1>4. IsFiniteSet({a}) /\ Cardinality({a}) = 1
  BY FS_Singleton
<1> QED BY <1>3, <1>4, FS_Subset

(* Once the server has been greeted at most one of three or more slots is  *)
(* out of play, and none is in play more often than once for each start of *)
(* the server: on_connect hands every slot to the overlay again because a  *)
(* lost connection takes some of them away, and nothing else makes a       *)
(* second copy of one; a draw from the cache drops the slot drawn last,    *)
(* and after that the order in which the slots go round keeps the others.  *)
THEOREM SlotsStayInPlayCorrect == Spec => []SlotsStayInPlay
<1>1. TypeOK /\ SlotInv => SlotsStayInPlay
  <2> SUFFICES ASSUME TypeOK, SlotInv PROVE SlotsStayInPlay
    OBVIOUS
  <2>1. Links /\ Counted
    BY DEF SlotInv
  <2>2. ASSUME greeted, BufferSize > 2 PROVE Cardinality(OutOfPlay) <= 1
    BY <2>1, <2>2, AtMostOneOut DEF Links
  <2>3. ASSUME NEW s \in Slots PROVE Copies(s) <= starts
    <3>1. Copies(s) \in Nat /\ Hellos \in Nat /\ Unmet \in Nat /\ starts \in Int
      BY CopiesType DEF Hellos, Unmet, TypeOK
    <3> QED BY <2>1, <3>1 DEF Counted
  <2> QED BY <2>2, <2>3 DEF SlotsStayInPlay
<1> QED BY <1>1, SlotInvariant, PTL
-----------------------------------------------------------------------------
(* The size of the swapchain.                                              *)

NoSizes(q) == NoneOf("resolution", q)

(* The last size in q is z.                                                *)
LastSize(q, z) == LastOf("resolution", Size(z), q)

(* A server that knows k, with q still to read, will take z for the size.  *)
Told(q, k, z) == LastSize(q, z) \/ (NoSizes(q) /\ k = z)

LEMMA ToldEmpty == NoSizes(<<>>)
  BY DEF NoSizes, NoneOf

(* Sending: a size replaces what was told before, the rest leaves it.      *)
LEMMA ToldAppend ==
    ASSUME NEW q \in Seq(Work), NEW m \in Work, NEW k
    PROVE  /\ m.kind # "resolution" => /\ NoSizes(q) => NoSizes(Append(q, m))
                                       /\ \A z : Told(q, k, z) => Told(Append(q, m), k, z)
           /\ m.kind = "resolution" => Told(Append(q, m), k, m.size)
<1>1. m.kind = "resolution" => m = Size(m.size)
  BY Messages
<1> QED BY <1>1, LastAppend DEF Told, NoSizes, LastSize

(* Reading: a size that is read is what the server knows then.             *)
LEMMA ToldTail ==
    ASSUME NEW q \in Seq(Work), q # <<>>, NEW k, NEW z
    PROVE  /\ NoSizes(q) => NoSizes(Tail(q)) /\ Head(q).kind # "resolution"
           /\ Told(q, k, z) =>
                 Told(Tail(q), IF Head(q).kind = "resolution" THEN Head(q).size ELSE k, z)
<1>1. /\ NoSizes(q) => NoSizes(Tail(q)) /\ Head(q).kind # "resolution"
      /\ LastSize(q, z) =>
            LastSize(Tail(q), z) \/ (Head(q) = Size(z) /\ NoSizes(Tail(q)))
  BY LastTail DEF NoSizes, LastSize
<1>2. Size(z).kind = "resolution" /\ Size(z).size = z
  BY DEF Size
<1> QED BY <1>1, <1>2 DEF Told

(* Before the application has created a swapchain there is no size         *)
(* anywhere; after that, the server will know the size the client takes    *)
(* for sent, unless the client is still to send it.                        *)
NoSizeYet ==
    resolution = NoSize => /\ known = NoSize /\ sent = NoSize /\ signalling = NoSize
                           /\ NoSizes(work_q) /\ NoSizes(to_server)
WillBeTold ==
    link = "open" => Told(to_server, known, sent) \/ Hellos # 0 \/ signalling # NoSize

LEMMA NoSizeYetNext ==
    ASSUME TypeOK, Links, NoSizeYet, [Next]_vars
    PROVE  NoSizeYet'
<1> SUFFICES ASSUME resolution' = NoSize
             PROVE  /\ known' = NoSize /\ sent' = NoSize /\ signalling' = NoSize
                    /\ NoSizes(work_q') /\ NoSizes(to_server')
  BY DEF NoSizeYet
<1>1. ~ \E z \in Sizes : SendResolution(z)
  BY DEF SendResolution
<1>2. resolution = NoSize
  BY <1>1 DEF Next, App, Start, NextFrame, Draw, DrawCopy, DrawCached, BusThread,
       ConnectFails, Connect, RunHello, RunResolution, SendSize, RunFrame, OnDmabuf,
       OnFrame, Hears, OnDisconnected, ServerStarts, ServerStops, ServerBus,
       ServerGreeted, ServerSized, ServerReceivesFrame, Receives, ServerRun,
       ServerAnnounces, ServerRenders, vars, overlay, shown
<1>3. /\ known = NoSize /\ sent = NoSize /\ signalling = NoSize
      /\ NoSizes(work_q) /\ NoSizes(to_server)
  BY <1>2 DEF NoSizeYet
<1>4. \A q \in Seq(Work) : q # <<>> /\ NoSizes(q) =>
         /\ NoSizes(Tail(q)) /\ Head(q).kind # "resolution" /\ Head(q) \in Work
  BY ToldTail
<1>5. \A q \in Seq(Work), m \in Work :
         NoSizes(q) /\ m.kind # "resolution" => NoSizes(Append(q, m))
  BY ToldAppend
<1>6. work_q \in Seq(Work) /\ to_server \in Seq(Work)
  BY DEF TypeOK
<1>7. CASE App
  <2>1. CASE Start \/ NextFrame \/ DrawCached
    BY <1>3, <2>1 DEF Start, NextFrame, DrawCached, client, wire, server
  <2>2. CASE DrawCopy
    <3>1. NoSizes(work_q')
      BY <1>3, <1>5, <1>6, <2>2, Messages DEF DrawCopy, TypeOK
    <3> QED BY <1>3, <2>2, <3>1 DEF DrawCopy, wire, server
  <2> QED BY <1>1, <1>7, <2>1, <2>2 DEF App, Draw
<1>8. CASE BusThread
  <2>1. CASE Connect
    <3>1. NoSizes(work_q') /\ NoSizes(to_server')
      BY <1>3, <1>5, <1>6, <2>1, Messages, ToldEmpty DEF Connect
    <3> QED BY <1>3, <2>1, <3>1 DEF Connect, server
  <2>2. CASE RunHello
    <3>1. NoSizes(work_q') /\ NoSizes(to_server')
      BY <1>3, <1>4, <1>5, <1>6, <2>2, Messages DEF RunHello, TakesWork, Sent
    <3> QED BY <1>2, <1>3, <2>2, <3>1 DEF RunHello, server
  <2>3. CASE RunResolution
    BY <1>3, <1>4, <1>6, <2>3 DEF RunResolution, TakesWork
  <2>4. CASE SendSize
    BY <1>3, <2>4 DEF SendSize
  <2>5. CASE RunFrame
    <3>1. NoSizes(work_q') /\ NoSizes(to_server')
      BY <1>3, <1>4, <1>5, <1>6, <2>5 DEF RunFrame, TakesWork, Sent
    <3> QED BY <1>3, <2>5, <3>1 DEF RunFrame, server
  <2>6. CASE OnDisconnected
    BY <1>3, <2>6 DEF OnDisconnected, server
  <2>7. CASE ConnectFails \/ OnDmabuf \/ OnFrame
    BY <1>3, <2>7 DEF ConnectFails, OnDmabuf, OnFrame, Hears, vars, client, wire, server
  <2> QED BY <1>8, <2>1, <2>2, <2>3, <2>4, <2>5, <2>6, <2>7 DEF BusThread
<1>9. CASE ServerStarts \/ ServerRun
  BY <1>3, <1>9 DEF ServerStarts, ServerRun, ServerAnnounces, ServerRenders, client, wire
<1>10. CASE ServerStops
  BY <1>3, <1>10, ToldEmpty DEF ServerStops, client
<1>11. CASE ServerBus
  <2>1. ~ServerSized /\ to_server # <<>> /\ to_server' = Tail(to_server)
    BY <1>3, <1>4, <1>6, <1>11
       DEF ServerBus, ServerGreeted, ServerSized, ServerReceivesFrame, Receives
  <2>2. NoSizes(to_server')
    BY <1>3, <1>4, <1>6, <2>1
  <2> QED BY <1>3, <1>11, <2>1, <2>2
          DEF ServerBus, ServerGreeted, ServerReceivesFrame, Receives, client
<1>12. CASE UNCHANGED vars
  BY <1>3, <1>12 DEF vars, client, wire, server
<1> QED BY <1>7, <1>8, <1>9, <1>10, <1>11, <1>12 DEF Next

LEMMA WillBeToldNext ==
    ASSUME TypeOK, TypeOK', Links, NoSizeYet, WillBeTold, [Next]_vars
    PROVE  WillBeTold'
<1> SUFFICES ASSUME link' = "open"
             PROVE  Told(to_server', known', sent') \/ Hellos' # 0 \/ signalling' # NoSize
  BY DEF WillBeTold
<1> USE DEF Hellos
<1>1. 0 \in Slots
  BY DEF Slots
<1>2. work_q \in Seq(Work) /\ to_server \in Seq(Work) /\ Times(Hello, work_q) \in Nat
  BY <1>1, CopiesType DEF TypeOK
<1>3. CASE Connect
  <2>1. Times(Hello, work_q') = Times(Hello, work_q) + 1
    BY <1>1, <1>2, <1>3, WorkMoves DEF Connect
  <2> QED BY <1>2, <2>1
<1>4. ASSUME ~Connect PROVE link = "open"
  BY <1>4, LinkSteps
<1>5. ASSUME ~Connect
      PROVE  Told(to_server, known, sent) \/ Hellos # 0 \/ signalling # NoSize
  BY <1>4, <1>5 DEF WillBeTold
<1>6. \A q \in Seq(Work), m \in Work : \A k :
         /\ m.kind # "resolution" => \A z : Told(q, k, z) => Told(Append(q, m), k, z)
         /\ m.kind = "resolution" => Told(Append(q, m), k, m.size)
  BY ToldAppend
<1>7. ASSUME NEW z \in Sizes, SendResolution(z)
      PROVE  Told(to_server', known', sent') \/ Hellos' # 0 \/ signalling' # NoSize
  <2>1. Times(Hello, work_q') = Times(Hello, work_q)
    BY <1>1, <1>2, <1>7, WorkMoves DEF SendResolution
  <2> QED BY <1>5, <1>7, <2>1 DEF SendResolution, Connect, wire, server
<1>8. CASE DrawCopy
  <2>1. Times(Hello, work_q') = Times(Hello, work_q)
    BY <1>1, <1>2, <1>8, WorkMoves DEF DrawCopy, TypeOK
  <2>2. ~Connect
    BY <1>8 DEF DrawCopy, Connect, wire
  <2> QED BY <1>5, <1>8, <2>1, <2>2 DEF DrawCopy, wire, server
<1>9. CASE Start \/ NextFrame \/ DrawCached \/ ConnectFails \/ OnDmabuf \/ OnFrame
           \/ ServerStarts \/ ServerRun
           \/ UNCHANGED vars
  <2>1. UNCHANGED <<to_server, known, sent, work_q, signalling>>
    BY <1>9 DEF Start, NextFrame, DrawCached, ConnectFails, OnDmabuf, OnFrame, Hears,
         ServerStarts, ServerRun, ServerAnnounces, ServerRenders, vars, client,
         overlay, shown, wire, server
  <2> QED BY <1>3, <1>5, <2>1
<1>10. CASE RunHello
  <2>1. ~Connect /\ link = "open" /\ to_server' = Append(to_server, Hello)
        /\ signalling = NoSize /\ signalling' = resolution /\ UNCHANGED <<known, sent>>
    BY <1>4, <1>10 DEF RunHello, TakesWork, Dispatching, Connect, Sent, server
  <2>2. CASE resolution # NoSize
    BY <2>1, <2>2
  <2>3. CASE resolution = NoSize
    <3>1. Told(to_server, known, sent)
      BY <2>3 DEF NoSizeYet, Told
    <3>2. Told(to_server', known, sent)
      BY <1>2, <1>6, <2>1, <3>1, Messages
    <3> QED BY <2>1, <3>2
  <2> QED BY <2>2, <2>3
<1>11. CASE RunResolution
  <2>1. Head(work_q).size \in Sizes
    BY <1>2, <1>11, Messages DEF RunResolution, TakesWork
  <2> QED BY <1>11, <2>1 DEF RunResolution
<1>12. CASE SendSize
  <2>1. ~Connect /\ link = "open" /\ signalling \in Sizes
    BY <1>4, <1>12 DEF SendSize, Connect, TypeOK
  <2>2. to_server' = Append(to_server, Size(signalling)) /\ sent' = signalling
    BY <1>12, <2>1 DEF SendSize, Sent
  <2>3. Told(to_server', known', signalling)
    <3>1. Size(signalling) \in Work /\ Size(signalling).kind = "resolution"
          /\ Size(signalling).size = signalling
      BY <2>1, Messages
    <3> QED BY <1>2, <1>6, <2>2, <3>1
  <2> QED BY <2>2, <2>3
<1>13. CASE RunFrame
  <2>1. /\ ~Connect /\ link = "open" /\ signalling = NoSize
        /\ work_q # <<>> /\ work_q' = Tail(work_q) /\ Head(work_q).kind = "frame_ready"
        /\ to_server' = Append(to_server, Head(work_q)) /\ UNCHANGED <<known, sent>>
    BY <1>4, <1>13 DEF RunFrame, TakesWork, Dispatching, Connect, Sent, server
  <2>2. Times(Hello, work_q') = Times(Hello, work_q)
    BY <1>1, <1>2, <2>1, WorkMoves
  <2>3. Head(work_q) \in Work /\ Head(work_q).kind # "resolution"
    BY <1>2, <2>1
  <2>4. Told(to_server, known, sent) => Told(to_server', known', sent')
    BY <1>2, <1>6, <2>1, <2>3
  <2> QED BY <1>5, <2>1, <2>2, <2>4
<1>14. CASE OnDisconnected \/ ServerStops
  BY <1>4, <1>14 DEF OnDisconnected, ServerStops, Dispatching, Connect, server
<1>15. CASE ServerBus
  <2>1. /\ ~Connect /\ to_server # <<>> /\ to_server' = Tail(to_server)
        /\ known' = IF Head(to_server).kind = "resolution" THEN Head(to_server).size ELSE known
        /\ UNCHANGED <<sent, work_q, signalling>>
    BY <1>4, <1>15 DEF ServerBus, ServerGreeted, ServerSized, ServerReceivesFrame, Receives,
                       Connect, client, overlay, shown
  <2>2. Told(to_server, known, sent) => Told(to_server', known', sent')
    BY <1>2, <2>1, ToldTail
  <2> QED BY <1>5, <2>1, <2>2
<1> QED BY <1>3, <1>7, <1>8, <1>9, <1>10, <1>11, <1>12, <1>13, <1>14, <1>15
        DEF Next, App, Draw, BusThread

LEMMA SizeInvariant == Spec => [](TypeOK /\ Links /\ NoSizeYet /\ WillBeTold)
<1>1. Init => TypeOK /\ Links /\ NoSizeYet /\ WillBeTold
  BY TypeInit, ToldEmpty DEF Init, Links, NoSizeYet, WillBeTold
<1>2. TypeOK /\ Links /\ NoSizeYet /\ WillBeTold /\ [Next]_vars
      => (TypeOK /\ Links /\ NoSizeYet /\ WillBeTold)'
  BY TypeNext, LinksNext, NoSizeYetNext, WillBeToldNext
<1> QED BY <1>1, <1>2, PTL DEF Spec

(* Once nothing about the swapchain's size is left to be run, sent or      *)
(* read, what the client compares a new size with is the size the server   *)
(* knows, even if the client sent that size to a server that has ended: a  *)
(* size that is not sent is one the server has.                            *)
THEOREM SentIsKnownCorrect == Spec => []SentIsKnown
<1>1. TypeOK /\ Links /\ WillBeTold => SentIsKnown
  <2> SUFFICES ASSUME TypeOK, Links, WillBeTold, Quiet PROVE known = sent
    BY DEF SentIsKnown
  <2>1. /\ link = "open" /\ signalling = NoSize
        /\ \A k \in DOMAIN work_q : work_q[k].kind = "frame_ready"
        /\ \A k \in DOMAIN to_server : to_server[k].kind = "frame_ready"
    BY DEF Quiet, Links
  <2>2. Hellos = 0
    <3>1. \A k \in DOMAIN work_q : work_q[k] # Hello
      BY <2>1, Messages
    <3> QED BY <3>1, TimesFound DEF TypeOK, Hellos
  <2>3. NoSizes(to_server) /\ \A z : ~LastSize(to_server, z)
    <3>1. NoSizes(to_server)
      BY <2>1 DEF NoSizes, NoneOf
    <3>2. ASSUME NEW z, LastSize(to_server, z) PROVE FALSE
      <4>1. PICK k \in DOMAIN to_server : to_server[k] = Size(z)
        BY <3>2 DEF LastSize, LastOf
      <4>2. Size(z).kind = "resolution"
        BY DEF Size
      <4> QED BY <2>1, <4>1, <4>2
    <3> QED BY <3>1, <3>2
  <2> QED BY <2>1, <2>2, <2>3 DEF WillBeTold, Told
<1> QED BY <1>1, SizeInvariant, PTL
-----------------------------------------------------------------------------
(* A connection that is made works.                                        *)

(* Reconnects without the promise that anything happens: no connection is  *)
(* left half made.  With no greeting in the work queue or on the wire, an  *)
(* open connection is one whose server was greeted, with an overlay that   *)
(* draws and, of three or more slots, all but one in play.  What an        *)
(* earlier connection left in the queues comes before the greeting and     *)
(* does not stand in for it.                                               *)
OpenConnectionsWork ==
    link = "open" /\ Times(Hello, work_q) = 0 /\ Times(Hello, to_server) = 0 =>
        connected /\ greeted /\ (BufferSize > 2 => Cardinality(OutOfPlay) <= 1)

Greets ==
    /\ connected <=> bus = "loop"
    /\ link = "open" => greeted \/ Hellos # 0 \/ Times(Hello, to_server) # 0

(* A greeting leaves the wire only when the server reads it.               *)
LEMMA GreetingsArrive ==
    ASSUME TypeOK, [Next]_vars, ~RunHello, ~Connect, ~ServerStops, link = "open",
           greeted \/ Times(Hello, to_server) # 0
    PROVE  greeted' \/ Times(Hello, to_server') # 0
<1>1. CASE App \/ ServerStarts \/ ServerRun \/ UNCHANGED vars
  BY <1>1 DEF App, Start, SendResolution, NextFrame, Draw, DrawCopy, DrawCached,
       ServerStarts, ServerRun, ServerAnnounces, ServerRenders, vars, client,
       overlay, shown, wire, server
<1>2. CASE ConnectFails \/ RunResolution \/ OnDmabuf \/ OnFrame \/ OnDisconnected
  BY <1>2 DEF ConnectFails, RunResolution, OnDmabuf, OnFrame, Hears, OnDisconnected,
       vars, client, overlay, shown, wire, server
<1>3. CASE SendSize \/ RunFrame
  <2>1. 0 \in Slots
    BY DEF Slots
  <2>2. PICK m \in Work : m.kind \in {"resolution", "frame_ready"}
                           /\ to_server' = Append(to_server, m)
    <3>1. CASE SendSize
      BY <3>1, Messages DEF SendSize, Sent, TypeOK
    <3>2. CASE RunFrame
      BY <3>2, QueueFacts DEF RunFrame, TakesWork, Sent, TypeOK
    <3> QED BY <1>3, <3>1, <3>2
  <2>3. Times(Hello, to_server') = Times(Hello, to_server)
    <3>1. Times(Hello, Append(to_server, m)) =
             Times(Hello, to_server) + (IF m = Hello THEN 1 ELSE 0)
      BY TimesAppend DEF TypeOK
    <3>2. m # Hello /\ Times(Hello, to_server) \in Nat
      BY <2>1, <2>2, Messages, CopiesType
    <3> HIDE DEF TypeOK
    <3> QED BY <2>2, <3>1, <3>2
  <2> QED BY <1>3, <2>3 DEF SendSize, RunFrame, server
<1>4. CASE ServerBus
  <2>1. CASE ServerGreeted
    BY <2>1 DEF ServerGreeted
  <2>2. CASE ServerSized \/ ServerReceivesFrame
    <3>1. /\ to_server # <<>> /\ to_server' = Tail(to_server)
          /\ Head(to_server).kind \in {"resolution", "frame_ready"} /\ 0 \in Slots
      BY <2>2 DEF ServerSized, ServerReceivesFrame, Receives, Slots
    <3>2. Times(Hello, to_server') = Times(Hello, to_server)
      BY <3>1, WorkMoves DEF TypeOK
    <3> QED BY <2>2, <3>2 DEF ServerSized, ServerReceivesFrame
  <2> QED BY <1>4, <2>1, <2>2 DEF ServerBus
<1> QED BY <1>1, <1>2, <1>3, <1>4 DEF Next, BusThread

LEMMA GreetsNext ==
    ASSUME TypeOK, TypeOK', Links, Greets, [Next]_vars
    PROVE  Greets'
<1>1. (connected <=> bus = "loop")'
  BY DEF Greets, Links, Next, App, Start, SendResolution, NextFrame, Draw, DrawCopy,
       DrawCached, BusThread, ConnectFails, Connect, RunHello, RunResolution,
       SendSize, RunFrame, OnDmabuf, OnFrame, Hears, OnDisconnected, TakesWork,
       Dispatching, ServerStarts, ServerStops, ServerBus, ServerGreeted, ServerSized,
       ServerReceivesFrame, Receives, ServerRun, ServerAnnounces, ServerRenders,
       client, overlay, shown, vars
<1>2. ASSUME link' = "open"
      PROVE  greeted' \/ Hellos' # 0 \/ Times(Hello, to_server') # 0
  <2>1. PICK s \in Slots : TRUE
    BY DEF Slots
  <2>2. /\ Hellos \in Nat /\ Times(Hello, to_server) \in Nat
    BY <2>1, CopiesType DEF Hellos
  <2>3. CASE Connect
    BY <2>1, <2>2, <2>3, CopiesLost
  <2>4. CASE ~Connect
    <3>1. link = "open" /\ ~ServerStops
      BY <1>2, <2>4, LinkSteps DEF ServerStops
    <3>2. CASE RunHello
      <4>1. Times(Hello, to_server') = Times(Hello, to_server) + 1
        BY <2>1, <3>1, <3>2, WorkMoves DEF RunHello, Sent, TypeOK
      <4> QED BY <2>2, <4>1
    <3>3. CASE ~RunHello
      <4>1. Hellos' = Hellos
        <5>1. ~OnDisconnected
          BY <3>1 DEF OnDisconnected
        <5>2. Moves \/ DrawCopy \/ DrawCached
          BY <2>4, <3>1, <3>3, <5>1 DEF Next, App, Draw, BusThread, Moves
        <5> QED BY <2>1, <5>2, CopiesMoved, CopiesDropped
      <4> QED BY <2>4, <3>1, <3>3, <4>1, GreetingsArrive DEF Greets
    <3> QED BY <3>2, <3>3
  <2> QED BY <2>3, <2>4
<1> QED BY <1>1, <1>2 DEF Greets

(* At every moment of every order in which client and server start, stop   *)
(* and start again, with any buffers and sizes: a connection on which the  *)
(* greeting is over works.                                                 *)
THEOREM OpenConnectionsWorkCorrect == Spec => []OpenConnectionsWork
<1>1. Init => Greets
  BY DEF Init, Greets
<1>2. TypeOK /\ TypeOK' /\ SlotInv /\ Greets /\ [Next]_vars => Greets'
  BY GreetsNext DEF SlotInv
<1>3. TypeOK /\ SlotInv /\ Greets => OpenConnectionsWork
  <2> SUFFICES ASSUME TypeOK, SlotInv, Greets, link = "open",
                      Times(Hello, work_q) = 0, Times(Hello, to_server) = 0
               PROVE  connected /\ greeted /\ (BufferSize > 2 => Cardinality(OutOfPlay) <= 1)
    BY DEF OpenConnectionsWork
  <2>1. greeted /\ connected
    BY DEF Greets, Hellos, SlotInv, Links
  <2> QED BY <2>1, AtMostOneOut
<1> QED BY SlotInvariant, <1>1, <1>2, <1>3, PTL DEF Spec
=============================================================================
