----------------------- MODULE RenderNegotiationProofs -----------------------
(***************************************************************************)
(* Theorems about RenderNegotiation for any number and kinds of methods:   *)
(* the types; that with a HUD of constant size no usable method is passed  *)
(* over and the server survives; and that both sides end up with the same  *)
(* buffers, made by a method that works for the client.                    *)
(***************************************************************************)
EXTENDS RenderNegotiation, WellFoundedInduction, SequenceTheorems, TLAPS

USE MAssumption, MaxResizesAssumption DEF MAssumption, MaxResizesAssumption

(* configure_current_or_advance ends at the first method that is not       *)
(* refused.                                                                *)
LEMMA AcceptedIsFirst ==
    ASSUME kinds \in [Method -> Kinds], NEW i \in 1 .. M + 1
    PROVE  /\ Accepted(i) \in i .. M + 1
           /\ Accepted(i) = M + 1 \/ kinds[Accepted(i)] # "refused"
           /\ \A k \in i .. Accepted(i) - 1 : kinds[k] = "refused"
<1> DEFINE Usable == {j \in i .. M + 1 : j = M + 1 \/ kinds[j] # "refused"}
<1>1. Usable \subseteq Nat /\ Usable # {}
  <2>1. M + 1 \in Usable
    OBVIOUS
  <2> QED BY <2>1
<1>2. PICK j \in Usable : \A k \in Usable : ~ <<k, j>> \in OpToRel(<, Nat)
  <2> HIDE DEF Usable
  <2> QED BY <1>1, WFMin, NatLessThanWellFounded
<1>3. \A k \in Usable : ~ k < j
  BY <1>1, <1>2 DEF OpToRel
<1>4. \A k \in i .. j - 1 : kinds[k] = "refused"
  BY <1>3
<1>5. /\ j \in i .. M + 1
      /\ j = M + 1 \/ kinds[j] # "refused"
      /\ \A k \in i .. j - 1 : kinds[k] = "refused"
  BY <1>4
<1> QED BY <1>5 DEF Accepted

(* The state keeps the types of its variables; the index stops behind the  *)
(* last method.                                                            *)
THEOREM TypeCorrect == Spec => []TypeOK
<1>1. Init => TypeOK
  <2> SUFFICES ASSUME Init PROVE TypeOK
    OBVIOUS
  <2>1. kinds \in [Method -> Kinds] /\ method_idx \in 1 .. M + 1
    BY DEF Init
  <2>2. {method, fds, fdinfo, importing, imported} \subseteq 0 .. M
    BY DEF Init, None
  <2>3. dmabufs \in Seq(Method) /\ failures \in Nat /\ resizes \in 0 .. MaxResizes
    BY DEF Init
  <2>4. gl \in BOOLEAN /\ {send_dmabuf, crashed, fresh} \subseteq BOOLEAN
    BY DEF Init
  <2>5. /\ run_pc \in {"boot", "loop", "sending", "rendering", "over"}
        /\ failed_pc \in {"idle", "reset", "filled"}
    BY DEF Init
  <2> QED BY <2>1, <2>2, <2>3, <2>4, <2>5 DEF TypeOK
<1>2. TypeOK /\ [Next]_vars => TypeOK'
  <2> SUFFICES ASSUME TypeOK, [Next]_vars PROVE TypeOK'
    OBVIOUS
  <2> USE DEF TypeOK
  <2>1. \A i \in 1 .. M + 1 : MethodAt(i) \in 0 .. M
    BY DEF MethodAt, None
  <2>2. \A m \in 0 .. M : Descriptors(m) \in 0 .. M
    BY DEF Descriptors, None
  <2>3. CASE RunStarts
    <3>1. method_idx' \in 1 .. M + 1
      BY <2>3, AcceptedIsFirst DEF RunStarts
    <3>2. method' \in 0 .. M /\ send_dmabuf' \in BOOLEAN
      BY <2>1, <2>3, <3>1 DEF RunStarts
    <3>3. fds' \in 0 .. M
      BY <2>2, <2>3, <3>2 DEF RunStarts
    <3> QED BY <2>3, <3>1, <3>2, <3>3 DEF RunStarts, client
  <2>4. CASE RunLooks \/ RunThrows \/ RunRenders
    BY <2>4 DEF RunLooks, RunThrows, RunRenders, client
  <2>5. CASE RunSends
    <3>1. fds \in Method
      BY <2>5 DEF RunSends, Method, None
    <3>2. dmabufs' \in Seq(Method)
      BY <2>5, <3>1, AppendProperties DEF RunSends
    <3> QED BY <2>5, <3>2 DEF RunSends, client
  <2>6. CASE RunResizes
    BY <2>2, <2>6 DEF RunResizes, client
  <2>7. CASE BusResets
    <3>1. method_idx' \in 1 .. M + 1
      BY <2>7, AcceptedIsFirst DEF BusResets
    <3>2. method' \in 0 .. M
      BY <2>1, <2>7, <3>1 DEF BusResets
    <3> QED BY <2>7, <3>1, <3>2 DEF BusResets, client, None
  <2>8. CASE BusFills \/ BusFinishes
    BY <2>2, <2>8 DEF BusFills, BusFinishes, client
  <2>9. CASE VkImports \/ GlReceives
    <3>1. dmabufs # <<>> /\ dmabufs' = Tail(dmabufs)
      BY <2>9 DEF VkImports, GlReceives
    <3>2. Head(dmabufs) \in Method /\ dmabufs' \in Seq(Method)
      BY <3>1, HeadTailProperties
    <3>3. Head(dmabufs) \in 0 .. M
      BY <3>2 DEF Method
    <3>4. CASE VkImports
      <4>1. imported' \in 0 .. M /\ failures' \in Nat
        BY <3>4, <3>3 DEF VkImports, None
      <4> QED BY <3>4, <3>2, <4>1 DEF VkImports, server
    <3>5. CASE GlReceives
      BY <3>5, <3>2, <3>3 DEF GlReceives, server
    <3> QED BY <2>9, <3>4, <3>5
  <2>10. CASE GlTakes
    BY <2>10 DEF GlTakes, server, None
  <2>12. CASE GlImports
    BY <2>12 DEF GlImports, server, None
  <2>13. CASE GlFails
    BY <2>13 DEF GlFails, server, None
  <2>11. CASE UNCHANGED vars
    BY <2>11 DEF vars, server, client
  <2> QED BY <2>3, <2>4, <2>5, <2>6, <2>7, <2>8, <2>9, <2>10, <2>11, <2>12, <2>13
      DEF Next, Run, Bus, Client
<1> QED BY <1>1, <1>2, PTL DEF Spec
-----------------------------------------------------------------------------
(* The inductive invariant.  With a HUD of constant size one message,      *)
(* request or answer is under way at a time, and it is about the method    *)
(* the server is at.                                                       *)
Idle == failed_pc = "idle"

OneAtATime ==
    /\ Len(dmabufs) <= 1 /\ failures <= 1
    /\ send_dmabuf => dmabufs = <<>> /\ fdinfo = None /\ importing = None
                       /\ failures = 0 /\ Idle
    /\ dmabufs # <<>> => fdinfo = None /\ importing = None /\ failures = 0 /\ Idle
    /\ fdinfo # None => importing = None /\ failures = 0 /\ Idle
    /\ importing # None => failures = 0 /\ Idle
    /\ failures > 0 => Idle

Silent ==
    /\ ~send_dmabuf /\ dmabufs = <<>> /\ failures = 0 /\ Idle
    /\ fdinfo = None /\ importing = None

OneAnswer ==
    /\ OneAtATime
    /\ send_dmabuf => method # None /\ fds = Descriptors(method)
    /\ ~Idle => method # None
    /\ failed_pc = "filled" => fds = Descriptors(method)
    /\ dmabufs # <<>> => dmabufs[1] = method
    /\ fdinfo # None => fdinfo = method
    /\ importing # None => importing = method
    /\ failures > 0 => method # None /\ kinds[method] # "good"
    /\ \A i \in Method : kinds[i] = "good" => method_idx <= i
    /\ crashed => \E i \in Method : kinds[i] = "broken"

NegotiationInv ==
    /\ run_pc = "boot" => method_idx = 1 /\ Silent /\ ~crashed
    /\ run_pc # "boot" => method = MethodAt(method_idx)
    /\ run_pc = "sending" => send_dmabuf
    /\ resizes = 0 => OneAnswer

LEMMA NegotiationStep == TypeOK /\ TypeOK' /\ NegotiationInv /\ [Next]_vars => NegotiationInv'
<1> SUFFICES ASSUME TypeOK, TypeOK', NegotiationInv, [Next]_vars PROVE NegotiationInv'
  OBVIOUS
<1>1. /\ send_dmabuf \in BOOLEAN /\ dmabufs \in Seq(Method) /\ Len(dmabufs) \in Nat
      /\ failures \in Nat /\ kinds \in [Method -> Kinds] /\ method_idx \in 1 .. M + 1
      /\ method \in 0 .. M /\ fds \in 0 .. M /\ fdinfo \in 0 .. M /\ importing \in 0 .. M
      /\ resizes \in Nat
  BY DEF TypeOK
<1> USE DEF Idle, Silent
<1>2. CASE RunStarts
  <2>1. /\ Silent /\ method_idx' = Accepted(1) /\ method' = MethodAt(method_idx')
        /\ fds' = Descriptors(method)' /\ (send_dmabuf' => method' # None)
        /\ run_pc' = "loop" /\ ~crashed
        /\ UNCHANGED <<kinds, failed_pc, resizes, crashed, dmabufs, failures,
                       fdinfo, importing>>
    BY <1>2 DEF RunStarts, NegotiationInv, Descriptors, client
  <2>2. /\ dmabufs = <<>> /\ fdinfo = None /\ importing = None /\ failures = 0
        /\ failed_pc = "idle"
    BY <1>1, <2>1 DEF OneAtATime
  <2>3. \A i \in Method : kinds[i] = "good" => Accepted(1) <= i
    <3> DEFINE j == Accepted(1)
    <3>1. 1 \in 1 .. M + 1
      OBVIOUS
    <3>2. j \in Nat /\ \A k \in 1 .. j - 1 : kinds[k] = "refused"
      BY <1>1, <3>1, AcceptedIsFirst
    <3> HIDE DEF j
    <3>3. \A i \in Method : i < j => kinds[i] # "good"
      BY <3>2 DEF Method
    <3>4. \A i \in Method : kinds[i] = "good" => j <= i
      BY <3>2, <3>3 DEF Method
    <3> QED BY <3>4 DEF j
  <2>4. OneAtATime'
    BY <2>1, <2>2 DEF OneAtATime
  <2>5. OneAnswer'
    <3>1. \A i \in Method : kinds'[i] = "good" => method_idx' <= i
      BY <2>1, <2>3
    <3>2. /\ dmabufs' = <<>> /\ fdinfo' = None /\ importing' = None /\ failures' = 0
          /\ failed_pc' = "idle" /\ ~crashed'
      BY <2>1, <2>2
    <3>3. failed_pc' # "filled" /\ ~(failures' > 0)
      BY <3>2
    <3> QED BY <2>1, <2>4, <3>1, <3>2, <3>3, Zenon DEF OneAnswer
  <2>6. method' = MethodAt(method_idx)'
    BY <2>1 DEF MethodAt
  <2> QED BY <2>1, <2>5, <2>6 DEF NegotiationInv
<1>3. CASE RunLooks \/ RunRenders
  BY <1>1, <1>3 DEF RunLooks, RunRenders, client, NegotiationInv, OneAnswer,
                    OneAtATime, Descriptors
<1>4. CASE RunSends
  <2>1. /\ send_dmabuf /\ ~send_dmabuf' /\ dmabufs' = Append(dmabufs, fds)
        /\ run_pc' = "loop" /\ run_pc = "sending" /\ fds # None
        /\ UNCHANGED <<kinds, method_idx, method, fds, failed_pc, resizes, crashed,
                       failures, fdinfo, importing>>
    BY <1>4 DEF RunSends, NegotiationInv, client
  <2>2. ASSUME resizes = 0 PROVE OneAnswer'
    <3>1. /\ fds = method /\ dmabufs = <<>> /\ fdinfo = None /\ importing = None
          /\ failures = 0 /\ failed_pc = "idle"
      BY <1>1, <2>1, <2>2 DEF NegotiationInv, OneAnswer, OneAtATime, Descriptors
    <3>2. dmabufs' = <<fds>>
      BY <2>1, <3>1
    <3> QED BY <2>1, <2>2, <3>1, <3>2 DEF NegotiationInv, OneAnswer, OneAtATime
  <2> QED BY <2>1, <2>2 DEF NegotiationInv
<1>5. CASE RunThrows
  <2>1. /\ run_pc = "sending" /\ fds = None /\ send_dmabuf /\ run_pc' = "over"
        /\ UNCHANGED <<kinds, method_idx, method, fds, send_dmabuf, failed_pc,
                       resizes, dmabufs, failures, fdinfo, importing>>
    BY <1>5 DEF RunThrows, NegotiationInv, client
  <2>2. resizes = 0 => method \in Method /\ kinds[method] = "broken"
    BY <1>1, <2>1 DEF NegotiationInv, OneAnswer, Descriptors, Method, None
  <2> QED BY <2>1, <2>2 DEF NegotiationInv, OneAnswer, OneAtATime, Descriptors
<1>6. CASE RunResizes
  BY <1>1, <1>6 DEF RunResizes, client, NegotiationInv
<1>7. CASE BusResets
  <2>1. /\ failures > 0 /\ failures' = failures - 1 /\ failed_pc = "idle"
        /\ method_idx' = IF method_idx > M THEN method_idx ELSE Accepted(method_idx + 1)
        /\ method' = MethodAt(method_idx')
        /\ failed_pc' = IF method' = None THEN "idle" ELSE "reset"
        /\ UNCHANGED <<kinds, send_dmabuf, run_pc, resizes, crashed, dmabufs,
                       fdinfo, importing>>
    BY <1>7 DEF BusResets, client
  <2>2. run_pc # "boot"
    BY <1>1, <2>1 DEF NegotiationInv, OneAtATime
  <2>3. ASSUME resizes = 0 PROVE OneAnswer'
    <3>1. /\ ~send_dmabuf /\ dmabufs = <<>> /\ fdinfo = None /\ importing = None
          /\ failures = 1 /\ method # None /\ kinds[method] # "good"
          /\ \A i \in Method : kinds[i] = "good" => method_idx <= i
          /\ crashed => \E i \in Method : kinds[i] = "broken"
      BY <1>1, <2>1, <2>3 DEF NegotiationInv, OneAnswer, OneAtATime
    <3>2. method = method_idx /\ method_idx \in Method
      BY <1>1, <2>2, <3>1 DEF NegotiationInv, MethodAt, Method
    <3>3. method_idx' = Accepted(method_idx + 1)
      BY <2>1, <3>2 DEF Method
    <3>4. /\ \A k \in method_idx + 1 .. Accepted(method_idx + 1) - 1 : kinds[k] = "refused"
          /\ Accepted(method_idx + 1) \in Nat
      BY <1>1, <3>2, AcceptedIsFirst DEF Method
    <3>5. \A i \in Method : kinds[i] = "good" => method_idx' <= i
      BY <1>1, <3>1, <3>2, <3>3, <3>4 DEF Method
    <3>6. OneAtATime'
      BY <2>1, <3>1 DEF OneAtATime
    <3> QED BY <2>1, <3>1, <3>5, <3>6 DEF OneAnswer
  <2> QED BY <2>1, <2>2, <2>3 DEF NegotiationInv
<1>8. CASE BusFills
  <2>1. /\ failed_pc = "reset" /\ failed_pc' = "filled" /\ fds' = Descriptors(method)
        /\ UNCHANGED <<kinds, method_idx, method, send_dmabuf, run_pc, resizes,
                       crashed, dmabufs, failures, fdinfo, importing>>
    BY <1>8 DEF BusFills, client
  <2> QED BY <1>1, <2>1 DEF NegotiationInv, OneAnswer, OneAtATime, Descriptors
<1>9. CASE BusFinishes
  <2>1. /\ failed_pc = "filled" /\ failed_pc' = "idle" /\ send_dmabuf'
        /\ UNCHANGED <<kinds, method_idx, method, fds, run_pc, resizes,
                       crashed, dmabufs, failures, fdinfo, importing>>
    BY <1>9 DEF BusFinishes, client
  <2> QED BY <1>1, <2>1 DEF NegotiationInv, OneAnswer, OneAtATime, Descriptors
<1>10. CASE VkImports \/ GlReceives
  <2>1. /\ dmabufs # <<>> /\ dmabufs' = Tail(dmabufs)
        /\ UNCHANGED <<kinds, method_idx, method, fds, send_dmabuf, run_pc, failed_pc,
                       resizes, crashed, importing>>
    BY <1>10 DEF VkImports, GlReceives, server
  <2>2. run_pc # "boot"
    BY <1>1, <2>1 DEF NegotiationInv, OneAtATime
  <2>3. ASSUME resizes = 0 PROVE OneAnswer'
    <3>4. Len(dmabufs) \in Nat \ {0}
      BY <1>1, <2>1, EmptySeq
    <3>5. OneAnswer
      BY <2>3 DEF NegotiationInv
    <3>6. /\ ~send_dmabuf /\ fdinfo = None /\ importing = None
          /\ failures = 0 /\ failed_pc = "idle" /\ Len(dmabufs) <= 1
      BY <2>1, <3>5, Zenon DEF OneAnswer, OneAtATime
    <3>1. /\ ~send_dmabuf /\ Len(dmabufs) = 1 /\ fdinfo = None /\ importing = None
          /\ failures = 0 /\ failed_pc = "idle"
      <4>1. \A n \in Nat \ {0} : n <= 1 => n = 1
        OBVIOUS
      <4>2. Len(dmabufs) = 1
        BY <3>4, <3>6, <4>1, Zenon
      <4> QED BY <3>6, <4>2
    <3>2. Head(dmabufs) = method /\ method # None /\ dmabufs' = <<>>
      BY <1>1, <2>1, <2>3, <3>1 DEF NegotiationInv, OneAnswer, Method, None
    <3>3. \/ fdinfo' = None /\ failures' = (IF kinds[method] = "good" THEN 0 ELSE 1)
          \/ fdinfo' = method /\ failures' = 0
      BY <1>10, <3>1, <3>2 DEF VkImports, GlReceives
    <3> QED BY <2>1, <2>3, <3>1, <3>2, <3>3
        DEF NegotiationInv, OneAnswer, OneAtATime, Descriptors
  <2> QED BY <2>1, <2>2, <2>3 DEF NegotiationInv
<1>11. CASE GlTakes
  <2>1. /\ importing = None /\ importing' = fdinfo /\ fdinfo' = None
        /\ UNCHANGED <<kinds, method_idx, method, fds, send_dmabuf, run_pc, failed_pc,
                       resizes, crashed, dmabufs, failures>>
    BY <1>11 DEF GlTakes, server
  <2> QED BY <1>1, <2>1 DEF NegotiationInv, OneAnswer, OneAtATime, Descriptors
<1>12. CASE GlImports \/ GlFails
  <2>1. /\ importing # None /\ importing' = None /\ fdinfo' \in {None, fdinfo}
        /\ \/ failures' = failures
           \/ failures' = failures + 1 /\ kinds[importing] # "good"
        /\ UNCHANGED <<kinds, method_idx, method, fds, send_dmabuf, run_pc, failed_pc,
                       resizes, crashed, dmabufs>>
    BY <1>12 DEF GlImports, GlFails, server
  <2>2. run_pc # "boot"
    BY <1>1, <2>1 DEF NegotiationInv, OneAtATime
  <2>3. ASSUME resizes = 0 PROVE OneAnswer'
    <3>1. /\ importing = method /\ method # None /\ OneAtATime /\ OneAtATime'
      BY <1>1, <2>1, <2>3 DEF NegotiationInv, OneAnswer, OneAtATime
    <3> QED BY <1>1, <2>1, <2>3, <3>1 DEF NegotiationInv, OneAnswer, OneAtATime, Descriptors
  <2> QED BY <2>1, <2>2, <2>3 DEF NegotiationInv
<1>13. CASE UNCHANGED vars
  BY <1>1, <1>13 DEF vars, server, client, NegotiationInv, OneAnswer, OneAtATime, Descriptors
<1> QED BY <1>2, <1>3, <1>4, <1>5, <1>6, <1>7, <1>8, <1>9, <1>10, <1>11, <1>12, <1>13
    DEF Next, Run, Bus, Client

LEMMA NegotiationInvariant == Spec => [](TypeOK /\ NegotiationInv)
<1>1. Init /\ TypeOK => NegotiationInv
  BY DEF Init, TypeOK, NegotiationInv, OneAnswer, OneAtATime, Silent, Idle, Method
<1>2. TypeOK /\ TypeOK' /\ NegotiationInv /\ [Next]_vars => NegotiationInv'
  BY NegotiationStep
<1> QED BY TypeCorrect, <1>1, <1>2, PTL DEF Spec

(* With a HUD of constant size no method that works is passed over.        *)
THEOREM FirstUsableIsKeptCorrect == Spec => []FirstUsableIsKept
<1>1. TypeOK /\ NegotiationInv => FirstUsableIsKept
  BY DEF NegotiationInv, OneAnswer, FirstUsableIsKept
<1> QED BY NegotiationInvariant, <1>1, PTL

(* With a HUD of constant size and methods that make descriptors, the      *)
(* server never tries to announce buffers that are not there.              *)
THEOREM ServerSurvivesCorrect == Spec => []ServerSurvives
<1>1. TypeOK /\ NegotiationInv => ServerSurvives
  BY DEF NegotiationInv, OneAnswer, ServerSurvives
<1> QED BY NegotiationInvariant, <1>1, PTL
-----------------------------------------------------------------------------
(* The agreement, also while the HUD changes its size.  The buffers hold   *)
(* the descriptors of the method, except while the bus thread exchanges    *)
(* them; and unless something is still to be announced or answered, the    *)
(* newest announcement, however far it has come, is about that method.     *)
FdsOfMethod ==
    run_pc # "boot" /\ method # None /\ failed_pc # "reset"
        => fds = Descriptors(method)

Unsettled ==
    \/ crashed \/ run_pc = "boot" \/ send_dmabuf \/ ~Idle
    \/ method = None \/ failures > 0

NewestIsOfMethod ==
    /\ dmabufs # <<>> => dmabufs[Len(dmabufs)] = method
    /\ dmabufs = <<>> /\ fresh => fdinfo = method
    /\ dmabufs = <<>> /\ ~fresh /\ importing # None => importing = method
    /\ dmabufs = <<>> /\ ~fresh /\ importing = None => imported = method

AgreementInv ==
    /\ crashed => run_pc = "over"
    /\ ~gl => ~fresh /\ importing = None
    /\ FdsOfMethod
    /\ Unsettled \/ NewestIsOfMethod

LEMMA AgreementStep ==
    ASSUME TypeOK, TypeOK', AgreementInv, [Next]_vars
    PROVE  AgreementInv'
<1>1. /\ send_dmabuf \in BOOLEAN /\ dmabufs \in Seq(Method) /\ Len(dmabufs) \in Nat
      /\ failures \in Nat /\ failures' \in Nat /\ crashed \in BOOLEAN
      /\ method \in 0 .. M /\ fds \in 0 .. M /\ fdinfo \in 0 .. M
      /\ gl \in BOOLEAN /\ fresh \in BOOLEAN
  BY DEF TypeOK
<1> USE DEF AgreementInv, FdsOfMethod, Unsettled, NewestIsOfMethod, Idle
<1>2. CASE RunStarts
  BY <1>2 DEF RunStarts, client, Descriptors
<1>3. CASE RunLooks \/ RunRenders
  BY <1>3 DEF RunLooks, RunRenders, client, Descriptors
<1>4. CASE RunSends
  <2>1. /\ fds # None /\ dmabufs' = Append(dmabufs, fds) /\ run_pc = "sending"
        /\ run_pc' = "loop" /\ ~send_dmabuf'
        /\ UNCHANGED <<kinds, gl, method, fds, failed_pc, crashed, failures, fresh,
                       importing>>
    BY <1>4 DEF RunSends, client
  <2>2. ~crashed
    BY <2>1
  <2>3. dmabufs' # <<>> /\ dmabufs'[Len(dmabufs')] = fds
    <3>1. fds \in Method
      BY <1>1, <2>1 DEF Method, None
    <3> QED BY <1>1, <2>1, <3>1
  <2>4. method # None /\ Idle => fds = method
    BY <2>1 DEF Descriptors
  <2>5. (Unsettled \/ NewestIsOfMethod)'
    BY <2>1, <2>3, <2>4
  <2> QED BY <2>1, <2>2, <2>5 DEF Descriptors
<1>5. CASE RunThrows
  BY <1>5 DEF RunThrows, client, Descriptors
<1>6. CASE RunResizes
  BY <1>6 DEF RunResizes, client, Descriptors
<1>7. CASE BusResets
  BY <1>7 DEF BusResets, client, Descriptors
<1>8. CASE BusFills
  BY <1>8 DEF BusFills, client, Descriptors
<1>9. CASE BusFinishes
  BY <1>9 DEF BusFinishes, client, Descriptors
<1>10. CASE VkImports \/ GlReceives
  <2>1. /\ dmabufs # <<>> /\ dmabufs' = Tail(dmabufs) /\ ~crashed
        /\ UNCHANGED <<kinds, gl, method, fds, send_dmabuf, run_pc, failed_pc,
                       crashed, importing>>
    BY <1>10 DEF VkImports, GlReceives, server
  <2>2. \/ dmabufs' # <<>> /\ dmabufs'[Len(dmabufs')] = dmabufs[Len(dmabufs)]
        \/ dmabufs' = <<>> /\ Head(dmabufs) = dmabufs[Len(dmabufs)]
    <3>1. \A n \in Nat : n # 0 => n - 1 \in Nat /\ (n = 1 \/ n - 1 \in 1 .. n - 1)
                                  /\ n - 1 + 1 = n
      OBVIOUS
    <3>2. /\ Len(dmabufs) # 0 /\ Tail(dmabufs) \in Seq(Method)
          /\ Len(Tail(dmabufs)) = Len(dmabufs) - 1
          /\ \A i \in 1 .. Len(dmabufs) - 1 : Tail(dmabufs)[i] = dmabufs[i + 1]
          /\ Head(dmabufs) = dmabufs[1]
      BY <1>1, <2>1, EmptySeq, HeadTailProperties
    <3>3. CASE Len(dmabufs) = 1
      BY <2>1, <3>2, <3>3, EmptySeq
    <3>4. CASE Len(dmabufs) # 1
      <4>1. Len(dmabufs) - 1 \in 1 .. Len(dmabufs) - 1 /\ Len(dmabufs) - 1 + 1 = Len(dmabufs)
        BY <1>1, <3>1, <3>2, <3>4
      <4>2. Tail(dmabufs)[Len(dmabufs) - 1] = dmabufs[Len(dmabufs)]
        BY <3>2, <4>1
      <4>3. Tail(dmabufs) # <<>>
        <5>1. Len(dmabufs) - 1 # 0
          BY <4>1
        <5>2. Len(Tail(dmabufs)) # 0
          BY <3>2, <5>1
        <5> QED BY <3>2, <5>2, EmptySeq
      <4> QED BY <2>1, <3>2, <4>2, <4>3
    <3> QED BY <3>3, <3>4
  <2>3. CASE VkImports
    <3>1. ~fresh /\ importing = None /\ UNCHANGED fresh
      BY <2>3 DEF VkImports
    <3>2. CASE kinds[Head(dmabufs)] = "good"
      <4>1. imported' = Head(dmabufs) /\ failures' = failures
        BY <2>3, <3>2 DEF VkImports
      <4> QED BY <1>1, <2>1, <2>2, <3>1, <4>1 DEF Descriptors
    <3>3. CASE kinds[Head(dmabufs)] # "good"
      <4>1. failures' = failures + 1
        BY <2>3, <3>3 DEF VkImports
      <4>2. failures' > 0
        BY <1>1, <4>1
      <4> QED BY <2>1, <3>1, <4>2 DEF Descriptors
    <3> QED BY <3>2, <3>3
  <2>4. CASE GlReceives
    <3>1. gl /\ fdinfo' = Head(dmabufs) /\ fresh' /\ UNCHANGED failures
      BY <2>4 DEF GlReceives, server
    <3> QED BY <2>1, <2>2, <3>1 DEF Descriptors
  <2> QED BY <1>10, <2>3, <2>4
<1>11. CASE GlTakes
  <2>1. /\ fresh /\ ~fresh' /\ importing = None /\ importing' = fdinfo
        /\ UNCHANGED <<kinds, gl, method, fds, send_dmabuf, run_pc, failed_pc,
                       crashed, dmabufs, failures>>
    BY <1>11 DEF GlTakes, server
  <2>2. gl
    BY <2>1
  <2> QED BY <2>1, <2>2 DEF Descriptors
<1>12. CASE GlImports
  <2>1. /\ importing # None /\ importing' = None /\ imported' = importing
        /\ UNCHANGED <<kinds, gl, method, fds, send_dmabuf, run_pc, failed_pc,
                       crashed, dmabufs, failures, fdinfo, fresh>>
    BY <1>12 DEF GlImports, server
  <2> QED BY <2>1 DEF Descriptors
<1>13. CASE GlFails
  <2>1. /\ importing # None /\ importing' = None /\ failures' = failures + 1
        /\ UNCHANGED <<kinds, gl, method, fds, send_dmabuf, run_pc, failed_pc,
                       crashed, dmabufs>>
    BY <1>13 DEF GlFails, server
  <2>2. failures' > 0
    BY <1>1, <2>1
  <2> QED BY <2>1, <2>2 DEF Descriptors
<1>14. CASE UNCHANGED vars
  BY <1>14 DEF vars, server, client, Descriptors
<1> QED BY <1>2, <1>3, <1>4, <1>5, <1>6, <1>7, <1>8, <1>9, <1>10, <1>11, <1>12,
           <1>13, <1>14
    DEF Next, Run, Bus, Client

(* Once nothing is to be announced or answered the overlay draws from the  *)
(* buffers the server renders into, however many methods failed and        *)
(* however often the HUD changed its size meanwhile.                       *)
THEOREM QuietAgreementCorrect == Spec => []QuietAgreement
<1>1. Init => AgreementInv
  BY DEF Init, AgreementInv, FdsOfMethod, Unsettled
<1>2. TypeOK /\ TypeOK' /\ AgreementInv /\ [Next]_vars => AgreementInv'
  BY AgreementStep
<1>3. TypeOK /\ AgreementInv => QuietAgreement
  BY DEF TypeOK, AgreementInv, Unsettled, NewestIsOfMethod, Idle, Quiet, QuietAgreement
<1> QED BY TypeCorrect, <1>1, <1>2, <1>3, PTL DEF Spec
-----------------------------------------------------------------------------
(* Where Settles settles: once nothing is to be announced or answered the  *)
(* server renders with a method that works for this client, or with none,  *)
(* whatever methods fail, resizes come in between, and announcements an    *)
(* OpenGL client drops.                                                    *)
SettlesOnUsable == Quiet /\ method # None => kinds[method] = "good"

(* The overlay never draws from buffers that it could not import.          *)
DrawsUsable == imported # None => kinds[imported] = "good"

(* At rest the overlay draws from the server's buffers, which it can only  *)
(* have imported if their method works for this client.                    *)
THEOREM SettlesOnUsableCorrect == Spec => []SettlesOnUsable
<1>1. Init => DrawsUsable
  BY DEF Init, DrawsUsable
<1>2. DrawsUsable /\ [Next]_vars => DrawsUsable'
  <2> SUFFICES ASSUME DrawsUsable, [Next]_vars PROVE DrawsUsable'
    OBVIOUS
  <2>1. CASE VkImports \/ GlTakes \/ GlImports
    BY <2>1 DEF VkImports, GlTakes, GlImports, DrawsUsable
  <2>2. CASE Run \/ RunResizes \/ Bus \/ GlReceives \/ GlFails \/ UNCHANGED vars
    <3>1. UNCHANGED <<kinds, imported>>
      BY <2>2 DEF Run, RunStarts, RunLooks, RunSends, RunThrows, RunRenders, RunResizes,
                  Bus, BusResets, BusFills, BusFinishes, GlReceives, GlFails, client, vars
    <3> QED BY <3>1 DEF DrawsUsable
  <2> QED BY <2>1, <2>2 DEF Next, Client
<1>3. QuietAgreement /\ DrawsUsable => SettlesOnUsable
  BY DEF QuietAgreement, DrawsUsable, SettlesOnUsable
<1> QED BY QuietAgreementCorrect, <1>1, <1>2, <1>3, PTL DEF Spec
=============================================================================
