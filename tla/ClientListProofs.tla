-------------------------- MODULE ClientListProofs --------------------------
(***************************************************************************)
(* Theorems about ClientList for any number of connections, processes and  *)
(* tasks: who holds clients_mtx, that a pruner joins a client that is      *)
(* still in the list, and that a client's threads have ended and its tasks *)
(* are dropped when it leaves the list.                                    *)
(***************************************************************************)
EXTENDS ClientList, SequenceTheorems, TLAPS

USE NoClientAssumption, BoundsAssumption DEF NoClientAssumption, BoundsAssumption
-----------------------------------------------------------------------------
(* The list.                                                               *)

(* Erasing takes out exactly the client at the iterator.                   *)
LEMMA Erased ==
    ASSUME NEW S, NEW s \in Seq(S), IsInjective(s), NEW i \in DOMAIN s
    PROVE  /\ RemoveAt(s, i) \in Seq(S) /\ IsInjective(RemoveAt(s, i))
           /\ ToSet(RemoveAt(s, i)) = ToSet(s) \ {s[i]}
<1> DEFINE a == SubSeq(s, 1, i - 1)
           b == SubSeq(s, i + 1, Len(s))
           r == RemoveAt(s, i)
<1>1. Len(s) \in Nat /\ DOMAIN s = 1 .. Len(s) /\ \A j \in 1 .. Len(s) : s[j] \in S
  BY LenProperties, ElementOfSeq
<1>2. /\ a \in Seq(S) /\ Len(a) = i - 1
      /\ \A j \in 1 .. i - 1 : a[j] = s[j]
  BY <1>1, SubSeqProperties
<1>3. /\ b \in Seq(S) /\ Len(b) = Len(s) - i
      /\ \A j \in 1 .. Len(s) - i : b[j] = s[j + i]
  <2>1. i + 1 \in Int /\ Len(s) \in Int /\ \A j \in i + 1 .. Len(s) : s[j] \in S
    BY <1>1
  <2>2. /\ b \in Seq(S)
        /\ Len(b) = IF i + 1 <= Len(s) THEN Len(s) - (i + 1) + 1 ELSE 0
        /\ \A j \in 1 .. Len(s) - (i + 1) + 1 : b[j] = s[i + 1 + j - 1]
    BY <2>1, SubSeqProperties
  <2>3. i \in Int /\ Len(s) \in Int /\ 1 <= i /\ i <= Len(s)
    BY <1>1
  <2>4. /\ Len(s) - (i + 1) + 1 = Len(s) - i
        /\ i + 1 <= Len(s) \/ Len(s) - i = 0
        /\ \A j \in Int : i + 1 + j - 1 = j + i
    <3>1. \A k, n \in Int : k <= n => /\ n - (k + 1) + 1 = n - k
                                      /\ k + 1 <= n \/ n - k = 0
                                      /\ \A j \in Int : k + 1 + j - 1 = j + k
      OBVIOUS
    <3> QED BY <2>3, <3>1
  <2>5. Len(b) = Len(s) - i
    <3>1. CASE i + 1 <= Len(s)
      BY <2>2, <2>4, <3>1
    <3>2. CASE ~(i + 1 <= Len(s))
      BY <2>2, <2>4, <3>2
    <3> QED BY <3>1, <3>2
  <2>6. ASSUME NEW j \in 1 .. Len(s) - i PROVE b[j] = s[j + i]
    <3>1. j \in Int /\ j \in 1 .. Len(s) - (i + 1) + 1
      BY <2>3, <2>4
    <3>2. b[j] = s[i + 1 + j - 1]
      BY <2>2, <3>1
    <3> QED BY <2>4, <3>1, <3>2
  <2> QED BY <2>2, <2>5, <2>6
<1> HIDE DEF a, b
<1>4. /\ a \o b \in Seq(S) /\ Len(a \o b) = Len(s) - 1
      /\ \A j \in 1 .. Len(s) - 1 : (a \o b)[j] = IF j < i THEN s[j] ELSE s[j + 1]
  <2>1. /\ a \o b \in Seq(S) /\ Len(a \o b) = Len(a) + Len(b)
        /\ \A j \in 1 .. Len(a) + Len(b) :
              (a \o b)[j] = IF j <= Len(a) THEN a[j] ELSE b[j - Len(a)]
    BY <1>2, <1>3, ConcatProperties
  <2>2. ASSUME NEW j \in 1 .. Len(s) - 1
        PROVE  (a \o b)[j] = IF j < i THEN s[j] ELSE s[j + 1]
    <3>1. CASE j < i
      BY <1>1, <1>2, <1>3, <2>1, <3>1
    <3>2. CASE ~(j < i)
      <4>1. (a \o b)[j] = b[j - (i - 1)] /\ j - (i - 1) \in 1 .. Len(s) - i
        BY <1>1, <1>2, <1>3, <2>1, <3>2
      <4>2. j - (i - 1) + i = j + 1
        BY <1>1
      <4> QED BY <1>3, <3>2, <4>1, <4>2
    <3> QED BY <3>1, <3>2
  <2> QED BY <1>1, <1>2, <1>3, <2>1, <2>2
<1>5. r = a \o b
  BY DEF RemoveAt, a, b
<1>6. DOMAIN r = 1 .. Len(s) - 1
  BY <1>4, <1>5, LenProperties
<1>7. \A j \in 1 .. Len(s) - 1 : r[j] = IF j < i THEN s[j] ELSE s[j + 1]
  BY <1>4, <1>5
<1> HIDE DEF r
<1>8. IsInjective(r)
  <2>1. \A j, k \in 1 .. Len(s) : s[j] = s[k] => j = k
    BY <1>1 DEF IsInjective
  <2>2. ASSUME NEW j \in 1 .. Len(s) - 1, NEW k \in 1 .. Len(s) - 1, r[j] = r[k]
        PROVE  j = k
    BY <1>1, <1>7, <2>1, <2>2
  <2> QED BY <1>6, <2>2 DEF IsInjective
<1>9. ToSet(r) = ToSet(s) \ {s[i]}
  <2>1. ASSUME NEW x \in ToSet(r) PROVE x \in ToSet(s) /\ x # s[i]
    <3>1. PICK j \in 1 .. Len(s) - 1 : x = r[j]
      BY <1>6 DEF ToSet
    <3>2. PICK k \in 1 .. Len(s) : x = s[k] /\ k # i
      BY <1>1, <1>7, <3>1
    <3> QED BY <1>1, <3>2 DEF ToSet, IsInjective
  <2>2. ASSUME NEW x \in ToSet(s), x # s[i] PROVE x \in ToSet(r)
    <3>1. PICK k \in 1 .. Len(s) : x = s[k] /\ k # i
      BY <1>1, <2>2 DEF ToSet
    <3>2. \E j \in 1 .. Len(s) - 1 : x = r[j]
      <4>1. CASE k < i
        <5>1. k \in 1 .. Len(s) - 1 /\ r[k] = s[k]
          BY <1>1, <1>7, <4>1
        <5> QED BY <3>1, <5>1
      <4>2. CASE k > i
        <5>1. k - 1 \in 1 .. Len(s) - 1 /\ ~(k - 1 < i) /\ k - 1 + 1 = k
          BY <1>1, <4>2
        <5>2. r[k - 1] = s[k]
          BY <1>7, <5>1
        <5> QED BY <3>1, <5>1, <5>2
      <4> QED BY <1>1, <3>1, <4>1, <4>2
    <3> QED BY <1>6, <3>2 DEF ToSet
  <2> QED BY <2>1, <2>2
<1> QED BY <1>4, <1>5, <1>8, <1>9 DEF r

(* Appending a client that is not in the list.                             *)
LEMMA Appended ==
    ASSUME NEW S, NEW s \in Seq(S), NEW x \in S
    PROVE  /\ Append(s, x) \in Seq(S)
           /\ ToSet(Append(s, x)) = ToSet(s) \union {x}
           /\ IsInjective(s) /\ x \notin ToSet(s) => IsInjective(Append(s, x))
<1> DEFINE r == Append(s, x)
<1>1. /\ Len(s) \in Nat /\ DOMAIN s = 1 .. Len(s)
      /\ r \in Seq(S) /\ Len(r) = Len(s) + 1 /\ DOMAIN r = 1 .. Len(s) + 1
      /\ (\A j \in 1 .. Len(s) : r[j] = s[j]) /\ r[Len(s) + 1] = x
  BY LenProperties, AppendProperties
<1> HIDE DEF r
<1>2. ToSet(r) = ToSet(s) \union {x}
  <2>1. ASSUME NEW y \in ToSet(r) PROVE y \in ToSet(s) \union {x}
    <3>1. PICK j \in 1 .. Len(s) + 1 : y = r[j]
      BY <1>1 DEF ToSet
    <3>2. CASE j = Len(s) + 1
      BY <1>1, <3>1, <3>2
    <3>3. CASE j # Len(s) + 1
      <4>1. j \in 1 .. Len(s)
        BY <1>1, <3>3
      <4> QED BY <1>1, <3>1, <4>1 DEF ToSet
    <3> QED BY <3>2, <3>3
  <2>2. ASSUME NEW y \in ToSet(s) PROVE y \in ToSet(r)
    <3>1. PICK j \in 1 .. Len(s) : y = s[j]
      BY <1>1 DEF ToSet
    <3>2. j \in DOMAIN r /\ r[j] = y
      BY <1>1, <3>1
    <3> QED BY <3>2 DEF ToSet
  <2>3. x \in ToSet(r)
    <3>1. Len(s) + 1 \in DOMAIN r
      BY <1>1
    <3> QED BY <1>1, <3>1 DEF ToSet
  <2> QED BY <2>1, <2>2, <2>3
<1>3. ASSUME IsInjective(s), x \notin ToSet(s) PROVE IsInjective(r)
  <2>1. \A j, k \in 1 .. Len(s) : s[j] = s[k] => j = k
    BY <1>1, <1>3 DEF IsInjective
  <2>2. \A j \in 1 .. Len(s) : s[j] # x
    BY <1>1, <1>3 DEF ToSet
  <2>3. ASSUME NEW j \in 1 .. Len(s) + 1, NEW k \in 1 .. Len(s) + 1, r[j] = r[k]
        PROVE  j = k
    BY <1>1, <2>1, <2>2, <2>3
  <2> QED BY <1>1, <2>3 DEF IsInjective
<1> QED BY <1>1, <1>2, <1>3 DEF r
-----------------------------------------------------------------------------
(* The three threads.                                                      *)

Thread == {"main", "ipc", "metrics"}

Label == [main |-> {"reload", "send", "copy", "probe", "lock", "walk", "join"},
          ipc |-> {"idle", "copy", "probe", "lock", "walk", "join", "add"},
          metrics |-> {"idle", "read", "populate"}]

PcOK == pc \in [main : Label.main, ipc : Label.ipc, metrics : Label.metrics]

(* Goto moves one thread and leaves the others where they are.             *)
LEMMA Moves ==
    ASSUME PcOK, NEW t \in Thread, NEW l, Goto(t, l)
    PROVE  /\ pc'[t] = l
           /\ \A u \in Thread : u # t => pc'[u] = pc[u]
           /\ l \in Label[t] => PcOK'
<1>1. CASE t = "main"
  BY <1>1 DEF PcOK, Thread, Goto, Label
<1>2. CASE t = "ipc"
  BY <1>2 DEF PcOK, Thread, Goto, Label
<1>3. CASE t = "metrics"
  BY <1>3 DEF PcOK, Thread, Goto, Label
<1> QED BY <1>1, <1>2, <1>3 DEF Thread
-----------------------------------------------------------------------------
(* The inductive invariant.                                                *)

(* Who holds clients_mtx.                                                  *)
Locked ==
    /\ \A t \in Pruner : pc[t] \in {"walk", "join"} => clients_mtx = t
    /\ pc["metrics"] = "read" => clients_mtx = "metrics"

(* A pruner joins the threads of a client that was told to stop, for which *)
(* nothing is run any more, and which is still at the iterator.            *)
Joining ==
    \A t \in Pruner : pc[t] = "join" =>
        it \in DOMAIN clients /\ stop[clients[it]] /\ ~active[clients[it]]

(* Only a connection that never was in the list enters it.                 *)
Requesting ==
    /\ pc["ipc"] # "idle" => requester \in Clients /\ link[requester] = "none"
    /\ \A c \in Listed : link[c] # "none"

(* A client outside the list has no running thread, and of tasks at most a *)
(* late config.                                                            *)
Gone(c) ==
    /\ bus[c] \in {"none", "exited"}
    /\ run[c] \in {"none", "exited"}
    /\ ToSet(work[c]) \subseteq {"config"}
Departed == \A c \in Clients \ Listed : Gone(c)

ListInv == TypeOK /\ Locked /\ Joining /\ Requesting /\ Departed

LEMMA Initially == Init => ListInv
<1> SUFFICES ASSUME Init PROVE ListInv
  OBVIOUS
<1> USE DEF Init
<1>1. clients \in Seq(Clients) /\ IsInjective(clients) /\ Listed = {}
  BY DEF IsInjective, Listed, ToSet
<1>2. work \in [Clients -> Seq({"config", "dmabuf", "frame"})]
  OBVIOUS
<1>3. ToSet(<<>>) = {}
  BY DEF ToSet
<1>4. TypeOK
  BY <1>1, <1>2 DEF TypeOK, Pruner
<1>5. Locked /\ Joining /\ Requesting
  BY <1>1 DEF Locked, Joining, Requesting, Pruner
<1>6. Departed
  BY <1>3 DEF Departed, Gone
<1> QED BY <1>4, <1>5, <1>6 DEF ListInv

(* The type invariant is kept by every step.                               *)
LEMMA TypeStep ==
    ASSUME ListInv, [Next]_vars
    PROVE  TypeOK'
<1> USE DEF main, env, object
<1>1. TypeOK /\ PcOK
  BY DEF ListInv, TypeOK, PcOK, Label
<1>2. Listed \subseteq Clients
  BY <1>1 DEF TypeOK, Listed, ToSet
<1>3. \A t \in Pruner : t \in Thread /\ Return(t) \in Label[t]
  BY DEF Pruner, Thread, Return, Label
<1>4. \A t \in Pruner : {"copy", "probe", "lock", "walk", "join"} \subseteq Label[t]
  BY DEF Pruner, Label
<1>5. ASSUME NEW t \in Pruner, Prune(t) PROVE TypeOK'
  <2>1. CASE CopyList(t)
    <3>1. PcOK'
      BY <1>1, <1>3, <1>4, <2>1, Moves DEF CopyList
    <3> QED BY <1>1, <1>2, <2>1, <3>1 DEF CopyList, TypeOK, PcOK, Label
  <2>2. CASE Probe(t)
    <3>1. PcOK'
      BY <1>1, <1>3, <1>4, <2>2, Moves DEF Probe
    <3>2. active' \in [Clients -> BOOLEAN]
      BY <2>2 DEF Probe
    <3> QED BY <1>1, <2>2, <3>1, <3>2 DEF Probe, TypeOK, PcOK, Label
  <2>3. CASE Lock(t)
    <3>1. PcOK'
      BY <1>1, <1>3, <1>4, <2>3, Moves DEF Lock
    <3> QED BY <1>1, <2>3, <3>1 DEF Lock, TypeOK, PcOK, Label, Pruner
  <2>4. CASE Keep(t)
    BY <1>1, <2>4 DEF Keep, TypeOK
  <2>5. CASE Stop(t)
    <3>1. PcOK'
      BY <1>1, <1>3, <1>4, <2>5, Moves DEF Stop
    <3> QED BY <1>1, <2>5, <3>1 DEF Stop, TypeOK, PcOK, Label
  <2>6. CASE Erase(t)
    <3>1. PcOK'
      BY <1>1, <1>3, <1>4, <2>6, Moves DEF Erase
    <3>2. it \in DOMAIN clients
      BY <2>6 DEF Erase, ListInv, Joining
    <3>3. clients' \in Seq(Clients) /\ IsInjective(clients')
      BY <1>1, <2>6, <3>2, Erased DEF Erase, TypeOK
    <3>4. work' \in [Clients -> Seq({"config", "dmabuf", "frame"})]
      <4>1. <<>> \in Seq({"config", "dmabuf", "frame"})
        OBVIOUS
      <4>2. work \in [Clients -> Seq({"config", "dmabuf", "frame"})]
        BY <1>1 DEF TypeOK
      <4>3. work' = [work EXCEPT ![clients[it]] = <<>>]
        BY <2>6 DEF Erase
      <4> QED BY <4>1, <4>2, <4>3
    <3> QED BY <1>1, <2>6, <3>1, <3>3, <3>4 DEF Erase, TypeOK, PcOK, Label
  <2>7. CASE Unlock(t)
    <3>1. PcOK'
      BY <1>1, <1>3, <1>4, <2>7, Moves DEF Unlock
    <3> QED BY <1>1, <2>7, <3>1 DEF Unlock, TypeOK, PcOK, Label
  <2> QED BY <1>5, <2>1, <2>2, <2>3, <2>4, <2>5, <2>6, <2>7 DEF Prune
<1>6. CASE NoReload
  <2>1. PcOK'
    BY <1>1, <1>6, Moves DEF NoReload, Thread, Label
  <2> QED BY <1>1, <1>6, <2>1 DEF NoReload, TypeOK, PcOK, Label
<1>7. CASE Reload
  <2>1. PcOK'
    BY <1>1, <1>7, Moves DEF Reload, Thread, Label
  <2> QED BY <1>1, <1>2, <1>7, <2>1 DEF Reload, TypeOK, PcOK, Label
<1>8. CASE TakeClient
  <2>1. PcOK'
    BY <1>1, <1>8, Moves DEF TakeClient, Thread, Label, PcOK
  <2> QED BY <1>1, <1>2, <1>8, <2>1 DEF TakeClient, TypeOK, PcOK, Label
<1>9. CASE PostConfig
  BY <1>1, <1>9 DEF PostConfig, TypeOK
<1>10. ASSUME NEW c \in Clients, Request(c) PROVE TypeOK'
  <2>1. PcOK'
    BY <1>1, <1>10, Moves DEF Request, Thread, Label
  <2> QED BY <1>1, <1>10, <2>1 DEF Request, TypeOK, PcOK, Label
<1>11. CASE Add
  <2>1. PcOK'
    BY <1>1, <1>11, Moves DEF Add, Thread, Label
  <2>2. requester \in Clients /\ requester \notin Listed
    BY <1>11 DEF Add, ListInv, Requesting
  <2>3. clients' \in Seq(Clients) /\ IsInjective(clients')
    BY <1>1, <1>11, <2>2, Appended DEF Add, TypeOK, Listed
  <2>4. link' \in [Clients -> {"none", "open", "closed"}]
    BY <1>1, <1>11 DEF Add, TypeOK
  <2>5. active' \in [Clients -> BOOLEAN]
    BY <1>1, <1>11 DEF Add, TypeOK
  <2>6. bus' \in [Clients -> {"none", "running", "told", "exited"}]
    BY <1>1, <1>11 DEF Add, TypeOK
  <2>7. run' \in [Clients -> {"none", "top", "wait", "fence", "exited"}]
    BY <1>1, <1>11 DEF Add, TypeOK
  <2> QED BY <1>1, <1>11, <2>1, <2>3, <2>4, <2>5, <2>6, <2>7
         DEF Add, TypeOK, PcOK, Label
<1>12. CASE UpdateClients
  <2>1. PcOK'
    BY <1>1, <1>12, Moves DEF UpdateClients, Thread, Label
  <2> QED BY <1>1, <1>2, <1>12, <2>1 DEF UpdateClients, TypeOK, PcOK, Label
<1>13. ASSUME NEW c \in Clients, ReadClient(c) PROVE TypeOK'
  BY <1>1, <1>13 DEF ReadClient, TypeOK
<1>14. CASE ClientsRead
  <2>1. PcOK'
    BY <1>1, <1>14, Moves DEF ClientsRead, Thread, Label
  <2> QED BY <1>1, <1>14, <2>1 DEF ClientsRead, TypeOK, PcOK, Label
<1>15. CASE PopulateTables
  <2>1. PcOK'
    BY <1>1, <1>15, Moves DEF PopulateTables, Thread, Label
  <2>2. Populated \subseteq Clients
    BY <1>2 DEF Populated
  <2> QED BY <1>1, <1>15, <2>1, <2>2 DEF PopulateTables, TypeOK, PcOK, Label
<1>16. ASSUME NEW c \in Clients, RunTask(c) PROVE TypeOK'
  <2>1. work[c] \in Seq({"config", "dmabuf", "frame"}) /\ work[c] # <<>>
    BY <1>1, <1>16 DEF RunTask, TypeOK
  <2>2. Tail(work[c]) \in Seq({"config", "dmabuf", "frame"})
    BY <2>1, HeadTailProperties
  <2> QED BY <1>1, <1>16, <2>2 DEF RunTask, TypeOK
<1>17. ASSUME NEW c \in Clients, RejectHandshake(c) \/ BusExits(c) PROVE TypeOK'
  <2>1. CASE RejectHandshake(c)
    BY <1>1, <2>1 DEF RejectHandshake, TypeOK
  <2>2. CASE BusExits(c)
    BY <1>1, <2>2 DEF BusExits, TypeOK
  <2> QED BY <1>17, <2>1, <2>2
<1>18. ASSUME NEW c \in Clients, RunThread(c) PROVE TypeOK'
  <2>1. ASSUME NEW l \in {"top", "wait", "fence", "exited"}, RunGoto(c, l)
        PROVE  run' \in [Clients -> {"none", "top", "wait", "fence", "exited"}]
    BY <1>1, <2>1 DEF RunGoto, TypeOK
  <2>2. CASE RunExits(c)
    BY <1>1, <2>1, <2>2 DEF RunExits, TypeOK
  <2>3. CASE RunWakes(c)
    BY <1>1, <2>1, <2>3 DEF RunWakes, TypeOK
  <2>4. CASE RunAcquires(c)
    BY <1>1, <2>1, <2>4 DEF RunAcquires, TypeOK
  <2>5. CASE RunPosts(c)
    <3>1. run' \in [Clients -> {"none", "top", "wait", "fence", "exited"}]
      BY <2>1, <2>5 DEF RunPosts
    <3>2. work' \in [Clients -> Seq({"config", "dmabuf", "frame"})]
      <4>1. CASE work' = work
        BY <1>1, <4>1 DEF TypeOK
      <4>2. ASSUME NEW kind \in {"dmabuf", "frame"},
                   work' = [work EXCEPT ![c] = Append(@, kind)]
            PROVE  work' \in [Clients -> Seq({"config", "dmabuf", "frame"})]
        BY <1>1, <4>2 DEF TypeOK
      <4> QED BY <2>5, <4>1, <4>2 DEF RunPosts
    <3> QED BY <1>1, <2>5, <3>1, <3>2 DEF RunPosts, TypeOK
  <2> QED BY <1>18, <2>2, <2>3, <2>4, <2>5 DEF RunThread
<1>19. ASSUME NEW c \in Clients, Close(c) PROVE TypeOK'
  BY <1>1, <1>19 DEF Close, TypeOK
<1>20. ASSUME NEW p \in Processes, ProcessExits(p) PROVE TypeOK'
  BY <1>1, <1>20 DEF ProcessExits, TypeOK
<1>21. CASE UNCHANGED vars
  BY <1>1, <1>21 DEF vars, TypeOK
<1> QED
  BY <1>5, <1>6, <1>7, <1>8, <1>9, <1>10, <1>11, <1>12, <1>13, <1>14, <1>15,
     <1>16, <1>17, <1>18, <1>19, <1>20, <1>21
  DEF Next, MainLoop, IpcThread, MetricsThread, BusThread, Pruner

(* One thread at a time holds clients_mtx: it is taken only when it is     *)
(* free and given back only by its holder.                                 *)
LEMMA LockedStep ==
    ASSUME ListInv, [Next]_vars
    PROVE  Locked'
<1> USE DEF Locked, Pruner
<1>1. PcOK /\ Locked
  BY DEF ListInv, TypeOK, PcOK, Label
<1>2. \A t \in Pruner : t \in Thread /\ t # "metrics" /\ t # "none"
  BY DEF Thread
<1>3. ASSUME NEW t \in Pruner, NEW l, Goto(t, l), UNCHANGED clients_mtx,
             pc[t] \in {"walk", "join"} \/ l \notin {"walk", "join"}
      PROVE  Locked'
  BY <1>1, <1>2, <1>3, Moves DEF Thread
<1>4. ASSUME NEW t \in Pruner, Prune(t) PROVE Locked'
  <2>1. CASE CopyList(t) \/ Probe(t)
    <3>1. \A l \in {Return(t), "lock", "probe"} : l \notin {"walk", "join"}
      BY DEF Return
    <3> QED BY <1>3, <2>1, <3>1 DEF CopyList, Probe
  <2>2. CASE Lock(t)
    <3>1. clients_mtx = "none" /\ clients_mtx' = t /\ Goto(t, "walk")
      BY <2>2 DEF Lock
    <3> QED BY <1>1, <1>2, <3>1, Moves DEF Thread
  <2>3. CASE Keep(t)
    BY <1>1, <2>3 DEF Keep
  <2>4. CASE Stop(t) \/ Erase(t)
    BY <1>3, <2>4 DEF Stop, Erase
  <2>5. CASE Unlock(t)
    <3>1. pc[t] = "walk" /\ clients_mtx' = "none" /\ Goto(t, Return(t))
      BY <2>5 DEF Unlock
    <3>2. Return(t) \notin {"walk", "join"}
      BY DEF Return
    <3> QED BY <1>1, <1>2, <3>1, <3>2, Moves DEF Thread
  <2> QED BY <1>4, <2>1, <2>2, <2>3, <2>4, <2>5 DEF Prune
<1>5. CASE NoReload \/ Reload
  BY <1>3, <1>5 DEF NoReload, Reload
<1>6. CASE TakeClient
  <2>1. CASE Goto("main", "copy")
    BY <1>3, <1>6, <2>1 DEF TakeClient
  <2>2. CASE pc' = pc
    BY <1>1, <1>6, <2>2 DEF TakeClient
  <2> QED BY <1>6, <2>1, <2>2 DEF TakeClient
<1>7. ASSUME NEW c \in Clients, Request(c) PROVE Locked'
  BY <1>3, <1>7 DEF Request
<1>8. CASE Add
  BY <1>3, <1>8 DEF Add
<1>9. CASE UpdateClients
  <2>1. clients_mtx = "none" /\ clients_mtx' = "metrics" /\ Goto("metrics", "read")
    BY <1>9 DEF UpdateClients
  <2> QED BY <1>1, <1>2, <2>1, Moves DEF Thread
<1>10. CASE ClientsRead
  <2>1. pc["metrics"] = "read" /\ Goto("metrics", "populate")
    BY <1>10 DEF ClientsRead
  <2> QED BY <1>1, <1>2, <2>1, Moves DEF Thread
<1>11. CASE PopulateTables
  <2>1. clients_mtx' = clients_mtx /\ Goto("metrics", "idle")
    BY <1>11 DEF PopulateTables
  <2> QED BY <1>1, <1>2, <2>1, Moves DEF Thread
<1>12. CASE UNCHANGED <<pc, clients_mtx>>
  BY <1>1, <1>12
<1>13. ASSUME NEW c \in Clients,
              ReadClient(c) \/ Close(c) \/ RejectHandshake(c) \/ BusThread(c)
              \/ RunThread(c)
       PROVE  UNCHANGED <<pc, clients_mtx>>
  BY <1>13 DEF ReadClient, Close, RejectHandshake, BusThread, RunTask, BusExits,
     RunThread, RunExits, RunPosts, RunWakes, RunAcquires
<1>14. (\E p \in Processes : ProcessExits(p)) \/ PostConfig \/ UNCHANGED vars
       => UNCHANGED <<pc, clients_mtx>>
  BY DEF ProcessExits, PostConfig, vars
<1> QED
  BY <1>4, <1>5, <1>6, <1>7, <1>8, <1>9, <1>10, <1>11, <1>12, <1>13, <1>14
  DEF Next, MainLoop, IpcThread, MetricsThread

(* A client is never told to go on, and never becomes active again.        *)
LEMMA NoRevival ==
    ASSUME ListInv, [Next]_vars, NEW c \in Clients
    PROVE  (stop[c] => stop'[c]) /\ (~active[c] => ~active'[c])
<1> USE DEF main, env, object
<1>1. /\ active \in [Clients -> BOOLEAN] /\ stop \in [Clients -> BOOLEAN]
  BY DEF ListInv, TypeOK
<1>2. ASSUME NEW t \in Pruner, Prune(t)
      PROVE  (stop[c] => stop'[c]) /\ (~active[c] => ~active'[c])
  <2>1. CASE Probe(t)
    BY <1>1, <2>1 DEF Probe
  <2>2. CASE Stop(t)
    BY <1>1, <2>2 DEF Stop
  <2>3. CASE CopyList(t) \/ Lock(t) \/ Keep(t) \/ Erase(t) \/ Unlock(t)
    BY <2>3 DEF CopyList, Lock, Keep, Erase, Unlock
  <2> QED BY <1>2, <2>1, <2>2, <2>3 DEF Prune
<1>3. CASE Add
  BY <1>1, <1>3 DEF Add
<1>4. ASSUME NEW d \in Clients, RunTask(d) \/ RejectHandshake(d)
      PROVE  (stop[c] => stop'[c]) /\ (~active[c] => ~active'[c])
  <2>1. CASE RunTask(d)
    <3>1. active[d] /\ stop' = stop
      BY <2>1 DEF RunTask
    <3>2. c # d => active'[c] = active[c]
      BY <1>1, <2>1 DEF RunTask
    <3> QED BY <3>1, <3>2
  <2>2. CASE RejectHandshake(d)
    BY <1>1, <2>2 DEF RejectHandshake
  <2> QED BY <1>4, <2>1, <2>2
<1>5. ASSUME NEW d \in Clients,
             Request(d) \/ ReadClient(d) \/ Close(d) \/ BusExits(d) \/ RunThread(d)
      PROVE  UNCHANGED <<active, stop>>
  BY <1>5 DEF Request, ReadClient, Close, BusExits, RunThread, RunExits, RunPosts,
     RunWakes, RunAcquires
<1>6. (\E p \in Processes : ProcessExits(p)) \/ UNCHANGED vars
      => UNCHANGED <<active, stop>>
  BY DEF ProcessExits, vars
<1>7. NoReload \/ Reload \/ TakeClient \/ PostConfig \/ UpdateClients
      \/ ClientsRead \/ PopulateTables => UNCHANGED <<active, stop>>
  BY DEF NoReload, Reload, TakeClient, PostConfig, UpdateClients, ClientsRead,
     PopulateTables
<1> QED
  BY <1>2, <1>3, <1>4, <1>5, <1>6, <1>7
  DEF Next, MainLoop, IpcThread, MetricsThread, BusThread, Pruner

(* The list and the iterator belong to the thread that holds clients_mtx:  *)
(* while a pruner joins a client nobody moves the one at the iterator.     *)
LEMMA ListIsOwned ==
    ASSUME ListInv, [Next]_vars, NEW t \in Pruner, pc[t] = "join", pc'[t] = "join"
    PROVE  UNCHANGED <<clients, it>>
<1> USE DEF main, env, object
<1>1. PcOK /\ Locked /\ clients_mtx = t /\ t # "none"
  BY DEF ListInv, TypeOK, PcOK, Label, Locked, Pruner
<1>2. ASSUME NEW u \in Pruner, Prune(u) PROVE UNCHANGED <<clients, it>>
  <2>1. CASE CopyList(u) \/ Probe(u) \/ Stop(u)
    BY <2>1 DEF CopyList, Probe, Stop
  <2>2. ~Lock(u)
    BY <1>1 DEF Lock
  <2>3. u # t => ~(Keep(u) \/ Erase(u) \/ Unlock(u))
    BY <1>1 DEF Keep, Erase, Unlock, Locked
  <2>4. u = t => ~(Keep(u) \/ Unlock(u))
    BY DEF Keep, Unlock
  <2>5. u = t => ~Erase(u)
    <3>1. u \in Thread
      BY DEF Pruner, Thread
    <3> QED BY <1>1, <3>1, Moves DEF Erase
  <2> QED BY <1>2, <2>1, <2>2, <2>3, <2>4, <2>5 DEF Prune
<1>3. ~Add
  BY <1>1 DEF Add
<1>4. ASSUME NEW d \in Clients,
             Request(d) \/ ReadClient(d) \/ Close(d) \/ RejectHandshake(d)
             \/ BusThread(d) \/ RunThread(d)
      PROVE  UNCHANGED <<clients, it>>
  BY <1>4 DEF Request, ReadClient, Close, RejectHandshake, BusThread, RunTask,
     BusExits, RunThread, RunExits, RunPosts, RunWakes, RunAcquires
<1>5. (\E p \in Processes : ProcessExits(p)) \/ UNCHANGED vars
      => UNCHANGED <<clients, it>>
  BY DEF ProcessExits, vars
<1>6. NoReload \/ Reload \/ TakeClient \/ PostConfig \/ UpdateClients
      \/ ClientsRead \/ PopulateTables => UNCHANGED <<clients, it>>
  BY DEF NoReload, Reload, TakeClient, PostConfig, UpdateClients, ClientsRead,
     PopulateTables
<1> QED
  BY <1>2, <1>3, <1>4, <1>5, <1>6
  DEF Next, MainLoop, IpcThread, MetricsThread, Pruner

(* Only Stop takes a pruner to the join, and only of the thread itself.    *)
LEMMA OnlyStopJoins ==
    ASSUME ListInv, [Next]_vars, NEW t \in Pruner, pc[t] # "join", pc'[t] = "join"
    PROVE  Stop(t)
<1> USE DEF main, env, object
<1>1. PcOK
  BY DEF ListInv, TypeOK, PcOK, Label
<1>2. ASSUME NEW u \in Thread, NEW l, l # "join" \/ u # t, Goto(u, l) PROVE FALSE
  BY <1>1, <1>2, Moves DEF Pruner, Thread
<1>3. pc' # pc
  OBVIOUS
<1>4. ASSUME NEW u \in Pruner, Prune(u) PROVE Stop(u) /\ u = t
  <2>1. u \in Thread
    BY DEF Pruner, Thread
  <2>2. \A l \in {Return(u), "lock", "probe", "walk"} : l # "join"
    BY DEF Return
  <2>3. ~(CopyList(u) \/ Probe(u) \/ Lock(u) \/ Erase(u) \/ Unlock(u))
    BY <1>2, <2>1, <2>2 DEF CopyList, Probe, Lock, Erase, Unlock
  <2>4. ~Keep(u)
    BY <1>3 DEF Keep
  <2>5. Stop(u) => u = t
    BY <1>2, <2>1 DEF Stop
  <2> QED BY <1>4, <2>3, <2>4, <2>5 DEF Prune
<1>5. ~(NoReload \/ Reload \/ PostConfig)
  BY <1>2, <1>3 DEF NoReload, Reload, PostConfig, Thread
<1>6. ~TakeClient
  BY <1>2, <1>3 DEF TakeClient, Thread
<1>7. ~(Add \/ UpdateClients \/ ClientsRead \/ PopulateTables)
  BY <1>2 DEF Add, UpdateClients, ClientsRead, PopulateTables, Thread
<1>8. ASSUME NEW d \in Clients PROVE ~Request(d)
  BY <1>2 DEF Request, Thread
<1>9. ASSUME NEW d \in Clients
      PROVE  ~(ReadClient(d) \/ Close(d) \/ RejectHandshake(d) \/ BusThread(d)
               \/ RunThread(d))
  BY <1>3 DEF ReadClient, Close, RejectHandshake, BusThread, RunTask,
     BusExits, RunThread, RunExits, RunPosts, RunWakes, RunAcquires
<1>10. ~((\E p \in Processes : ProcessExits(p)) \/ UNCHANGED vars)
  BY <1>3 DEF ProcessExits, vars
<1> QED
  BY <1>4, <1>5, <1>6, <1>7, <1>8, <1>9, <1>10
  DEF Next, MainLoop, IpcThread, MetricsThread, Pruner

LEMMA JoiningStep ==
    ASSUME ListInv, [Next]_vars
    PROVE  Joining'
<1> SUFFICES ASSUME NEW t \in Pruner, pc'[t] = "join"
             PROVE  it' \in DOMAIN clients' /\ stop'[clients'[it']]
                    /\ ~active'[clients'[it']]
  BY DEF Joining
<1>1. clients \in Seq(Clients) /\ active \in [Clients -> BOOLEAN]
      /\ stop \in [Clients -> BOOLEAN]
  BY DEF ListInv, TypeOK
<1>2. CASE pc[t] = "join"
  <2>1. UNCHANGED <<clients, it>>
    BY <1>2, ListIsOwned
  <2>2. it \in DOMAIN clients /\ stop[clients[it]] /\ ~active[clients[it]]
    BY <1>2 DEF ListInv, Joining
  <2>3. clients[it] \in Clients
    BY <1>1, <2>2
  <2>4. stop'[clients[it]] /\ ~active'[clients[it]]
    BY <2>2, <2>3, NoRevival
  <2> QED BY <2>1, <2>2, <2>4
<1>3. CASE pc[t] # "join"
  <2>1. Stop(t)
    BY <1>3, OnlyStopJoins
  <2>2. it \in DOMAIN clients /\ ~active[clients[it]] /\ UNCHANGED <<clients, it, active>>
        /\ stop' = [stop EXCEPT ![clients[it]] = TRUE]
    BY <2>1 DEF Stop, AtClient
  <2>3. clients[it] \in Clients
    BY <1>1, <2>2
  <2> QED BY <1>1, <2>2, <2>3
<1> QED BY <1>2, <1>3

(* The list loses the client that was joined, and wins the requester.      *)
LEMMA ErasedClient ==
    ASSUME ListInv, NEW t \in Pruner, Erase(t)
    PROVE  /\ clients[it] \in Listed /\ Listed' = Listed \ {clients[it]}
           /\ Joinable(clients[it])
<1>1. it \in DOMAIN clients /\ clients \in Seq(Clients) /\ IsInjective(clients)
  BY DEF ListInv, Joining, TypeOK, Erase
<1>2. clients[it] \in Listed
  BY <1>1 DEF Listed, ToSet
<1> QED BY <1>1, <1>2, Erased DEF Erase, Listed

LEMMA AddedClient ==
    ASSUME ListInv, Add
    PROVE  requester \in Clients \ Listed /\ Listed' = Listed \union {requester}
<1>1. requester \in Clients \ Listed /\ clients \in Seq(Clients)
  BY DEF ListInv, Requesting, TypeOK, Add
<1> QED BY <1>1, Appended DEF Add, Listed

(* Every other step leaves the list alone.                                 *)
LEMMA ListKept ==
    ASSUME [Next]_vars, ~Add, \A t \in Pruner : ~Erase(t)
    PROVE  Listed' = Listed
<1> USE DEF main, env, object
<1> SUFFICES clients' = clients
  BY DEF Listed
<1>1. ASSUME NEW u \in Pruner, Prune(u) PROVE clients' = clients
  BY <1>1 DEF Prune, CopyList, Probe, Lock, Keep, Stop, Unlock
<1>2. ASSUME NEW d \in Clients,
             Request(d) \/ ReadClient(d) \/ Close(d) \/ RejectHandshake(d)
             \/ BusThread(d) \/ RunThread(d)
      PROVE  clients' = clients
  BY <1>2 DEF Request, ReadClient, Close, RejectHandshake, BusThread, RunTask,
     BusExits, RunThread, RunExits, RunPosts, RunWakes, RunAcquires
<1>3. (\E p \in Processes : ProcessExits(p)) \/ UNCHANGED vars => clients' = clients
  BY DEF ProcessExits, vars
<1>4. NoReload \/ Reload \/ TakeClient \/ PostConfig \/ UpdateClients
      \/ ClientsRead \/ PopulateTables => clients' = clients
  BY DEF NoReload, Reload, TakeClient, PostConfig, UpdateClients, ClientsRead,
     PopulateTables
<1> QED
  BY <1>1, <1>2, <1>3, <1>4 DEF Next, MainLoop, IpcThread, MetricsThread, Pruner

(* A connection that has been accepted stays so, and becomes it only by    *)
(* Add.                                                                    *)
LEMMA RequestingStep ==
    ASSUME ListInv, [Next]_vars
    PROVE  Requesting'
<1> USE DEF main, env, object
<1>1. /\ PcOK /\ Requesting /\ link \in [Clients -> {"none", "open", "closed"}]
      /\ Listed \subseteq Clients
  BY DEF ListInv, TypeOK, PcOK, Label, Listed, ToSet
<1>2. CASE Add
  <2>1. requester \in Clients \ Listed /\ Listed' = Listed \union {requester}
    BY <1>2, AddedClient
  <2>2. pc'["ipc"] = "idle"
    BY <1>1, <1>2, Moves DEF Add, Thread
  <2>3. link'[requester] # "none" /\ \A c \in Clients \ {requester} : link'[c] = link[c]
    BY <1>1, <1>2, <2>1 DEF Add
  <2> QED BY <1>1, <2>1, <2>2, <2>3 DEF Requesting
<1>3. CASE ~Add
  <2>1. Listed' \subseteq Listed
    BY <1>3, ListKept, ErasedClient
  <2>2. ASSUME NEW c \in Clients PROVE link'[c] = "none" <=> link[c] = "none"
    <3>1. CASE UNCHANGED link
      BY <3>1
    <3>2. ASSUME NEW d \in Clients, Close(d)
          PROVE  link'[c] = "none" <=> link[c] = "none"
      BY <1>1, <3>2 DEF Close
    <3>3. ASSUME NEW p \in Processes, ProcessExits(p)
          PROVE  link'[c] = "none" <=> link[c] = "none"
      BY <1>1, <3>3 DEF ProcessExits
    <3>4. ASSUME NEW u \in Pruner, Prune(u) PROVE UNCHANGED link
      BY <3>4 DEF Prune, CopyList, Probe, Lock, Keep, Stop, Erase, Unlock
    <3>5. ASSUME NEW d \in Clients,
                 Request(d) \/ ReadClient(d) \/ RejectHandshake(d)
                 \/ BusThread(d) \/ RunThread(d)
          PROVE  UNCHANGED link
      BY <3>5 DEF Request, ReadClient, RejectHandshake, BusThread, RunTask,
         BusExits, RunThread, RunExits, RunPosts, RunWakes, RunAcquires
    <3>6. NoReload \/ Reload \/ TakeClient \/ PostConfig \/ UpdateClients
          \/ ClientsRead \/ PopulateTables \/ UNCHANGED vars => UNCHANGED link
      BY DEF NoReload, Reload, TakeClient, PostConfig, UpdateClients, ClientsRead,
         PopulateTables, vars
    <3> QED
      BY <1>3, <3>1, <3>2, <3>3, <3>4, <3>5, <3>6
      DEF Next, MainLoop, IpcThread, MetricsThread, Pruner
  <2>3. ASSUME pc'["ipc"] # "idle"
        PROVE  requester' \in Clients /\ link[requester'] = "none"
    <3>1. CASE pc["ipc"] # "idle" /\ requester' = requester
      BY <1>1, <3>1 DEF Requesting
    <3>2. ASSUME NEW c \in Clients, Request(c)
          PROVE  requester' \in Clients /\ link[requester'] = "none"
      BY <3>2 DEF Request
    <3>3. ASSUME NEW u \in Pruner, Prune(u)
          PROVE  pc["ipc"] # "idle" /\ requester' = requester
      <4>1. requester' = requester
        BY <3>3 DEF Prune, CopyList, Probe, Lock, Keep, Stop, Erase, Unlock
      <4>2. u = "ipc" => pc["ipc"] # "idle"
        BY <3>3 DEF Prune, CopyList, Probe, Lock, Keep, Stop, Erase, Unlock
      <4>3. ASSUME u = "main" PROVE pc'["ipc"] = pc["ipc"]
        <5>1. ASSUME NEW l, Goto("main", l) PROVE pc'["ipc"] = pc["ipc"]
          BY <1>1, <5>1, Moves DEF Thread
        <5>2. CASE CopyList("main") \/ Probe("main") \/ Lock("main")
          BY <5>1, <5>2 DEF CopyList, Probe, Lock
        <5>3. CASE Stop("main") \/ Erase("main") \/ Unlock("main")
          BY <5>1, <5>3 DEF Stop, Erase, Unlock
        <5>4. CASE Keep("main")
          BY <5>4 DEF Keep
        <5> QED BY <3>3, <4>3, <5>2, <5>3, <5>4 DEF Prune
      <4> QED BY <2>3, <4>1, <4>2, <4>3 DEF Pruner
    <3>4. NoReload \/ Reload \/ TakeClient \/ PostConfig \/ UpdateClients
          \/ ClientsRead \/ PopulateTables
          => pc["ipc"] # "idle" /\ requester' = requester
      <4>1. ASSUME NEW u \in Thread, NEW l, u # "ipc", Goto(u, l)
            PROVE  pc["ipc"] # "idle"
        BY <1>1, <2>3, <4>1, Moves DEF Thread
      <4>2. NoReload \/ Reload => pc["ipc"] # "idle" /\ requester' = requester
        BY <4>1 DEF NoReload, Reload, Thread
      <4>3. TakeClient \/ PostConfig => pc["ipc"] # "idle" /\ requester' = requester
        BY <2>3, <4>1 DEF TakeClient, PostConfig, Thread
      <4>4. UpdateClients \/ ClientsRead \/ PopulateTables
            => pc["ipc"] # "idle" /\ requester' = requester
        BY <4>1 DEF UpdateClients, ClientsRead, PopulateTables, Thread
      <4> QED BY <4>2, <4>3, <4>4
    <3>5. ASSUME NEW d \in Clients,
                 ReadClient(d) \/ Close(d) \/ RejectHandshake(d)
                 \/ BusThread(d) \/ RunThread(d)
          PROVE  UNCHANGED <<pc, requester>>
      BY <3>5 DEF ReadClient, Close, RejectHandshake, BusThread, RunTask,
         BusExits, RunThread, RunExits, RunPosts, RunWakes, RunAcquires
    <3>6. (\E p \in Processes : ProcessExits(p)) \/ UNCHANGED vars
          => UNCHANGED <<pc, requester>>
      BY DEF ProcessExits, vars
    <3> QED
      BY <1>3, <2>3, <3>1, <3>2, <3>3, <3>4, <3>5, <3>6
      DEF Next, MainLoop, IpcThread, MetricsThread, Pruner
  <2> QED BY <1>1, <2>1, <2>2, <2>3 DEF Requesting
<1> QED BY <1>2, <1>3

(* The threads of a client outside the list stay ended, and its queue gets *)
(* nothing but a config of the main loop.                                  *)
LEMMA GoneStaysGone ==
    ASSUME ListInv, [Next]_vars, ~Add, NEW c \in Clients, Gone(c)
    PROVE  Gone(c)'
<1> USE DEF main, env, object
<1>1. /\ bus \in [Clients -> {"none", "running", "told", "exited"}]
      /\ run \in [Clients -> {"none", "top", "wait", "fence", "exited"}]
      /\ work \in [Clients -> Seq({"config", "dmabuf", "frame"})]
  BY DEF ListInv, TypeOK
<1>2. CASE UNCHANGED <<bus, run, work>>
  BY <1>2 DEF Gone
<1>3. ASSUME NEW t \in Pruner, Prune(t) PROVE Gone(c)'
  <2>1. CASE Stop(t)
    <3>1. bus'[c] \in {"none", "exited"} /\ UNCHANGED <<run, work>>
      BY <1>1, <2>1 DEF Stop, Gone
    <3> QED BY <3>1 DEF Gone
  <2>2. CASE Erase(t)
    <3>1. UNCHANGED <<bus, run>> /\ work'[c] \in {work[c], <<>>}
      BY <1>1, <2>2 DEF Erase
    <3>2. ToSet(<<>>) = {}
      BY DEF ToSet
    <3> QED BY <3>1, <3>2 DEF Gone
  <2>3. CASE CopyList(t) \/ Probe(t) \/ Lock(t) \/ Keep(t) \/ Unlock(t)
    BY <1>2, <2>3 DEF CopyList, Probe, Lock, Keep, Unlock
  <2> QED BY <1>3, <2>1, <2>2, <2>3 DEF Prune
<1>4. CASE PostConfig
  <2>1. UNCHANGED <<bus, run>> /\ work'[c] \in {work[c], Append(work[c], "config")}
    BY <1>1, <1>4 DEF PostConfig
  <2>2. ToSet(Append(work[c], "config")) = ToSet(work[c]) \union {"config"}
    <3>1. work[c] \in Seq({"config", "dmabuf", "frame"})
      BY <1>1
    <3> QED BY <3>1, Appended
  <2> QED BY <2>1, <2>2 DEF Gone
<1>5. ASSUME NEW d \in Clients, BusThread(d) PROVE Gone(c)'
  <2>1. bus[d] \in {"running", "told"} /\ d # c
    BY <1>5 DEF BusThread, RunTask, BusExits, Gone
  <2>2. UNCHANGED <<bus[c], run[c], work[c]>>
    BY <1>1, <1>5, <2>1 DEF BusThread, RunTask, BusExits
  <2> QED BY <2>2 DEF Gone
<1>6. ASSUME NEW d \in Clients, RunThread(d) PROVE Gone(c)'
  <2>1. run[d] \in {"top", "wait", "fence"} /\ d # c
    BY <1>6 DEF RunThread, RunExits, RunPosts, RunWakes, RunAcquires, Gone
  <2>2. UNCHANGED <<bus[c], run[c], work[c]>>
    BY <1>1, <1>6, <2>1 DEF RunThread, RunExits, RunPosts, RunWakes, RunAcquires, RunGoto
  <2> QED BY <2>2 DEF Gone
<1>7. ASSUME NEW d \in Clients,
             Request(d) \/ ReadClient(d) \/ Close(d) \/ RejectHandshake(d)
      PROVE  UNCHANGED <<bus, run, work>>
  BY <1>7 DEF Request, ReadClient, Close, RejectHandshake
<1>8. (\E p \in Processes : ProcessExits(p)) \/ UNCHANGED vars
      => UNCHANGED <<bus, run, work>>
  BY DEF ProcessExits, vars
<1>9. NoReload \/ Reload \/ TakeClient \/ UpdateClients \/ ClientsRead
      \/ PopulateTables => UNCHANGED <<bus, run, work>>
  BY DEF NoReload, Reload, TakeClient, UpdateClients, ClientsRead, PopulateTables
<1> QED
  BY <1>2, <1>3, <1>4, <1>5, <1>6, <1>7, <1>8, <1>9
  DEF Next, MainLoop, IpcThread, MetricsThread, Pruner

LEMMA DepartedStep ==
    ASSUME ListInv, [Next]_vars
    PROVE  Departed'
<1> USE DEF main, env, object
<1>1. Departed /\ Listed \subseteq Clients
  BY DEF ListInv, TypeOK, Listed, ToSet
<1>2. CASE Add
  <2>1. requester \in Clients \ Listed /\ Listed' = Listed \union {requester}
    BY <1>2, AddedClient
  <2>2. ASSUME NEW c \in Clients, c # requester
        PROVE  UNCHANGED <<bus[c], run[c], work[c]>>
    BY <1>2, <2>2 DEF Add, ListInv, TypeOK
  <2>3. \A c \in Clients : c # requester /\ Gone(c) => Gone(c)'
    BY <2>2 DEF Gone
  <2> QED BY <1>1, <2>1, <2>3 DEF Departed
<1>3. ASSUME NEW t \in Pruner, Erase(t) PROVE Departed'
  <2>1. PICK c \in Listed : /\ c = clients[it] /\ Listed' = Listed \ {c}
                            /\ Joinable(c)
    BY <1>3, ErasedClient
  <2>2. UNCHANGED <<bus, run>> /\ work'[c] = <<>>
    BY <1>1, <1>3, <2>1 DEF Erase, ListInv, TypeOK
  <2>3. ToSet(<<>>) = {}
    BY DEF ToSet
  <2>4. Gone(c)'
    BY <2>1, <2>2, <2>3 DEF Gone, Joinable
  <2>5. ~Add
    BY <1>3 DEF Add, Erase, ListInv, Locked, Pruner
  <2> QED BY <1>1, <2>1, <2>4, <2>5, GoneStaysGone DEF Departed
<1>4. CASE ~Add /\ \A t \in Pruner : ~Erase(t)
  BY <1>1, <1>4, ListKept, GoneStaysGone DEF Departed
<1> QED BY <1>2, <1>3, <1>4
-----------------------------------------------------------------------------
(* The theorems.                                                           *)

(* Any number of connections, requests, reloads and prunes keeps the       *)
(* inductive invariant: one thread at a time walks the list, it joins a    *)
(* client that is stopped, inactive and still listed, and what left the    *)
(* list has neither threads nor tasks of its own.                          *)
THEOREM ListInvariant == Spec => []ListInv
<1>1. Init => ListInv
  BY Initially
<1>2. ListInv /\ [Next]_vars => ListInv'
  <2> SUFFICES ASSUME ListInv, [Next]_vars PROVE ListInv'
    OBVIOUS
  <2>1. TypeOK' /\ Locked' /\ Joining'
    BY TypeStep, LockedStep, JoiningStep
  <2>2. Requesting' /\ Departed'
    BY RequestingStep, DepartedStep
  <2> QED BY <2>1, <2>2 DEF ListInv
<1> QED BY <1>1, <1>2, PTL DEF Spec

(* The state keeps the types of its variables; no client is twice in the   *)
(* list.                                                                   *)
THEOREM TypeCorrect == Spec => []TypeOK
<1>1. ListInv => TypeOK
  BY DEF ListInv
<1> QED BY ListInvariant, <1>1, PTL

(* When the last shared pointer to a client goes, both its threads have    *)
(* ended: ~Client destroys a bus, an event loop and a Renderer that nobody *)
(* uses.                                                                   *)
THEOREM NoThreadOutlivesItsClientCorrect == Spec => []NoThreadOutlivesItsClient
<1>1. ListInv => NoThreadOutlivesItsClient
  BY DEF ListInv, Departed, Gone, Held, NoThreadOutlivesItsClient
<1> QED BY ListInvariant, <1>1, PTL

(* Nothing but a config posted too late is left in the queue of a client   *)
(* that was pruned.                                                        *)
THEOREM OnlyConfigsAreLeftCorrect == Spec => []OnlyConfigsAreLeft
<1>1. ListInv => OnlyConfigsAreLeft
  BY DEF ListInv, Departed, Gone, OnlyConfigsAreLeft
<1> QED BY ListInvariant, <1>1, PTL

(* A pruner waits for the threads of a client only while it holds          *)
(* clients_mtx and that client is in the list, was told to stop and is     *)
(* inactive: neither thread of it can begin anything new.                  *)
JoinsOnlyTheStopped ==
    \A t \in Pruner : pc[t] = "join" =>
        /\ clients_mtx = t /\ clients[it] \in Listed
        /\ stop[clients[it]] /\ ~active[clients[it]]

THEOREM JoinsOnlyTheStoppedCorrect == Spec => []JoinsOnlyTheStopped
<1>1. ListInv => JoinsOnlyTheStopped
  BY DEF ListInv, Locked, Joining, JoinsOnlyTheStopped, Listed, ToSet
<1> QED BY ListInvariant, <1>1, PTL

(* A connection enters the list at most once: a pruned client is never     *)
(* served again, its process has to connect anew.                          *)
EntersOnce ==
    [][\A c \in Clients : c \in Listed' \ Listed => link[c] = "none" /\ link'[c] # "none"]_vars

THEOREM EntersOnceCorrect == Spec => EntersOnce
<1>1. ASSUME ListInv, ListInv', [Next]_vars, NEW c \in Clients, c \in Listed' \ Listed
      PROVE  link[c] = "none" /\ link'[c] # "none"
  <2>1. \A t \in Pruner : ~Erase(t)
    BY <1>1, ErasedClient
  <2>2. Add
    BY <1>1, <2>1, ListKept
  <2>3. c = requester
    BY <1>1, <2>2, AddedClient
  <2> QED BY <1>1, <2>2, <2>3 DEF ListInv, Requesting, Add
<1>2. ListInv /\ ListInv' /\ [Next]_vars
      => [\A c \in Clients : c \in Listed' \ Listed
              => link[c] = "none" /\ link'[c] # "none"]_vars
  BY <1>1
<1> QED BY ListInvariant, <1>2, PTL DEF Spec, EntersOnce
=============================================================================
