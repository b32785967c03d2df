---------------------------- MODULE MCClientList ----------------------------
(* ClientList for TLC: which process each connection belongs to.           *)
EXTENDS ClientList

CONSTANTS c1, c2

MCClients == {c1, c2}

(* Two connections of one process: Vulkan and OpenGL, or a device created  *)
(* anew.                                                                   *)
OneProcess == {"p1"}
PidShared == [c \in MCClients |-> "p1"]

Symmetry == Permutations(MCClients)
=============================================================================
