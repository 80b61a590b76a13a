--------------------------- MODULE PathLifecycle ---------------------------
(***************************************************************************)
(* What the scheduler promises about the network path of an sjob: it is    *)
(* requested at most once, and once given back it is not touched again.    *)
(* NetworkPath implements this specification.                              *)
(***************************************************************************)
CONSTANT Owners

VARIABLE path

PathInit == path = [o \in Owners |-> "none"]

Hold(o) == path[o] = "none" /\ path' = [path EXCEPT ![o] = "held"]

GiveBack(o) == path[o] = "held" /\ path' = [path EXCEPT ![o] = "released"]

PathNext == \E o \in Owners : Hold(o) \/ GiveBack(o)

PathSpec == PathInit /\ [][PathNext]_path
=============================================================================
