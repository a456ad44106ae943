--------------------------- MODULE MCRemoteConfig ---------------------------
(* Instances of RemoteConfig: a command that turns notifications off and   *)
(* one that turns them on.                                                 *)
EXTENDS RemoteConfig

CONSTANTS off, on, a, bad, broken

OffOn == [c \in {off, on} |-> c = on]
JustOff == [c \in {off} |-> FALSE]
=============================================================================
