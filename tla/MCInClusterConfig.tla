------------------------- MODULE MCInClusterConfig -------------------------
(* Instances of InClusterConfig: a command for the bindings of a channel,  *)
(* one for an action and one for the notifications of a channel.           *)
EXTENDS InClusterConfig

CONSTANTS bind, act, notify, channel, action, enabled, other, x

BindActNotify ==
    [c \in {bind, act, notify} |-> CASE c = bind -> channel [] c = act -> action [] OTHER -> enabled]
JustBind == [c \in {bind} |-> channel]
AllX == [c \in Commands |-> x]
=============================================================================
