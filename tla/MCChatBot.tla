----------------------------- MODULE MCChatBot -----------------------------
(* Instances of ChatBot: two conversation channels and a source message  *)
(* for both of them.                                                       *)
EXTENDS ChatBot

CONSTANTS w1, w2, room, other, event

BothBound == [e \in {event} |-> {room, other}]
MuteUnmute == <<"mute", "unmute">>
TwoCommands == <<"command", "command">>
=============================================================================
