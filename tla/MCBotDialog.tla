---------------------------- MODULE MCBotDialog ----------------------------
(* Model-checking instance of BotDialog. *)
EXTENDS BotDialog

CONSTANTS c1, w1, w2

OneWorker == [c \in Chats |-> w1]
=============================================================================
