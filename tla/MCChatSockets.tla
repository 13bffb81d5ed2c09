--------------------------- MODULE MCChatSockets ---------------------------
(* Sockets s1 and s2 are of one user, s3 is of another, who begins conversation c1. *)
EXTENDS ChatSockets

CONSTANTS s1, s2, s3, u1, u2, c1, c2

MCUserOf == [s \in Socket |-> IF s = s3 THEN u2 ELSE u1]
MCFrom == [c \in Conversation |-> IF c = c1 THEN u2 ELSE u1]
MCTo == [c \in Conversation |-> IF c = c1 THEN u1 ELSE u2]
=============================================================================
