--------------------------- MODULE ConversationLog ---------------------------
(***************************************************************************)
(* What a conversation promises its participants, without saying how: an   *)
(* append-only log whose preview is always the entry appended last, read   *)
(* dates that only advance, and entries announced once, after they are in  *)
(* the log.  ChatMessages is shown to implement this module.               *)
(***************************************************************************)
EXTENDS Naturals

CONSTANTS Conv,      \* the conversations
          Message,   \* the messages that may be sent
          Column,    \* the read dates of a conversation
          None       \* no conversation, no message

VARIABLES log,       \* the conversation a message was posted to
          preview,   \* the message posted last to a conversation
          read,      \* the read dates
          told       \* the messages announced to the participants

vars == <<log, preview, read, told>>

Init ==
    /\ log = [s \in Message |-> None]
    /\ preview = [c \in Conv |-> None]
    /\ read = [c \in Conv |-> [k \in Column |-> 0]]
    /\ told = {}

(***************************************************************************)
(* A message enters the log and becomes the preview in one step.           *)
(***************************************************************************)
Post(s, c) ==
    /\ log[s] = None
    /\ log' = [log EXCEPT ![s] = c]
    /\ preview' = [preview EXCEPT ![c] = s]
    /\ UNCHANGED <<read, told>>

Tell(s) ==
    /\ log[s] # None
    /\ s \notin told
    /\ told' = told \cup {s}
    /\ UNCHANGED <<log, preview, read>>

\* One date changes, to any later one.
MarkRead(c, k) ==
    /\ read'[c][k] >= read[c][k]
    /\ read' = [read EXCEPT ![c][k] = read'[c][k]]
    /\ UNCHANGED <<log, preview, told>>

Next ==
    \/ \E s \in Message, c \in Conv : Post(s, c)
    \/ \E s \in Message : Tell(s)
    \/ \E c \in Conv, k \in Column : MarkRead(c, k)

Spec == Init /\ [][Next]_vars
=============================================================================
