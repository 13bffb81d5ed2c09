---------------------------- MODULE ChatSockets ----------------------------
(***************************************************************************)
(* The Socket.IO server from the start of the process to its exit: the     *)
(* connection of the database, the handshake of a socket, who is told that *)
(* a user is online, the rooms a socket is in, the throttle of its typing  *)
(* events and the shutdown (server.ts, config/database.ts, socket/).       *)
(*                                                                         *)
(* A handler runs to its first await without a break.  What follows an     *)
(* await (the list of the user's conversations, the check before a join)   *)
(* is an action of its own, so a leave, a disconnect or an erasure fits in *)
(* between.  The handlers of send-message and mark-read are those of       *)
(* module ChatMessages; whom a typing event reaches is left out.           *)
(*                                                                         *)
(* Socket.IO (external) delivers to a socket in order, takes a socket that *)
(* disconnects out of all rooms before the handler of disconnect runs, and *)
(* ignores a join of a socket that is gone.  Node's server.close calls     *)
(* back when no connection is left; a socket is a websocket connection.    *)
(***************************************************************************)
EXTENDS Integers, Sequences

CONSTANTS Socket,       \* the sockets of all clients
          User,
          UserOf,       \* the user in the token of a socket
          Conversation,
          From, To,     \* the participants of a conversation
          Old,          \* the conversations there are at first
          Capacity,     \* typing events in a full bucket
          Refill,       \* typing events refilled in a second
          Second,       \* the ticks of the clock in a second
          MaxTime,      \* bound: ticks
          MaxEvents,    \* bound: events of all clients
          MaxRetries    \* attempts to connect the database

ASSUME SocketAssumption == UserOf \in [Socket -> User]
ASSUME ConversationAssumption ==
    /\ From \in [Conversation -> User] /\ To \in [Conversation -> User]
    /\ Old \subseteq Conversation
ASSUME NumberAssumption ==
    /\ Capacity \in Nat \ {0} /\ Refill \in Nat /\ Second \in Nat \ {0}
    /\ MaxTime \in Nat /\ MaxEvents \in Nat /\ MaxRetries \in Nat \ {0}

VARIABLES
    server,       \* the state of the process
    attempt,      \* the attempt to connect the database
    phase,        \* the state of each socket
    onlineUsers,  \* the Map of index.ts: the open sockets of each user that has one
    told,         \* what each open socket was last told of each user
    exists,       \* the conversations there are
    rooms,        \* the conversation rooms each socket is in
    auto,         \* the stage of its auto-subscription
    listed,       \* the conversations that the query of it found
    asked,        \* the stage of a chat:join of a socket
    now,          \* the clock
    events,       \* how many events the clients sent
    tokens,       \* the bucket of each socket, in parts: an event costs Second of them
    lastRefill,
    relayed,      \* when each typing event of a socket was relayed
    due,          \* history: the user's conversations when a socket connected
    left,         \* history: the conversations the client of a socket ever left
    out           \* history: those left with no subscription under way, and not asked for since

vars == <<server, attempt, phase, onlineUsers, told, exists, rooms, auto, listed,
          asked, now, events, tokens, lastRefill, relayed, due, left, out>>

presence == <<phase, onlineUsers, told>>
membership == <<rooms, auto, listed, asked, due, left, out>>
throttle == <<tokens, lastRefill, relayed>>
clock == <<now, events>>
process == <<server, attempt>>

Full == Capacity * Second

TypeOK ==
    /\ server \in {"connecting", "listening", "closing", "exited"}
    /\ attempt \in 1 .. MaxRetries
    /\ phase \in [Socket -> {"new", "open", "refused", "closed"}]
    /\ onlineUsers \in [User -> SUBSET Socket]
    /\ told \in [Socket -> [User -> {"nothing", "online", "offline"}]]
    /\ exists \subseteq Conversation
    /\ rooms \in [Socket -> SUBSET Conversation]
    /\ auto \in [Socket -> {"none", "query", "listed", "joined", "failed"}]
    /\ listed \in [Socket -> SUBSET Conversation]
    /\ asked \in [Socket -> [Conversation -> {"none", "query", "allowed", "refused"}]]
    /\ now \in 0 .. MaxTime
    /\ events \in Nat
    /\ tokens \in [Socket -> 0 .. Full]
    /\ lastRefill \in [Socket -> 0 .. MaxTime]
    /\ relayed \in [Socket -> Seq(0 .. MaxTime)]
    /\ due \in [Socket -> SUBSET Conversation]
    /\ left \in [Socket -> SUBSET Conversation]
    /\ out \in [Socket -> SUBSET Conversation]

Init ==
    /\ server = "connecting" /\ attempt = 1
    /\ phase = [s \in Socket |-> "new"]
    /\ onlineUsers = [u \in User |-> {}]
    /\ told = [s \in Socket |-> [u \in User |-> "nothing"]]
    /\ exists = Old
    /\ rooms = [s \in Socket |-> {}]
    /\ auto = [s \in Socket |-> "none"]
    /\ listed = [s \in Socket |-> {}]
    /\ asked = [s \in Socket |-> [c \in Conversation |-> "none"]]
    /\ now = 0 /\ events = 0
    /\ tokens = [s \in Socket |-> Full]
    /\ lastRefill = [s \in Socket |-> 0]
    /\ relayed = [s \in Socket |-> << >>]
    /\ due = [s \in Socket |-> {}]
    /\ left = [s \in Socket |-> {}]
    /\ out = [s \in Socket |-> {}]

Up == server \in {"listening", "closing"}

\* An event arrives from some client.
ClientSends == events < MaxEvents /\ events' = events + 1

-----------------------------------------------------------------------------
(* The process: connectDatabase, startServer and gracefulShutdown.         *)

\* The database answers and the server listens: no await is in between.
Listen ==
    /\ server = "connecting"
    /\ server' = "listening" /\ attempt' = 1
    /\ UNCHANGED <<presence, membership, throttle, exists, clock>>

\* Every attempt but the last is followed by a pause and another.
ConnectFails ==
    /\ server = "connecting"
    /\ IF attempt = MaxRetries
         THEN server' = "exited" /\ UNCHANGED attempt
         ELSE attempt' = attempt + 1 /\ UNCHANGED server
    /\ UNCHANGED <<presence, membership, throttle, exists, clock>>

\* SIGTERM or SIGINT: httpServer.close stops accepting, and the timer starts.
Signal ==
    /\ server = "listening"
    /\ server' = "closing"
    /\ UNCHANGED <<attempt, presence, membership, throttle, exists, clock>>

Untold == [u \in User |-> "nothing"]

\* What is kept of sockets for the properties ends with them, and so do their buckets.
Forget(sockets) ==
    /\ due' = [s \in Socket |-> IF s \in sockets THEN {} ELSE due[s]]
    /\ left' = [s \in Socket |-> IF s \in sockets THEN {} ELSE left[s]]
    /\ out' = [s \in Socket |-> IF s \in sockets THEN {} ELSE out[s]]
    /\ tokens' = [s \in Socket |-> IF s \in sockets THEN Full ELSE tokens[s]]
    /\ lastRefill' = [s \in Socket |-> IF s \in sockets THEN 0 ELSE lastRefill[s]]
    /\ relayed' = [s \in Socket |-> IF s \in sockets THEN << >> ELSE relayed[s]]

\* With the process, its sockets are gone; nobody is told, and no query is answered.
Exit ==
    /\ server' = "exited"
    /\ phase' = [s \in Socket |-> "closed"]
    /\ onlineUsers' = [u \in User |-> {}]
    /\ told' = [s \in Socket |-> Untold]
    /\ rooms' = [s \in Socket |-> {}]
    /\ auto' = [s \in Socket |-> "none"]
    /\ listed' = [s \in Socket |-> {}]
    /\ asked' = [s \in Socket |-> [c \in Conversation |-> "none"]]
    /\ Forget(Socket)
    /\ UNCHANGED <<attempt, exists, clock>>

\* httpServer.close calls back: only now io.close is called, then exit(0).
Drained ==
    /\ server = "closing"
    /\ \A s \in Socket : phase[s] # "open"
    /\ Exit

\* Faulty variant, for testing ServerEnds: the timer is left out.
NoTimer == FALSE

\* The timer of 30 seconds, whatever is still open.
Forced ==
    /\ server = "closing"
    /\ Exit

-----------------------------------------------------------------------------
(* Sockets and presence: socketAuthMiddleware and the connection handler.  *)

Open == {s \in Socket : phase[s] = "open"}

\* io.emit('chat:online-status'): every socket of the set is told.
EmitStatus(sockets, user, status) ==
    told' = [s \in Socket |-> IF s \in sockets THEN [told[s] EXCEPT ![user] = status]
                              ELSE Untold]

Participating(user) == {c \in exists : user \in {From[c], To[c]}}

\* No token, or one that jwt.verify refuses.
Refuse(s) ==
    /\ server = "listening" /\ phase[s] = "new"
    /\ phase' = [phase EXCEPT ![s] = "refused"]
    /\ UNCHANGED <<process, onlineUsers, told, membership, throttle, exists, clock>>

\* The handler of connection, with the join of the user's room, the full bucket and the
\* start of the auto-subscription.
Connect(s) ==
    /\ server = "listening" /\ phase[s] = "new"
    /\ phase' = [phase EXCEPT ![s] = "open"]
    /\ onlineUsers' = [onlineUsers EXCEPT ![UserOf[s]] = @ \cup {s}]
    /\ EmitStatus(Open \cup {s}, UserOf[s], "online")
    /\ auto' = [auto EXCEPT ![s] = "query"]
    /\ due' = [due EXCEPT ![s] = Participating(UserOf[s])]
    /\ tokens' = [tokens EXCEPT ![s] = Full]
    /\ lastRefill' = [lastRefill EXCEPT ![s] = now]
    /\ UNCHANGED <<process, rooms, listed, asked, left, out, relayed, exists, clock>>

\* Faulty variant, for testing ToldTheTruth: any socket's end takes the user offline.
DisconnectAny(s) ==
    /\ Up /\ phase[s] = "open"
    /\ phase' = [phase EXCEPT ![s] = "closed"]
    /\ rooms' = [rooms EXCEPT ![s] = {}]
    /\ onlineUsers' = [onlineUsers EXCEPT ![UserOf[s]] = @ \ {s}]
    /\ EmitStatus(Open \ {s}, UserOf[s], "offline")
    /\ Forget({s})
    /\ UNCHANGED <<process, auto, listed, asked, exists, clock>>

\* The handler of disconnect: only the end of a user's last socket is told.
Disconnect(s) ==
    /\ Up /\ phase[s] = "open"
    /\ phase' = [phase EXCEPT ![s] = "closed"]
    /\ rooms' = [rooms EXCEPT ![s] = {}]
    /\ onlineUsers' = [onlineUsers EXCEPT ![UserOf[s]] = @ \ {s}]
    /\ IF onlineUsers[UserOf[s]] \subseteq {s}
         THEN EmitStatus(Open \ {s}, UserOf[s], "offline")
         ELSE told' = [told EXCEPT ![s] = Untold]
    /\ Forget({s})
    /\ UNCHANGED <<process, auto, listed, asked, exists, clock>>

-----------------------------------------------------------------------------
(* Rooms: the auto-subscription, chat:join and chat:leave.                 *)

\* socket.join of some conversation rooms (external).
Join(s, conversations) ==
    rooms' = [rooms EXCEPT ![s] = IF phase[s] = "open" THEN @ \cup conversations ELSE @]

\* Faulty variant, for testing RoomsAsAsked: the conversations somebody else began are
\* not found.
Begun(user) == {c \in exists : From[c] = user}

\* listParticipatingConversationIds: whether the other one is erased does not matter.
Listed(user) == {c \in exists : From[c] = user \/ To[c] = user}

ListMine(s) ==
    /\ Up /\ auto[s] = "query"
    /\ listed' = [listed EXCEPT ![s] = Listed(UserOf[s])]
    /\ auto' = [auto EXCEPT ![s] = "listed"]
    /\ UNCHANGED <<process, presence, rooms, asked, due, left, out, throttle, exists, clock>>

\* The client gets CHAT_AUTOSUBSCRIBE_FAILED.
ListFails(s) ==
    /\ Up /\ auto[s] = "query"
    /\ auto' = [auto EXCEPT ![s] = "failed"]
    /\ UNCHANGED <<process, presence, rooms, listed, asked, due, left, out, throttle, exists, clock>>

JoinMine(s) ==
    /\ Up /\ auto[s] = "listed"
    /\ Join(s, listed[s])
    /\ auto' = [auto EXCEPT ![s] = "joined"]
    /\ listed' = [listed EXCEPT ![s] = {}]
    /\ UNCHANGED <<process, presence, asked, due, left, out, throttle, exists, clock>>

\* chat:join.  Bound: a client waits for a join before it asks for the same room again.
AskJoin(s, c) ==
    /\ Up /\ phase[s] = "open" /\ asked[s][c] = "none" /\ ClientSends
    /\ asked' = [asked EXCEPT ![s][c] = "query"]
    /\ out' = [out EXCEPT ![s] = @ \ {c}]
    /\ UNCHANGED <<process, presence, rooms, auto, listed, due, left, throttle, exists, now>>

\* canSubscribe.
CanSubscribe(s, c) == c \in exists /\ (UserOf[s] = From[c] \/ UserOf[s] = To[c])

CheckJoin(s, c) ==
    /\ Up /\ asked[s][c] = "query"
    /\ asked' = [asked EXCEPT ![s][c] = IF CanSubscribe(s, c) THEN "allowed" ELSE "refused"]
    /\ UNCHANGED <<process, presence, rooms, auto, listed, due, left, out, throttle, exists,
                   clock>>

\* The query fails, or finds no conversation because one of the two users is erased.
CheckFails(s, c) ==
    /\ Up /\ asked[s][c] = "query"
    /\ asked' = [asked EXCEPT ![s][c] = "refused"]
    /\ UNCHANGED <<process, presence, rooms, auto, listed, due, left, out, throttle, exists,
                   clock>>

\* Refused, the client gets CHAT_JOIN_FORBIDDEN.
EndJoin(s, c) ==
    /\ Up /\ asked[s][c] \in {"allowed", "refused"}
    /\ IF asked[s][c] = "allowed" THEN Join(s, {c}) ELSE UNCHANGED rooms
    /\ asked' = [asked EXCEPT ![s][c] = "none"]
    /\ UNCHANGED <<process, presence, auto, listed, due, left, out, throttle, exists, clock>>

\* A subscription that began before the leave may still bring the room back.
Settled(s, c) == auto[s] \in {"joined", "failed"} /\ asked[s][c] = "none"

Leave(s, c) ==
    /\ Up /\ phase[s] = "open" /\ ClientSends
    /\ rooms' = [rooms EXCEPT ![s] = @ \ {c}]
    /\ left' = [left EXCEPT ![s] = @ \cup {c}]
    /\ out' = [out EXCEPT ![s] = IF Settled(s, c) THEN @ \cup {c} ELSE @]
    /\ UNCHANGED <<process, presence, auto, listed, asked, due, throttle, exists, now>>

-----------------------------------------------------------------------------
(* Typing: ChatTypingThrottle.                                             *)

Least(a, b) == IF a <= b THEN a ELSE b

\* refill(): a bucket keeps parts of an event, as the code keeps fractions.
Refilled(s) == Least(Full, tokens[s] + Refill * (now - lastRefill[s]))

\* Faulty variant, for testing ThrottleBound: the last token may be less than one.
TypingOnPart(s) ==
    /\ Up /\ phase[s] = "open" /\ ClientSends
    /\ lastRefill' = [lastRefill EXCEPT ![s] = now]
    /\ IF Refilled(s) > 0
         THEN /\ tokens' = [tokens EXCEPT ![s] = IF Refilled(s) >= Second
                                                 THEN Refilled(s) - Second ELSE 0]
              /\ relayed' = [relayed EXCEPT ![s] = Append(@, now)]
         ELSE /\ tokens' = [tokens EXCEPT ![s] = Refilled(s)]
              /\ UNCHANGED relayed
    /\ UNCHANGED <<process, presence, membership, exists, now>>

\* chat:typing and chat:stop-typing: consume(), and the event is relayed or dropped.
Typing(s) ==
    /\ Up /\ phase[s] = "open" /\ ClientSends
    /\ lastRefill' = [lastRefill EXCEPT ![s] = now]
    /\ IF Refilled(s) >= Second
         THEN /\ tokens' = [tokens EXCEPT ![s] = Refilled(s) - Second]
              /\ relayed' = [relayed EXCEPT ![s] = Append(@, now)]
         ELSE /\ tokens' = [tokens EXCEPT ![s] = Refilled(s)]
              /\ UNCHANGED relayed
    /\ UNCHANGED <<process, presence, membership, exists, now>>

Tick ==
    /\ Up /\ now < MaxTime
    /\ now' = now + 1
    /\ UNCHANGED events
    /\ UNCHANGED <<process, presence, membership, throttle, exists>>

-----------------------------------------------------------------------------
(* What other components do meanwhile.                                     *)

\* A conversation is started (module ConversationStart).
Create(c) ==
    /\ Up /\ c \notin exists
    /\ exists' = exists \cup {c}
    /\ UNCHANGED <<process, presence, membership, throttle, clock>>

Work(s) == ListMine(s) \/ ListFails(s) \/ JoinMine(s)

Next ==
    \/ Listen \/ ConnectFails \/ Signal \/ Drained \/ Forced \/ Tick
    \/ \E s \in Socket : Refuse(s) \/ Connect(s) \/ Disconnect(s) \/ Work(s) \/ Typing(s)
    \/ \E s \in Socket, c \in Conversation :
          AskJoin(s, c) \/ CheckJoin(s, c) \/ CheckFails(s, c) \/ EndJoin(s, c) \/ Leave(s, c)
    \/ \E c \in Conversation : Create(c)

Spec == Init /\ [][Next]_vars

\* An attempt to connect ends in one way or the other; the timer runs out, unless the
\* process is gone before.
FairSpec == Spec /\ WF_vars(Listen \/ ConnectFails) /\ WF_vars(Forced)

-----------------------------------------------------------------------------

\* An open socket that was told of a user was told last what is so: online while any socket
\* of the user is open, offline when none is, whichever of several closes first.
ToldTheTruth ==
    /\ \A u \in User : onlineUsers[u] = {s \in Open : UserOf[s] = u}
    /\ \A s \in Open, u \in User :
          /\ told[s][u] = "online" => onlineUsers[u] # {}
          /\ told[s][u] = "offline" => onlineUsers[u] = {}

\* A socket whose auto-subscription is through is in the room of every conversation its user
\* had when it connected, save those it left; a room it left with no subscription under way
\* stays left until it asks again; and it is only in rooms of its user's conversations.
RoomsAsAsked ==
    \A s \in Socket :
        /\ phase[s] = "open" /\ auto[s] = "joined" => due[s] \subseteq rooms[s] \cup left[s]
        /\ rooms[s] \cap out[s] = {}
        /\ rooms[s] \subseteq Participating(UserOf[s])
        /\ phase[s] = "closed" => rooms[s] = {}

\* Of the typing events of a socket, no more than a full bucket and what refills meanwhile are
\* relayed in any stretch of time.
ThrottleBound ==
    \A s \in Socket : \A i, j \in DOMAIN relayed[s] :
        i <= j => (j - i + 1) * Second <= Full + Refill * (relayed[s][j] - relayed[s][i])

\* The start ends: the server listens, or gives up after its last attempt.  And so does the
\* shutdown, although httpServer.close waits for the open sockets, which only the io.close in
\* its callback would close.
ServerEnds ==
    /\ server = "connecting" ~> server \in {"listening", "closing", "exited"}
    /\ server = "closing" ~> server = "exited"

-----------------------------------------------------------------------------
(* The inductive invariant.                                                *)

\* What socket s is in and what it waits for: a subscription under way only brings rooms of
\* conversations of the user, and all that are due.
Members(s) ==
    /\ phase[s] # "open" => rooms[s] = {} /\ told[s] = Untold
    /\ phase[s] = "new" => auto[s] = "none" /\ out[s] = {} /\ relayed[s] = << >>
    /\ listed[s] \cup due[s] \cup rooms[s] \subseteq Participating(UserOf[s])
    /\ auto[s] = "listed" => due[s] \subseteq listed[s]
    /\ phase[s] = "open" /\ auto[s] = "joined" => due[s] \subseteq rooms[s] \cup left[s]
    /\ \A c \in out[s] : c \notin rooms[s] /\ Settled(s, c)
    /\ \A c \in Conversation : asked[s][c] = "allowed" => c \in Participating(UserOf[s])

\* What was relayed since the i-th event and is left in the bucket was in a full one or has
\* been refilled since.
Bucket(s) ==
    /\ lastRefill[s] <= now
    /\ \A i \in DOMAIN relayed[s] :
          (Len(relayed[s]) - i + 1) * Second + tokens[s]
              <= Full + Refill * (lastRefill[s] - relayed[s][i])
    /\ \A i, j \in DOMAIN relayed[s] :
          i <= j => (j - i + 1) * Second <= Full + Refill * (relayed[s][j] - relayed[s][i])

Inv == TypeOK /\ ToldTheTruth /\ \A s \in Socket : Members(s) /\ Bucket(s)
=============================================================================
