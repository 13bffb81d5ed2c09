------------------------- MODULE ChatSocketsProofs -------------------------
(* Theorems about ChatSockets, for any sockets, users, conversations and rates. *)
EXTENDS ChatSockets, TLAPS

\* The bucket after a refill of it: what was refilled since an event of time x adds up.
LEMMA RefillAdds ==
  ASSUME NEW k \in Int, NEW t \in Int, NEW r \in Int, NEW last \in Int, NEW n \in Int,
         NEW x \in Int, NEW full \in Int, NEW rate \in Int,
         k + t <= full + rate * (last - x),
         r <= t + rate * (n - last)
  PROVE  k + r <= full + rate * (n - x)
<1>1. rate * (n - x) = rate * (n - last) + rate * (last - x)
  OBVIOUS
<1> DEFINE p == rate * (n - last)
           q == rate * (last - x)
           o == rate * (n - x)
<1>2. p \in Int /\ q \in Int /\ o \in Int
  OBVIOUS
<1> HIDE DEF p, q, o
<1>3. o = p + q
  BY <1>1 DEF p, q, o
<1>4. k + t <= full + q /\ r <= t + p
  BY DEF p, q
<1>5. k + r <= full + o
  BY <1>2, <1>3, <1>4
<1> QED
  BY <1>5 DEF o

LEMMA Numbers ==
  /\ Capacity \in Nat /\ Refill \in Nat /\ Second \in Nat \ {0} /\ Full \in Nat
  /\ MaxTime \in Nat
  /\ \A n \in Nat : n * Second \in Nat /\ (n + 1) * Second = n * Second + Second
  /\ \A n \in Int : Refill * n \in Int
  /\ \A n \in Nat : Refill * n \in Nat
  /\ 0 * Second = 0 /\ Second <= Full
<1>1. Capacity \in Nat \ {0} /\ Refill \in Nat /\ Second \in Nat \ {0} /\ MaxTime \in Nat
  BY NumberAssumption
<1>2. Capacity * Second \in Nat /\ Second <= Capacity * Second
  BY <1>1
<1> QED
  BY <1>1, <1>2 DEF Full

-----------------------------------------------------------------------------

LEMMA Initially == Init => Inv
<1> SUFFICES ASSUME Init PROVE Inv
  OBVIOUS
<1>1. TypeOK
  <2>1. attempt \in 1 .. MaxRetries
    BY NumberAssumption DEF Init
  <2>2. now \in 0 .. MaxTime /\ tokens \in [Socket -> 0 .. Full]
        /\ lastRefill \in [Socket -> 0 .. MaxTime]
    BY Numbers DEF Init
  <2> QED
    BY <2>1, <2>2, ConversationAssumption DEF Init, TypeOK
<1>2. ToldTheTruth
  BY SocketAssumption DEF Init, ToldTheTruth, Open
<1>3. ASSUME NEW s \in Socket PROVE Members(s) /\ Bucket(s)
  BY DEF Init, Members, Bucket, Untold
<1> QED
  BY <1>1, <1>2, <1>3 DEF Inv

\* A step that leaves a socket's rooms and subscriptions alone.
LEMMA MembersKept ==
  ASSUME NEW s \in Socket, Members(s), exists \subseteq exists',
         rooms'[s] = rooms[s] /\ auto'[s] = auto[s] /\ listed'[s] = listed[s],
         asked'[s] = asked[s] /\ due'[s] = due[s] /\ left'[s] = left[s] /\ out'[s] = out[s],
         relayed'[s] = relayed[s], phase[s] = phase'[s],
         (phase[s] # "open" => told'[s] = told[s])
  PROVE  Members(s)'
BY DEF Members, Participating, Settled

LEMMA BucketKept ==
  ASSUME TypeOK, NEW s \in Socket, Bucket(s), now' \in Nat, now <= now',
         tokens'[s] = tokens[s] /\ lastRefill'[s] = lastRefill[s] /\ relayed'[s] = relayed[s]
  PROVE  Bucket(s)'
BY DEF Bucket, TypeOK

-----------------------------------------------------------------------------

\* What changes neither sockets nor rooms.
LEMMA ProcessStep ==
  ASSUME Inv, Listen \/ ConnectFails \/ Signal
  PROVE  Inv'
<1>1. UNCHANGED <<presence, membership, throttle, exists, clock>>
  BY DEF Listen, ConnectFails, Signal
<1>2. TypeOK'
  <2>1. server' \in {"connecting", "listening", "closing", "exited"}
        /\ attempt' \in 1 .. MaxRetries
    BY NumberAssumption DEF Inv, TypeOK, Listen, ConnectFails, Signal
  <2> QED
    BY <1>1, <2>1 DEF Inv, TypeOK, presence, membership, throttle, clock
<1>3. ToldTheTruth'
  BY <1>1 DEF Inv, ToldTheTruth, Open, presence
<1>4. ASSUME NEW s \in Socket PROVE Members(s)' /\ Bucket(s)'
  BY <1>1 DEF Inv, Members, Bucket, Participating, Settled, presence, membership, throttle, clock
<1> QED
  BY <1>2, <1>3, <1>4 DEF Inv

LEMMA ExitStep ==
  ASSUME Inv, Exit
  PROVE  Inv'
<1>1. TypeOK'
  BY Numbers DEF Inv, TypeOK, Exit, Forget, Untold, clock
<1>2. ToldTheTruth'
  BY SocketAssumption DEF Inv, TypeOK, ToldTheTruth, Open, Exit
<1>3. ASSUME NEW s \in Socket PROVE Members(s)' /\ Bucket(s)'
  <2>1. /\ phase'[s] = "closed" /\ rooms'[s] = {} /\ listed'[s] = {} /\ auto'[s] = "none"
        /\ asked'[s] = [c \in Conversation |-> "none"]
        /\ due'[s] = {} /\ left'[s] = {} /\ out'[s] = {}
        /\ lastRefill'[s] = 0 /\ relayed'[s] = << >> /\ now' = now /\ told'[s] = Untold
    BY DEF Exit, Forget, clock
  <2> QED
    BY <2>1 DEF Inv, TypeOK, Members, Bucket, Untold
<1> QED
  BY <1>1, <1>2, <1>3 DEF Inv

LEMMA RefuseStep ==
  ASSUME Inv, NEW s \in Socket, Refuse(s)
  PROVE  Inv'
<1>1. UNCHANGED <<process, onlineUsers, told, membership, throttle, exists, clock>>
      /\ phase[s] = "new" /\ phase' = [phase EXCEPT ![s] = "refused"]
  BY DEF Refuse
<1>2. TypeOK'
  BY <1>1 DEF Inv, TypeOK, process, membership, throttle, clock
<1>3. ToldTheTruth'
  <2>1. Open' = Open
    BY <1>1 DEF Inv, TypeOK, Open
  <2> QED
    BY <1>1, <2>1 DEF Inv, ToldTheTruth
<1>4. ASSUME NEW t \in Socket PROVE Members(t)' /\ Bucket(t)'
  <2>1. phase'[t] = IF t = s THEN "refused" ELSE phase[t]
    BY <1>1 DEF Inv, TypeOK
  <2> QED
    BY <1>1, <2>1 DEF Inv, TypeOK, Members, Bucket, Participating, Settled, membership, throttle,
                      clock
<1> QED
  BY <1>2, <1>3, <1>4 DEF Inv

LEMMA ConnectStep ==
  ASSUME Inv, NEW s \in Socket, Connect(s)
  PROVE  Inv'
<1> DEFINE u == UserOf[s]
<1>0. u \in User
  BY SocketAssumption
<1>1. /\ phase[s] = "new" /\ phase' = [phase EXCEPT ![s] = "open"]
      /\ onlineUsers' = [onlineUsers EXCEPT ![u] = @ \cup {s}]
      /\ EmitStatus(Open \cup {s}, u, "online")
      /\ auto' = [auto EXCEPT ![s] = "query"]
      /\ due' = [due EXCEPT ![s] = Participating(u)]
      /\ tokens' = [tokens EXCEPT ![s] = Full]
      /\ lastRefill' = [lastRefill EXCEPT ![s] = now]
      /\ UNCHANGED <<process, rooms, listed, asked, left, out, relayed, exists, clock>>
  BY DEF Connect
<1>2. Open' = Open \cup {s}
  BY <1>1 DEF Inv, TypeOK, Open
<1>3. TypeOK'
  <2>1. told' \in [Socket -> [User -> {"nothing", "online", "offline"}]]
    BY <1>0, <1>1 DEF Inv, TypeOK, EmitStatus, Untold
  <2>2. Full \in 0 .. Full
    BY Numbers
  <2>3. Participating(u) \subseteq Conversation
    BY DEF Inv, TypeOK, Participating
  <2>4. phase' \in [Socket -> {"new", "open", "refused", "closed"}]
        /\ onlineUsers' \in [User -> SUBSET Socket]
        /\ auto' \in [Socket -> {"none", "query", "listed", "joined", "failed"}]
    BY <1>1 DEF Inv, TypeOK
  <2>5. due' \in [Socket -> SUBSET Conversation]
    BY <1>1, <2>3 DEF Inv, TypeOK
  <2>6. tokens' \in [Socket -> 0 .. Full] /\ lastRefill' \in [Socket -> 0 .. MaxTime]
    BY <1>1, <2>2 DEF Inv, TypeOK
  <2> QED
    BY <1>1, <2>1, <2>4, <2>5, <2>6 DEF Inv, TypeOK, process, clock
<1>4. ToldTheTruth'
  <2>1. ASSUME NEW v \in User PROVE onlineUsers'[v] = {t \in Open' : UserOf[t] = v}
    BY <1>0, <1>1, <1>2 DEF Inv, TypeOK, ToldTheTruth
  <2>2. ASSUME NEW t \in Open', NEW v \in User
        PROVE  /\ told'[t][v] = "online" => onlineUsers'[v] # {}
               /\ told'[t][v] = "offline" => onlineUsers'[v] = {}
    <3>1. t \in Socket /\ told'[t] = [told[t] EXCEPT ![u] = "online"]
      BY <1>1, <1>2 DEF EmitStatus, Open
    <3>2. CASE v = u
      <4>1. told'[t][v] = "online" /\ s \in onlineUsers'[v]
        BY <1>0, <1>1, <3>1, <3>2 DEF Inv, TypeOK
      <4> QED
        BY <4>1
    <3>3. CASE v # u
      <4>1. told'[t][v] = told[t][v] /\ onlineUsers'[v] = onlineUsers[v]
        BY <1>0, <1>1, <3>1, <3>3 DEF Inv, TypeOK
      <4>2. CASE t \in Open
        BY <4>1, <4>2 DEF Inv, ToldTheTruth
      <4>3. CASE t \notin Open
        <5>1. told[t] = Untold
          BY <3>1, <4>3 DEF Inv, Members, Open
        <5> QED
          BY <4>1, <5>1 DEF Untold
      <4> QED
        BY <4>2, <4>3
    <3> QED
      BY <3>2, <3>3
  <2> QED
    BY <2>1, <2>2 DEF ToldTheTruth
<1>5. ASSUME NEW t \in Socket PROVE Members(t)' /\ Bucket(t)'
  <2>1. CASE t = s
    <3>1. /\ phase'[s] = "open" /\ auto'[s] = "query" /\ due'[s] = Participating(u)
          /\ lastRefill'[s] = now /\ now' = now /\ exists' = exists
          /\ rooms'[s] = rooms[s] /\ listed'[s] = listed[s] /\ asked'[s] = asked[s]
          /\ out'[s] = out[s] /\ relayed'[s] = relayed[s]
      BY <1>1 DEF Inv, TypeOK, clock
    <3>2. Members(s) /\ phase[s] = "new" /\ now \in Nat
      BY <1>1 DEF Inv, TypeOK
    <3> QED
      BY <2>1, <3>1, <3>2 DEF Members, Bucket, Participating
  <2>2. CASE t # s
    <3>1. /\ phase'[t] = phase[t] /\ auto'[t] = auto[t] /\ due'[t] = due[t]
          /\ tokens'[t] = tokens[t] /\ lastRefill'[t] = lastRefill[t] /\ now' = now
          /\ rooms'[t] = rooms[t] /\ listed'[t] = listed[t] /\ asked'[t] = asked[t]
          /\ left'[t] = left[t] /\ out'[t] = out[t] /\ relayed'[t] = relayed[t]
          /\ exists' = exists
      BY <1>1, <2>2 DEF Inv, TypeOK, clock
    <3>2. phase[t] # "open" => told'[t] = told[t]
      BY <1>1, <2>2 DEF Inv, Members, EmitStatus, Open
    <3> QED
      BY <3>1, <3>2, MembersKept, BucketKept DEF Inv, TypeOK
  <2> QED
    BY <2>1, <2>2
<1> QED
  BY <1>3, <1>4, <1>5 DEF Inv

LEMMA DisconnectStep ==
  ASSUME Inv, NEW s \in Socket, Disconnect(s)
  PROVE  Inv'
<1> DEFINE u == UserOf[s]
<1>0. u \in User
  BY SocketAssumption
<1>1. /\ phase[s] = "open" /\ phase' = [phase EXCEPT ![s] = "closed"]
      /\ rooms' = [rooms EXCEPT ![s] = {}]
      /\ onlineUsers' = [onlineUsers EXCEPT ![u] = @ \ {s}]
      /\ Forget({s})
      /\ UNCHANGED <<process, auto, listed, asked, exists, clock>>
  BY DEF Disconnect
<1>2. IF onlineUsers[u] \subseteq {s}
        THEN EmitStatus(Open \ {s}, u, "offline")
        ELSE told' = [told EXCEPT ![s] = Untold]
  BY DEF Disconnect
<1>3. Open' = Open \ {s} /\ s \in Open /\ s \in onlineUsers[u]
  BY <1>0, <1>1 DEF Inv, TypeOK, Open, ToldTheTruth
<1>4. /\ told' \in [Socket -> [User -> {"nothing", "online", "offline"}]]
      /\ told'[s] = Untold
      /\ \A t \in Socket \ {s} : phase[t] # "open" => told'[t] = told[t]
  <2>0. Untold \in [User -> {"nothing", "online", "offline"}]
    BY DEF Untold
  <2>1. CASE onlineUsers[u] \subseteq {s}
    <3>1. \A t \in Socket : [told[t] EXCEPT ![u] = "offline"]
                                 \in [User -> {"nothing", "online", "offline"}]
      BY <1>0 DEF Inv, TypeOK
    <3>2. told' = [t \in Socket |-> IF t \in Open \ {s} THEN [told[t] EXCEPT ![u] = "offline"]
                                   ELSE Untold]
      BY <1>2, <2>1 DEF EmitStatus
    <3>3. \A t \in Socket : phase[t] # "open" => told[t] = Untold /\ t \notin Open
      BY DEF Inv, Members, Open
    <3>4. told' \in [Socket -> [User -> {"nothing", "online", "offline"}]]
      <4> DEFINE after(t) == IF t \in Open \ {s} THEN [told[t] EXCEPT ![u] = "offline"] ELSE Untold
      <4>1. \A t \in Socket : after(t) \in [User -> {"nothing", "online", "offline"}]
        BY <2>0, <3>1
      <4>2. told' = [t \in Socket |-> after(t)]
        BY <3>2
      <4> HIDE DEF after
      <4> QED
        BY <4>1, <4>2
    <3>5. told'[s] = Untold
      BY <3>2
    <3>6. ASSUME NEW t \in Socket \ {s}, phase[t] # "open" PROVE told'[t] = told[t]
      BY <3>2, <3>3, <3>6
    <3> QED
      BY <3>4, <3>5, <3>6
  <2>2. CASE ~(onlineUsers[u] \subseteq {s})
    <3>1. told' = [told EXCEPT ![s] = Untold]
      BY <1>2, <2>2
    <3>2. told \in [Socket -> [User -> {"nothing", "online", "offline"}]]
      BY DEF Inv, TypeOK
    <3> QED
      BY <2>0, <3>1, <3>2
  <2> QED
    BY <2>1, <2>2
<1>5. TypeOK'
  <2>1. phase' \in [Socket -> {"new", "open", "refused", "closed"}]
        /\ onlineUsers' \in [User -> SUBSET Socket]
        /\ rooms' \in [Socket -> SUBSET Conversation]
    BY <1>1 DEF Inv, TypeOK
  <2>2. /\ tokens' \in [Socket -> 0 .. Full] /\ lastRefill' \in [Socket -> 0 .. MaxTime]
        /\ relayed' \in [Socket -> Seq(0 .. MaxTime)]
        /\ due' \in [Socket -> SUBSET Conversation]
        /\ left' \in [Socket -> SUBSET Conversation]
        /\ out' \in [Socket -> SUBSET Conversation]
    <3>1. Full \in 0 .. Full /\ 0 \in 0 .. MaxTime /\ << >> \in Seq(0 .. MaxTime)
      BY Numbers
    <3>2. \A t \in Socket :
             /\ tokens[t] \in 0 .. Full /\ lastRefill[t] \in 0 .. MaxTime
             /\ relayed[t] \in Seq(0 .. MaxTime)
             /\ due[t] \subseteq Conversation /\ left[t] \subseteq Conversation
             /\ out[t] \subseteq Conversation
      BY DEF Inv, TypeOK
    <3> HIDE DEF u
    <3>3. tokens' \in [Socket -> 0 .. Full]
      BY <1>1, <3>1, <3>2 DEF Forget
    <3>4. lastRefill' \in [Socket -> 0 .. MaxTime]
      BY <1>1, <3>1, <3>2 DEF Forget
    <3>5. relayed' \in [Socket -> Seq(0 .. MaxTime)]
      BY <1>1, <3>1, <3>2 DEF Forget
    <3>6. /\ due' \in [Socket -> SUBSET Conversation]
          /\ left' \in [Socket -> SUBSET Conversation]
          /\ out' \in [Socket -> SUBSET Conversation]
      BY <1>1, <3>2 DEF Forget
    <3> QED
      BY <3>3, <3>4, <3>5, <3>6
  <2> QED
    BY <1>1, <1>4, <2>1, <2>2 DEF Inv, TypeOK, process, clock
<1>6. ToldTheTruth'
  <2>1. ASSUME NEW v \in User PROVE onlineUsers'[v] = {t \in Open' : UserOf[t] = v}
    BY <1>0, <1>1, <1>3 DEF Inv, TypeOK, ToldTheTruth
  <2>2. ASSUME NEW t \in Open', NEW v \in User
        PROVE  /\ told'[t][v] = "online" => onlineUsers'[v] # {}
               /\ told'[t][v] = "offline" => onlineUsers'[v] = {}
    <3>1. t \in Socket /\ t \in Open /\ t # s
      BY <1>3 DEF Open
    <3>2. CASE v # u
      <4>1. onlineUsers'[v] = onlineUsers[v]
        BY <1>0, <1>1, <3>2 DEF Inv, TypeOK
      <4>2. told'[t][v] = told[t][v]
        BY <1>2, <1>3, <3>1, <3>2 DEF Inv, TypeOK, EmitStatus
      <4> QED
        BY <3>1, <4>1, <4>2 DEF Inv, ToldTheTruth
    <3>3. CASE v = u /\ onlineUsers[u] \subseteq {s}
      <4>1. told'[t][v] = "offline"
        BY <1>0, <1>2, <1>3, <3>1, <3>3 DEF Inv, TypeOK, EmitStatus
      <4>2. onlineUsers'[v] = {}
        BY <1>0, <1>1, <3>3 DEF Inv, TypeOK
      <4> QED
        BY <4>1, <4>2
    <3>4. CASE v = u /\ ~(onlineUsers[u] \subseteq {s})
      <4>1. told'[t] = told[t]
        BY <1>2, <3>1, <3>4 DEF Inv, TypeOK
      <4>2. onlineUsers'[v] # {}
        BY <1>0, <1>1, <3>4 DEF Inv, TypeOK
      <4>3. told[t][v] # "offline"
        BY <1>3, <3>1, <3>4 DEF Inv, ToldTheTruth
      <4> QED
        BY <4>1, <4>2, <4>3
    <3> QED
      BY <3>2, <3>3, <3>4
  <2> QED
    BY <2>1, <2>2 DEF ToldTheTruth
<1>7. ASSUME NEW t \in Socket PROVE Members(t)' /\ Bucket(t)'
  <2>1. CASE t = s
    <3>1. /\ phase'[s] = "closed" /\ rooms'[s] = {} /\ told'[s] = Untold
          /\ due'[s] = {} /\ left'[s] = {} /\ out'[s] = {} /\ relayed'[s] = << >>
          /\ lastRefill'[s] = 0 /\ now' = now /\ exists' = exists
          /\ listed'[s] = listed[s] /\ asked'[s] = asked[s]
      BY <1>1, <1>4 DEF Inv, TypeOK, Forget, clock
    <3>2. Members(s) /\ now \in Nat
      BY DEF Inv, TypeOK
    <3> QED
      BY <2>1, <3>1, <3>2 DEF Members, Bucket, Participating
  <2>2. CASE t # s
    <3>1. /\ phase'[t] = phase[t] /\ auto'[t] = auto[t] /\ due'[t] = due[t]
          /\ tokens'[t] = tokens[t] /\ lastRefill'[t] = lastRefill[t] /\ now' = now
          /\ rooms'[t] = rooms[t] /\ listed'[t] = listed[t] /\ asked'[t] = asked[t]
          /\ left'[t] = left[t] /\ out'[t] = out[t] /\ relayed'[t] = relayed[t]
          /\ exists' = exists
      BY <1>1, <2>2 DEF Inv, TypeOK, Forget, clock
    <3> QED
      BY <1>4, <2>2, <3>1, MembersKept, BucketKept DEF Inv, TypeOK
  <2> QED
    BY <2>1, <2>2
<1> QED
  BY <1>5, <1>6, <1>7 DEF Inv

-----------------------------------------------------------------------------

\* A step of socket s that only changes its rooms and subscriptions.
LEMMA RoomStep ==
  ASSUME Inv, NEW s \in Socket,
         UNCHANGED <<process, presence, throttle, exists, now>>, events' \in Nat,
         rooms' \in [Socket -> SUBSET Conversation],
         auto' \in [Socket -> {"none", "query", "listed", "joined", "failed"}],
         listed' \in [Socket -> SUBSET Conversation],
         asked' \in [Socket -> [Conversation -> {"none", "query", "allowed", "refused"}]],
         due' = due,
         left' \in [Socket -> SUBSET Conversation],
         out' \in [Socket -> SUBSET Conversation],
         \A t \in Socket \ {s} :
            /\ rooms'[t] = rooms[t] /\ auto'[t] = auto[t] /\ listed'[t] = listed[t]
            /\ asked'[t] = asked[t] /\ left'[t] = left[t] /\ out'[t] = out[t],
         Members(s)'
  PROVE  Inv'
<1>1. TypeOK'
  BY DEF Inv, TypeOK, process, presence, throttle
<1>2. ToldTheTruth'
  BY DEF Inv, ToldTheTruth, Open, presence
<1>3. ASSUME NEW t \in Socket PROVE Members(t)'
  <2>1. CASE t # s
    BY <2>1, MembersKept DEF Inv, presence, throttle
  <2> QED
    BY <2>1
<1>4. ASSUME NEW t \in Socket PROVE Bucket(t)'
  BY BucketKept DEF Inv, TypeOK, throttle
<1> QED
  BY <1>1, <1>2, <1>3, <1>4 DEF Inv

LEMMA ListMineStep ==
  ASSUME Inv, NEW s \in Socket, ListMine(s)
  PROVE  Inv'
<1>1. /\ auto[s] = "query" /\ listed' = [listed EXCEPT ![s] = Listed(UserOf[s])]
      /\ auto' = [auto EXCEPT ![s] = "listed"]
      /\ UNCHANGED <<process, presence, rooms, asked, due, left, out, throttle, exists, clock>>
  BY DEF ListMine
<1>2. Listed(UserOf[s]) = Participating(UserOf[s]) /\ Listed(UserOf[s]) \subseteq Conversation
  BY DEF Listed, Participating, Inv, TypeOK
<1>3. Members(s)'
  <2>1. /\ auto'[s] = "listed" /\ listed'[s] = Participating(UserOf[s])
        /\ phase' = phase /\ told' = told /\ relayed' = relayed
        /\ exists' = exists /\ due' = due /\ rooms' = rooms /\ asked' = asked /\ out' = out
        /\ left' = left
    BY <1>1, <1>2 DEF Inv, TypeOK, presence, throttle
  <2>2. Members(s) /\ auto[s] = "query"
    BY <1>1 DEF Inv
  <2> QED
    BY <2>1, <2>2 DEF Members, Participating, Settled
<1>4. /\ listed' \in [Socket -> SUBSET Conversation]
      /\ auto' \in [Socket -> {"none", "query", "listed", "joined", "failed"}]
      /\ \A t \in Socket \ {s} : auto'[t] = auto[t] /\ listed'[t] = listed[t]
  BY <1>1, <1>2 DEF Inv, TypeOK
<1> QED
  BY <1>1, <1>3, <1>4, RoomStep DEF Inv, TypeOK, clock

LEMMA ListFailsStep ==
  ASSUME Inv, NEW s \in Socket, ListFails(s)
  PROVE  Inv'
<1>1. /\ auto[s] = "query" /\ auto' = [auto EXCEPT ![s] = "failed"]
      /\ UNCHANGED <<process, presence, rooms, listed, asked, due, left, out, throttle, exists,
                     clock>>
  BY DEF ListFails
<1>2. Members(s)'
  <2>1. /\ auto'[s] = "failed" /\ listed' = listed /\ phase' = phase /\ told' = told
        /\ relayed' = relayed /\ exists' = exists /\ due' = due /\ rooms' = rooms
        /\ asked' = asked /\ out' = out /\ left' = left
    BY <1>1 DEF Inv, TypeOK, presence, throttle
  <2>2. Members(s) /\ auto[s] = "query"
    BY <1>1 DEF Inv
  <2> QED
    BY <2>1, <2>2 DEF Members, Participating, Settled
<1>3. /\ auto' \in [Socket -> {"none", "query", "listed", "joined", "failed"}]
      /\ \A t \in Socket \ {s} : auto'[t] = auto[t]
  BY <1>1 DEF Inv, TypeOK
<1> QED
  BY <1>1, <1>2, <1>3, RoomStep DEF Inv, TypeOK, clock

LEMMA JoinMineStep ==
  ASSUME Inv, NEW s \in Socket, JoinMine(s)
  PROVE  Inv'
<1>1. /\ auto[s] = "listed" /\ Join(s, listed[s])
      /\ auto' = [auto EXCEPT ![s] = "joined"] /\ listed' = [listed EXCEPT ![s] = {}]
      /\ UNCHANGED <<process, presence, asked, due, left, out, throttle, exists, clock>>
  BY DEF JoinMine
<1>2. rooms'[s] = IF phase[s] = "open" THEN rooms[s] \cup listed[s] ELSE rooms[s]
  BY <1>1 DEF Inv, TypeOK, Join
<1>3. Members(s)'
  <2>1. /\ auto'[s] = "joined" /\ listed'[s] = {} /\ phase' = phase /\ told' = told
        /\ relayed' = relayed /\ exists' = exists /\ due' = due
        /\ asked' = asked /\ out' = out /\ left' = left
    BY <1>1 DEF Inv, TypeOK, presence, throttle
  <2>2. Members(s) /\ auto[s] = "listed"
    BY <1>1 DEF Inv
  <2> QED
    BY <1>2, <2>1, <2>2 DEF Members, Participating, Settled
<1>4. /\ auto' \in [Socket -> {"none", "query", "listed", "joined", "failed"}]
      /\ listed' \in [Socket -> SUBSET Conversation]
      /\ rooms' \in [Socket -> SUBSET Conversation]
      /\ \A t \in Socket \ {s} :
            auto'[t] = auto[t] /\ listed'[t] = listed[t] /\ rooms'[t] = rooms[t]
  BY <1>1 DEF Inv, TypeOK, Join
<1> QED
  BY <1>1, <1>3, <1>4, RoomStep DEF Inv, TypeOK, clock

\* A step that sets the stage of one chat:join.
LEMMA AskedStep ==
  ASSUME Inv, NEW s \in Socket, NEW c \in Conversation,
         NEW v \in {"none", "query", "allowed", "refused"},
         asked' = [asked EXCEPT ![s][c] = v]
  PROVE  /\ asked' \in [Socket -> [Conversation -> {"none", "query", "allowed", "refused"}]]
         /\ \A t \in Socket \ {s} : asked'[t] = asked[t]
         /\ \A d \in Conversation : asked'[s][d] = IF d = c THEN v ELSE asked[s][d]
BY DEF Inv, TypeOK

LEMMA AskJoinStep ==
  ASSUME Inv, NEW s \in Socket, NEW c \in Conversation, AskJoin(s, c)
  PROVE  Inv'
<1>1. /\ asked' = [asked EXCEPT ![s][c] = "query"] /\ out' = [out EXCEPT ![s] = @ \ {c}]
      /\ events' = events + 1
      /\ UNCHANGED <<process, presence, rooms, auto, listed, due, left, throttle, exists, now>>
  BY DEF AskJoin, ClientSends
<1>2. /\ asked' \in [Socket -> [Conversation -> {"none", "query", "allowed", "refused"}]]
      /\ \A t \in Socket \ {s} : asked'[t] = asked[t]
      /\ \A d \in Conversation : asked'[s][d] = IF d = c THEN "query" ELSE asked[s][d]
  BY <1>1, AskedStep
<1>3. Members(s)'
  <2>1. /\ out'[s] = out[s] \ {c} /\ phase' = phase /\ told' = told /\ relayed' = relayed
        /\ exists' = exists /\ due' = due /\ rooms' = rooms /\ auto' = auto
        /\ listed' = listed /\ left' = left
    BY <1>1 DEF Inv, TypeOK, presence, throttle
  <2>2. Members(s) /\ out[s] \subseteq Conversation
    BY DEF Inv, TypeOK
  <2> QED
    BY <1>2, <2>1, <2>2 DEF Members, Participating, Settled
<1>4. /\ out' \in [Socket -> SUBSET Conversation] /\ events' \in Nat
      /\ \A t \in Socket \ {s} : out'[t] = out[t]
  BY <1>1 DEF Inv, TypeOK
<1> QED
  BY <1>1, <1>2, <1>3, <1>4, RoomStep DEF Inv, TypeOK

LEMMA CheckStep ==
  ASSUME Inv, NEW s \in Socket, NEW c \in Conversation, CheckJoin(s, c) \/ CheckFails(s, c)
  PROVE  Inv'
<1>1. /\ asked[s][c] = "query"
      /\ UNCHANGED <<process, presence, rooms, auto, listed, due, left, out, throttle, exists,
                     clock>>
  BY DEF CheckJoin, CheckFails
<1>2. PICK v \in {"allowed", "refused"} :
          /\ asked' = [asked EXCEPT ![s][c] = v]
          /\ v = "allowed" => CanSubscribe(s, c)
  BY DEF CheckJoin, CheckFails
<1>3. /\ asked' \in [Socket -> [Conversation -> {"none", "query", "allowed", "refused"}]]
      /\ \A t \in Socket \ {s} : asked'[t] = asked[t]
      /\ \A d \in Conversation : asked'[s][d] = IF d = c THEN v ELSE asked[s][d]
  BY <1>2, AskedStep
<1>4. Members(s)'
  <2>1. /\ out' = out /\ phase' = phase /\ told' = told /\ relayed' = relayed
        /\ exists' = exists /\ due' = due /\ rooms' = rooms /\ auto' = auto
        /\ listed' = listed /\ left' = left
    BY <1>1 DEF Inv, TypeOK, presence, throttle
  <2>2. Members(s) /\ out[s] \subseteq Conversation /\ c \notin out[s]
    BY <1>1 DEF Inv, TypeOK, Members, Settled
  <2>3. v = "allowed" => c \in Participating(UserOf[s])
    BY <1>2 DEF CanSubscribe, Participating
  <2> QED
    BY <1>3, <2>1, <2>2, <2>3 DEF Members, Participating, Settled
<1> QED
  BY <1>1, <1>3, <1>4, RoomStep DEF Inv, TypeOK, clock

LEMMA EndJoinStep ==
  ASSUME Inv, NEW s \in Socket, NEW c \in Conversation, EndJoin(s, c)
  PROVE  Inv'
<1>1. /\ asked[s][c] \in {"allowed", "refused"}
      /\ asked' = [asked EXCEPT ![s][c] = "none"]
      /\ UNCHANGED <<process, presence, auto, listed, due, left, out, throttle, exists, clock>>
      /\ IF asked[s][c] = "allowed" THEN Join(s, {c}) ELSE UNCHANGED rooms
  BY DEF EndJoin
<1>2. /\ asked' \in [Socket -> [Conversation -> {"none", "query", "allowed", "refused"}]]
      /\ \A t \in Socket \ {s} : asked'[t] = asked[t]
      /\ \A d \in Conversation : asked'[s][d] = IF d = c THEN "none" ELSE asked[s][d]
  BY <1>1, AskedStep
<1>3. /\ rooms' \in [Socket -> SUBSET Conversation]
      /\ \A t \in Socket \ {s} : rooms'[t] = rooms[t]
      /\ rooms'[s] = IF asked[s][c] = "allowed" /\ phase[s] = "open"
                     THEN rooms[s] \cup {c} ELSE rooms[s]
  <2>1. CASE asked[s][c] = "allowed"
    <3>1. rooms' = [rooms EXCEPT ![s] = IF phase[s] = "open" THEN @ \cup {c} ELSE @]
      BY <1>1, <2>1 DEF Join
    <3> QED
      BY <2>1, <3>1 DEF Inv, TypeOK
  <2>2. CASE asked[s][c] # "allowed"
    BY <1>1, <2>2 DEF Inv, TypeOK
  <2> QED
    BY <2>1, <2>2
<1>4. Members(s)'
  <2>1. /\ out' = out /\ phase' = phase /\ told' = told /\ relayed' = relayed
        /\ exists' = exists /\ due' = due /\ auto' = auto
        /\ listed' = listed /\ left' = left
    BY <1>1 DEF Inv, TypeOK, presence, throttle
  <2>2. Members(s) /\ out[s] \subseteq Conversation /\ c \notin out[s]
    BY <1>1 DEF Inv, TypeOK, Members, Settled
  <2> QED
    BY <1>2, <1>3, <2>1, <2>2 DEF Members, Participating, Settled
<1> QED
  BY <1>1, <1>2, <1>3, <1>4, RoomStep DEF Inv, TypeOK, clock

LEMMA LeaveStep ==
  ASSUME Inv, NEW s \in Socket, NEW c \in Conversation, Leave(s, c)
  PROVE  Inv'
<1>1. /\ phase[s] = "open" /\ events' = events + 1
      /\ rooms' = [rooms EXCEPT ![s] = @ \ {c}] /\ left' = [left EXCEPT ![s] = @ \cup {c}]
      /\ out' = [out EXCEPT ![s] = IF Settled(s, c) THEN @ \cup {c} ELSE @]
      /\ UNCHANGED <<process, presence, auto, listed, asked, due, throttle, exists, now>>
  BY DEF Leave, ClientSends
<1>2. Members(s)'
  <2>1. /\ rooms'[s] = rooms[s] \ {c} /\ left'[s] = left[s] \cup {c}
        /\ out'[s] = IF Settled(s, c) THEN out[s] \cup {c} ELSE out[s]
        /\ phase' = phase /\ told' = told /\ relayed' = relayed /\ exists' = exists
        /\ due' = due /\ auto' = auto /\ listed' = listed /\ asked' = asked
    BY <1>1 DEF Inv, TypeOK, presence, throttle
  <2>2. Members(s)
    BY DEF Inv
  <2> QED
    BY <1>1, <2>1, <2>2 DEF Members, Participating, Settled
<1>3. /\ rooms' \in [Socket -> SUBSET Conversation] /\ left' \in [Socket -> SUBSET Conversation]
      /\ out' \in [Socket -> SUBSET Conversation] /\ events' \in Nat
      /\ \A t \in Socket \ {s} :
            rooms'[t] = rooms[t] /\ left'[t] = left[t] /\ out'[t] = out[t]
  BY <1>1 DEF Inv, TypeOK
<1> QED
  BY <1>1, <1>2, <1>3, RoomStep DEF Inv, TypeOK

-----------------------------------------------------------------------------

LEMMA RefilledBounds ==
  ASSUME Inv, NEW s \in Socket
  PROVE  /\ Refilled(s) \in 0 .. Full
         /\ Refilled(s) <= tokens[s] + Refill * (now - lastRefill[s])
<1>1. tokens[s] \in 0 .. Full /\ now \in Nat /\ lastRefill[s] \in Nat /\ lastRefill[s] <= now
  BY DEF Inv, TypeOK, Bucket
<1>2. now - lastRefill[s] \in Nat
  BY <1>1
<1> DEFINE more == Refill * (now - lastRefill[s])
<1>3. more \in Nat
  BY <1>2, Numbers
<1> HIDE DEF more
<1>4. /\ Least(Full, tokens[s] + more) \in 0 .. Full
      /\ Least(Full, tokens[s] + more) <= tokens[s] + more
  BY <1>1, <1>3, Numbers DEF Least
<1> QED
  BY <1>4 DEF Refilled, more

LEMMA Elements ==
  ASSUME NEW S, NEW q \in Seq(S), NEW k \in 1 .. Len(q)
  PROVE  q[k] \in S
OBVIOUS

\* What the events since the i-th took, and what is in the bucket after a refill of it.
LEMMA RefilledKeeps ==
  ASSUME Inv, NEW s \in Socket, NEW i \in 1 .. Len(relayed[s])
  PROVE  (Len(relayed[s]) - i + 1) * Second + Refilled(s)
             <= Full + Refill * (now - relayed[s][i])
<1>1. /\ relayed[s] \in Seq(0 .. MaxTime) /\ i \in 1 .. Len(relayed[s])
      /\ relayed[s][i] \in Nat /\ Len(relayed[s]) \in Nat
      /\ tokens[s] \in Nat /\ lastRefill[s] \in Nat /\ now \in Nat
  <2>1. /\ relayed[s] \in Seq(0 .. MaxTime) /\ tokens[s] \in Nat
        /\ lastRefill[s] \in Nat /\ now \in Nat
    BY Numbers DEF Inv, TypeOK
  <2>2. relayed[s][i] \in 0 .. MaxTime
    BY <2>1, Elements
  <2>3. i \in 1 .. Len(relayed[s]) /\ Len(relayed[s]) \in Nat
    BY <2>1
  <2> QED
    BY <2>1, <2>2, <2>3
<1>2. (Len(relayed[s]) - i + 1) * Second + tokens[s]
          <= Full + Refill * (lastRefill[s] - relayed[s][i])
  <2>1. i \in DOMAIN relayed[s]
    BY <1>1
  <2> QED
    BY <2>1 DEF Inv, Bucket
<1>3. Refilled(s) \in Int /\ Refilled(s) <= tokens[s] + Refill * (now - lastRefill[s])
  BY RefilledBounds
<1> DEFINE k == (Len(relayed[s]) - i + 1) * Second
<1>4. k \in Int
  <2>1. Len(relayed[s]) - i + 1 \in Nat
    BY <1>1
  <2> QED
    BY <2>1, Numbers
<1> HIDE DEF k
<1>5. k + tokens[s] <= Full + Refill * (lastRefill[s] - relayed[s][i])
  BY <1>2 DEF k
<1>6. k + Refilled(s) <= Full + Refill * (now - relayed[s][i])
  <2>1. Full \in Int /\ Refill \in Int
    BY Numbers
  <2>2. /\ tokens[s] \in Int /\ lastRefill[s] \in Int /\ now \in Int /\ relayed[s][i] \in Int
        /\ Refilled(s) \in Int
    BY <1>1, <1>3
  <2> QED
    BY <1>3, <1>4, <1>5, <2>1, <2>2, RefillAdds
<1> QED
  BY <1>6 DEF k

\* A step that only changes the bucket of socket s.
LEMMA BucketStep ==
  ASSUME Inv, NEW s \in Socket,
         UNCHANGED <<process, presence, membership, exists, now>>, events' \in Nat,
         tokens' \in [Socket -> 0 .. Full], lastRefill' \in [Socket -> 0 .. MaxTime],
         relayed' \in [Socket -> Seq(0 .. MaxTime)],
         \A t \in Socket \ {s} : tokens'[t] = tokens[t] /\ lastRefill'[t] = lastRefill[t]
                                 /\ relayed'[t] = relayed[t],
         phase[s] = "open",
         Bucket(s)'
  PROVE  Inv'
<1>1. TypeOK'
  BY DEF Inv, TypeOK, process, presence, membership
<1>2. ToldTheTruth'
  BY DEF Inv, ToldTheTruth, Open, presence
<1>3. ASSUME NEW t \in Socket PROVE Members(t)'
  <2>1. CASE t = s
    BY <2>1 DEF Inv, Members, Participating, Settled, presence, membership
  <2>2. CASE t # s
    BY <2>2, MembersKept DEF Inv, presence, membership
  <2> QED
    BY <2>1, <2>2
<1>4. ASSUME NEW t \in Socket PROVE Bucket(t)'
  <2>1. CASE t # s
    BY <2>1, BucketKept DEF Inv, TypeOK
  <2> QED
    BY <2>1
<1> QED
  BY <1>1, <1>2, <1>3, <1>4 DEF Inv

LEMMA TypingStep ==
  ASSUME Inv, NEW s \in Socket, Typing(s)
  PROVE  Inv'
<1> DEFINE n == Len(relayed[s])
           r == Refilled(s)
           R == relayed[s]
<1>1. /\ phase[s] = "open" /\ events' = events + 1
      /\ lastRefill' = [lastRefill EXCEPT ![s] = now]
      /\ UNCHANGED <<process, presence, membership, exists, now>>
  BY DEF Typing, ClientSends
<1>2. /\ R \in Seq(0 .. MaxTime) /\ n \in Nat /\ now \in 0 .. MaxTime /\ now \in Nat
      /\ DOMAIN R = 1 .. n /\ \A i \in 1 .. n : R[i] \in Nat
      /\ r \in 0 .. Full /\ r \in Nat
  BY RefilledBounds, Numbers DEF Inv, TypeOK
<1>3. \A i \in 1 .. n : (n - i + 1) * Second + r <= Full + Refill * (now - R[i])
  BY <1>2, RefilledKeeps
<1>4. \A i, j \in 1 .. n : i <= j => (j - i + 1) * Second <= Full + Refill * (R[j] - R[i])
  BY <1>2 DEF Inv, Bucket
<1>5. lastRefill' \in [Socket -> 0 .. MaxTime] /\ lastRefill'[s] = now
      /\ \A t \in Socket \ {s} : lastRefill'[t] = lastRefill[t]
  BY <1>1, <1>2 DEF Inv, TypeOK
<1>6. CASE r >= Second
  <2>1. /\ tokens' = [tokens EXCEPT ![s] = r - Second]
        /\ relayed' = [relayed EXCEPT ![s] = Append(R, now)]
    BY <1>6 DEF Typing
  <2>2. r - Second \in 0 .. Full /\ Append(R, now) \in Seq(0 .. MaxTime)
    BY <1>2, <1>6, Numbers
  <2>3. /\ tokens' \in [Socket -> 0 .. Full] /\ relayed' \in [Socket -> Seq(0 .. MaxTime)]
        /\ tokens'[s] = r - Second /\ relayed'[s] = Append(R, now)
        /\ \A t \in Socket \ {s} : tokens'[t] = tokens[t] /\ relayed'[t] = relayed[t]
    BY <2>1, <2>2 DEF Inv, TypeOK
  <2>4. /\ Len(relayed'[s]) = n + 1 /\ DOMAIN relayed'[s] = 1 .. n + 1
        /\ relayed'[s][n + 1] = now /\ \A i \in 1 .. n : relayed'[s][i] = R[i]
    BY <1>2, <2>3
  <2>5. now - now = 0 /\ Refill * 0 = 0 /\ Second \in Nat /\ Full \in Nat /\ Second <= Full
    BY <1>2, Numbers
  <2>6. ASSUME NEW i \in 1 .. n
        PROVE  /\ ((n + 1) - i + 1) * Second = (n - i + 1) * Second + Second
               /\ (n - i + 1) * Second \in Nat /\ Refill * (now - R[i]) \in Int
    <3>1. n - i + 1 \in Nat /\ (n + 1) - i + 1 = (n - i + 1) + 1 /\ now - R[i] \in Int
      BY <1>2
    <3> QED
      BY <3>1, Numbers
  <2>7. 1 * Second = Second /\ (n + 1) - (n + 1) + 1 = 1
    BY <1>2, Numbers
  <2>8. ASSUME NEW i \in 1 .. n + 1
        PROVE  /\ ((n + 1) - i + 1) * Second + (r - Second)
                      <= Full + Refill * (now - relayed'[s][i])
               /\ ((n + 1) - i + 1) * Second <= Full + Refill * (now - relayed'[s][i])
    <3>1. CASE i = n + 1
      BY <1>2, <2>4, <2>5, <2>7, <3>1
    <3>2. CASE i # n + 1
      <4>1. i \in 1 .. n /\ relayed'[s][i] = R[i]
        BY <1>2, <2>4, <3>2
      <4> DEFINE k == (n - i + 1) * Second
                 g == Refill * (now - R[i])
      <4>2. k \in Nat /\ g \in Int /\ ((n + 1) - i + 1) * Second = k + Second
        BY <2>6, <4>1
      <4>3. k + r <= Full + g
        BY <1>3, <4>1
      <4> HIDE DEF k, g
      <4>4. k + Second + (r - Second) <= Full + g /\ k + Second <= Full + g
        BY <1>2, <1>6, <2>5, <4>2, <4>3
      <4> QED
        BY <4>1, <4>2, <4>4 DEF g
    <3> QED
      BY <3>1, <3>2
  <2>9. Bucket(s)'
    <3>1. ASSUME NEW i \in 1 .. n + 1, NEW j \in 1 .. n + 1, i <= j
          PROVE  (j - i + 1) * Second <= Full + Refill * (relayed'[s][j] - relayed'[s][i])
      <4>1. CASE j = n + 1
        BY <2>4, <2>8, <4>1
      <4>2. CASE j # n + 1
        <5>1. i \in 1 .. n /\ j \in 1 .. n
          BY <1>2, <3>1, <4>2
        <5> QED
          BY <1>4, <2>4, <3>1, <5>1
      <4> QED
        BY <4>1, <4>2
    <3>2. now' = now /\ lastRefill'[s] <= now'
      BY <1>1, <1>2, <1>5
    <3> QED
      BY <1>5, <2>3, <2>4, <2>8, <3>1, <3>2 DEF Bucket
  <2>10. events' \in Nat
    BY <1>1 DEF Inv, TypeOK
  <2> QED
    BY <1>1, <1>5, <2>3, <2>9, <2>10, BucketStep
<1>7. CASE ~(r >= Second)
  <2>1. tokens' = [tokens EXCEPT ![s] = r] /\ relayed' = relayed
    BY <1>7 DEF Typing
  <2>2. tokens' \in [Socket -> 0 .. Full] /\ tokens'[s] = r
        /\ \A t \in Socket \ {s} : tokens'[t] = tokens[t]
    BY <1>2, <2>1 DEF Inv, TypeOK
  <2>3. Bucket(s)'
    <3>1. now' = now /\ lastRefill'[s] <= now'
      BY <1>1, <1>2, <1>5
    <3> QED
      BY <1>2, <1>3, <1>4, <1>5, <2>1, <2>2, <3>1 DEF Bucket
  <2>4. events' \in Nat /\ relayed' \in [Socket -> Seq(0 .. MaxTime)]
    BY <1>1, <2>1 DEF Inv, TypeOK
  <2> QED
    BY <1>1, <1>5, <2>1, <2>2, <2>3, <2>4, BucketStep
<1> QED
  BY <1>6, <1>7

LEMMA TickStep ==
  ASSUME Inv, Tick
  PROVE  Inv'
<1>1. /\ now < MaxTime /\ now' = now + 1
      /\ UNCHANGED <<process, presence, membership, throttle, exists, events>>
  BY DEF Tick
<1>2. now \in Nat /\ now' \in 0 .. MaxTime /\ now' \in Nat /\ now <= now'
  BY <1>1, Numbers DEF Inv, TypeOK
<1>3. TypeOK'
  BY <1>1, <1>2 DEF Inv, TypeOK, process, presence, membership, throttle
<1>4. ToldTheTruth'
  BY <1>1 DEF Inv, ToldTheTruth, Open, presence
<1>5. ASSUME NEW s \in Socket PROVE Members(s)'
  BY <1>1, MembersKept DEF Inv, presence, membership, throttle
<1>6. ASSUME NEW s \in Socket PROVE Bucket(s)'
  BY <1>1, <1>2, BucketKept DEF Inv, throttle
<1> QED
  BY <1>3, <1>4, <1>5, <1>6 DEF Inv

LEMMA CreateStep ==
  ASSUME Inv, NEW c \in Conversation, Create(c)
  PROVE  Inv'
<1>1. /\ exists' = exists \cup {c}
      /\ UNCHANGED <<process, presence, membership, throttle, clock>>
  BY DEF Create
<1>2. TypeOK'
  BY <1>1 DEF Inv, TypeOK, process, presence, membership, throttle, clock
<1>3. ToldTheTruth'
  BY <1>1 DEF Inv, ToldTheTruth, Open, presence
<1>4. ASSUME NEW s \in Socket PROVE Members(s)'
  BY <1>1, MembersKept DEF Inv, presence, membership, throttle
<1>5. ASSUME NEW s \in Socket PROVE Bucket(s)'
  BY <1>1, BucketKept DEF Inv, TypeOK, throttle, clock
<1> QED
  BY <1>2, <1>3, <1>4, <1>5 DEF Inv

LEMMA Stutter ==
  ASSUME Inv, UNCHANGED vars
  PROVE  Inv'
<1>1. TypeOK'
  BY DEF Inv, TypeOK, vars
<1>2. ToldTheTruth'
  BY DEF Inv, ToldTheTruth, Open, vars
<1>3. ASSUME NEW s \in Socket PROVE Members(s)'
  BY MembersKept DEF Inv, vars
<1>4. ASSUME NEW s \in Socket PROVE Bucket(s)'
  BY BucketKept DEF Inv, TypeOK, vars
<1> QED
  BY <1>1, <1>2, <1>3, <1>4 DEF Inv

-----------------------------------------------------------------------------

\* Every step of the server keeps the inductive invariant.
THEOREM Invariance == Spec => []Inv
<1>1. Init => Inv
  BY Initially
<1>2. ASSUME Inv, [Next]_vars PROVE Inv'
  <2>1. CASE Listen \/ ConnectFails \/ Signal
    BY <1>2, <2>1, ProcessStep
  <2>2. CASE Drained \/ Forced
    BY <1>2, <2>2, ExitStep DEF Drained, Forced
  <2>3. CASE Tick
    BY <1>2, <2>3, TickStep
  <2>4. ASSUME NEW s \in Socket,
               Refuse(s) \/ Connect(s) \/ Disconnect(s) \/ Work(s) \/ Typing(s)
        PROVE  Inv'
    BY <1>2, <2>4, RefuseStep, ConnectStep, DisconnectStep, ListMineStep, ListFailsStep,
       JoinMineStep, TypingStep DEF Work
  <2>5. ASSUME NEW s \in Socket, NEW c \in Conversation,
               AskJoin(s, c) \/ CheckJoin(s, c) \/ CheckFails(s, c) \/ EndJoin(s, c)
               \/ Leave(s, c)
        PROVE  Inv'
    BY <1>2, <2>5, AskJoinStep, CheckStep, EndJoinStep, LeaveStep
  <2>6. ASSUME NEW c \in Conversation, Create(c) PROVE Inv'
    BY <1>2, <2>6, CreateStep
  <2>7. CASE UNCHANGED vars
    BY <1>2, <2>7, Stutter
  <2> QED
    BY <1>2, <2>1, <2>2, <2>3, <2>4, <2>5, <2>6, <2>7 DEF Next
<1> QED
  BY <1>1, <1>2, PTL DEF Spec

\* The server's variables keep their types: the buckets never fall below zero or hold more
\* than their capacity (ChatTypingThrottle).
THEOREM TypeCorrect == Spec => []TypeOK
<1>1. Inv => TypeOK
  BY DEF Inv
<1> QED
  BY <1>1, Invariance, PTL

\* Whatever order sockets open and close in, an open one was told last of every user what is
\* so (index.ts).
THEOREM ToldTruly == Spec => []ToldTheTruth
<1>1. Inv => ToldTheTruth
  BY DEF Inv
<1> QED
  BY <1>1, Invariance, PTL

\* Sockets are in the rooms they should be in, however leaves, disconnects, queries and joins
\* interleave (chat.handler.ts).
THEOREM RoomsKept == Spec => []RoomsAsAsked
<1>1. Inv => RoomsAsAsked
  BY DEF Inv, Members, RoomsAsAsked
<1> QED
  BY <1>1, Invariance, PTL

\* A socket's typing events are relayed at no more than the bucket's burst and rate, in every
\* stretch of time (chat.realtime.ts).
THEOREM Throttled == Spec => []ThrottleBound
<1>1. Inv => ThrottleBound
  BY DEF Inv, Bucket, ThrottleBound
<1> QED
  BY <1>1, Invariance, PTL
=============================================================================
