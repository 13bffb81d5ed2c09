-------------------------- MODULE ModerationProofs --------------------------
(***************************************************************************)
(* Theorems about Moderation, for any calls, users, rows and admins.       *)
(* Every step is one of a call c.  What it may do to the other calls is    *)
(* the same for all actions (lemma Others); each action then has a lemma   *)
(* for the rows and for c itself.                                          *)
(***************************************************************************)
EXTENDS Moderation, FiniteSetTheorems, TLAPS

\* The part of LastDecisionStands about call c.
Stands(c) ==
    \A id \in decided[c] :
        Alone(c, id) /\ Present(c, id)
            => \A col \in DOMAIN Asked(c) : decision[id][col] = Asked(c)[col]

\* The part of ErasedGone about call c.
Gone(c) ==
    Is(c, {"erase"}) /\ outcome[c] = "ok" =>
        \A row \in rows :
            /\ row.profile # request[c].user
            /\ row.customer = request[c].user => row.id \in Call \ before[c]

Self(c) ==
    Way(c) /\ Counting(c) /\ Logging(c) /\ Deciding(c) /\ Erasing(c) /\ Stands(c) /\ Gone(c)

LEMMA InvParts ==
  Inv <=> /\ TypeOK /\ OnePerPair /\ Rows /\ ContactOnce
          /\ \A c \in Call : Self(c)
BY DEF Inv, Self, Stands, Gone, LastDecisionStands, ErasedGone

\* What a step of c leaves alone: the other calls, and what all ask.
Frame(c) ==
    /\ request' = request
    /\ \A d \in Call \ {c} :
          /\ pc'[d] = pc[d] /\ at'[d] = at[d] /\ instance'[d] = instance[d]
          /\ processed'[d] = processed[d] /\ failed'[d] = failed[d] /\ doomed'[d] = doomed[d]
          /\ outcome'[d] = outcome[d] /\ decided'[d] = decided[d] /\ before'[d] = before[d]
    /\ pc[c] # "done" /\ pc'[c] # "start"
    /\ pc[c] = "insert_visit" => pc'[c] = "done"

\* A row that a step of c adds is its own, and no erasure has its profile.
Adds(c) ==
    \A r \in rows' \ rows :
        /\ r.id = c /\ r.table \in Marks
        /\ Profile(r.profile) \in rows /\ Free(Profile(r.profile))

\* A decision that a step of c changes is on an item that is there, or new.
Decides(c) ==
    \A id \in Item : decision'[id] # decision[id] =>
        \/ id = c
        \/ DecidesOn(c, request[c].table, id) /\ Present(c, id)

LEMMA Requests ==
  ASSUME TypeOK, NEW c \in Call
  PROVE  IsRequest(request[c])
BY RequestAssumption DEF TypeOK

LEMMA ProfileRow ==
  ASSUME NEW u \in User
  PROVE  /\ Profile(u) \in Row /\ Profile(u).profile = u /\ Profile(u).table = "profiles"
         /\ Profile(u).id = u /\ Profile(u).customer = Null
BY DEF Profile, Row, Item

\* A profile and a review have different ids.
LEMMA OneTable ==
  ASSUME TypeOK, Rows, NEW q \in rows, NEW r \in rows,
         q.table \in {"profiles", "reviews"}, r.table \in {"profiles", "reviews"}, q.id = r.id
  PROVE  q.table = r.table
<1>1. q.profile \in User /\ r.profile \in User
  BY DEF TypeOK, Row
<1>2. q.table = "profiles" => q.id \in User
  BY <1>1, ProfileRow DEF Rows
<1>3. r.table = "profiles" => r.id \in User
  BY <1>1, ProfileRow DEF Rows
<1>4. /\ q.table = "reviews" => q.id \in Old \cup Call
      /\ r.table = "reviews" => r.id \in Old \cup Call
  BY DEF Rows
<1> QED
  BY <1>2, <1>3, <1>4, ItemAssumption

-----------------------------------------------------------------------------

\* A step of c keeps the invariant of every other call d.
LEMMA Others ==
  ASSUME Inv, NEW c \in Call, NEW d \in Call \ {c}, Frame(c), Adds(c), Decides(c)
  PROVE  Self(d)'
<1>1. Self(d) /\ Self(c) /\ TypeOK /\ Rows /\ IsRequest(request[d])
  BY InvParts, Requests
<1>2. /\ pc'[d] = pc[d] /\ at'[d] = at[d] /\ instance'[d] = instance[d]
      /\ processed'[d] = processed[d] /\ failed'[d] = failed[d] /\ doomed'[d] = doomed[d]
      /\ outcome'[d] = outcome[d] /\ decided'[d] = decided[d] /\ before'[d] = before[d]
      /\ request' = request
  BY DEF Frame
<1>3. c \notin before[d] /\ pc[c] # "done"
  BY <1>1 DEF Self, Way, Frame
<1>4. \A e \in Call : pc[e] = "done" => pc'[e] = "done"
  BY <1>3 DEF Frame
<1>5. before[d] \subseteq Call
  BY <1>1 DEF TypeOK
<1>6. Way(d)'
  BY <1>1, <1>2, <1>4, <1>5 DEF Self, Way, Is
<1>7. Counting(d)'
  BY <1>1, <1>2 DEF Self, Counting, Is
<1>8. Logging(d)'
  BY <1>1, <1>2, <1>3 DEF Self, Logging, Own, Same, Is, Adds
<1>9. ASSUME NEW id \in Item, id # c, request[d].table \in {"profiles", "reviews"},
             Alone(d, id)', Present(d, id)'
      PROVE  Alone(d, id) /\ Present(d, id) /\ decision'[id] = decision[id]
  <2>1. Present(d, id)
    BY <1>2, <1>9 DEF Present, Adds
  <2>2. \A e \in Call \ {d} :
           DecidesOn(e, request[d].table, id) => pc'[e] = "start" \/ e \in before[d]
    BY <1>2, <1>9 DEF Alone, DecidesOn, Is
  <2>3. \A e \in Call \ {c, d} : pc'[e] = pc[e]
    BY DEF Frame
  <2>4. ~DecidesOn(c, request[d].table, id)
    BY <1>3, <2>2 DEF Frame
  <2>5. Alone(d, id)
    BY <2>2, <2>3, <2>4 DEF Alone
  <2>6. ~(DecidesOn(c, request[c].table, id) /\ Present(c, id))
    <3>1. SUFFICES ASSUME DecidesOn(c, request[c].table, id), Present(c, id) PROVE FALSE
      OBVIOUS
    <3>2. request[c].table \in {"profiles", "reviews"}
      BY <1>1, Requests DEF IsRequest
    <3>3. request[c].table = request[d].table
      BY <1>1, <1>9, <2>1, <3>1, <3>2, OneTable DEF Present
    <3> QED
      BY <2>4, <3>1, <3>3
  <2>7. decision'[id] = decision[id]
    BY <1>9, <2>6 DEF Decides
  <2> QED
    BY <2>1, <2>5, <2>7
<1>10. request[d].table \in {"profiles", "reviews"}
  BY <1>1 DEF IsRequest
<1>11. Asked(d)' = Asked(d) /\ Chosen(d)' = Chosen(d)
  BY <1>2 DEF Asked, Chosen
<1>12. Deciding(d)'
  <2>1. ASSUME pc[d] = "write"
        PROVE  /\ Chosen(d) \in Item /\ Chosen(d) # c
               /\ Chosen(d) \in Call => pc'[Chosen(d)] = "done"
    <3>1. Is(d, {"decide"}) /\ at[d] < Len(request[d].ids) /\ at[d] \in Nat
      BY <1>1, <2>1 DEF Self, Way, Counting, TypeOK
    <3>2. Chosen(d) \in Item
      BY <1>1, <3>1 DEF IsRequest, Chosen
    <3>3. Chosen(d) \in Call => pc[Chosen(d)] = "done"
      BY <1>1, <2>1 DEF Self, Deciding
    <3> QED
      BY <1>3, <1>4, <3>2, <3>3
  <2>2. ASSUME pc[d] = "write", Alone(d, Chosen(d))', Present(d, Chosen(d))'
        PROVE  instance[d] = decision'[Chosen(d)]
    <3>1. /\ Alone(d, Chosen(d)) /\ Present(d, Chosen(d))
          /\ decision'[Chosen(d)] = decision[Chosen(d)]
      <4>1. Alone(d, Chosen(d))' <=> \A e \in Call \ {d} :
               DecidesOn(e, request[d].table, Chosen(d)) => pc'[e] = "start" \/ e \in before[d]
        BY <1>2, <1>11 DEF Alone, DecidesOn, Is
      <4>2. Present(d, Chosen(d))' <=>
               \E row \in rows' : row.table = request[d].table /\ row.id = Chosen(d)
        BY <1>2, <1>11 DEF Present
      <4> DEFINE id == Chosen(d)
      <4>3. id \in Item /\ id # c
        BY <2>1, <2>2
      <4> HIDE DEF id
      <4>4. ASSUME NEW x, x = id PROVE Alone(d, x)' /\ Present(d, x)'
        BY <1>2, <2>2, <4>1, <4>2, <4>4 DEF id, Alone, DecidesOn, Is, Present
      <4>5. PICK x \in Item : x = id
        BY <4>3
      <4>6. Alone(d, x)' /\ Present(d, x)' /\ x # c
        BY <4>3, <4>4, <4>5
      <4>7. Alone(d, x) /\ Present(d, x) /\ decision'[x] = decision[x]
        BY <1>9, <1>10, <4>6
      <4> QED
        BY <4>5, <4>7 DEF id
    <3> QED
      BY <1>1, <2>2, <3>1 DEF Self, Deciding
  <2>3. \A id \in decided[d] \cap Call : pc'[id] = "done"
    BY <1>1, <1>4 DEF Self, Deciding
  <2> QED
    BY <1>2, <1>11, <2>1, <2>2, <2>3 DEF Deciding
<1>13. Stands(d)'
  <2>1. SUFFICES ASSUME NEW id \in decided[d], Alone(d, id)', Present(d, id)',
                        NEW col \in DOMAIN Asked(d)
                 PROVE  decision'[id][col] = Asked(d)[col]
    BY <1>2, <1>11 DEF Stands
  <2>2. id \in Item /\ id # c
    BY <1>1, <1>3 DEF TypeOK, Self, Deciding
  <2>3. Alone(d, id) /\ Present(d, id) /\ decision'[id] = decision[id]
    BY <1>9, <1>10, <2>1, <2>2
  <2> QED
    BY <1>1, <2>1, <2>3 DEF Self, Stands
<1>14. Erasing(d)'
  <2> DEFINE u == request[d].user
  <2>0. u \in User
    BY <1>1 DEF IsRequest
  <2>1. ASSUME NEW p \in User, Profile(p) \in doomed[d], NEW row \in rows', row.profile = p
        PROVE  row \in doomed[d]
    <3>1. CASE row \in rows
      BY <1>1, <2>1, <3>1 DEF Self, Erasing
    <3>2. CASE row \notin rows
      BY <2>1, <3>2 DEF Adds, Free
    <3> QED
      BY <3>1, <3>2
  <2>2. Profile(u) \in rows' => Profile(u) \in rows
    BY <2>0, ProfileRow DEF Adds, Marks
  <2>3. ASSUME NEW row \in rows', row \notin rows PROVE row.id \in Call \ before[d]
    BY <1>3, <2>3 DEF Adds
  <2> QED
    BY <1>1, <1>2, <2>1, <2>2, <2>3 DEF Self, Erasing, Statements
<1>15. Gone(d)'
  <2>1. SUFFICES ASSUME Is(d, {"erase"}), outcome[d] = "ok", NEW row \in rows'
                 PROVE  /\ row.profile # request[d].user
                        /\ row.customer = request[d].user => row.id \in Call \ before[d]
    BY <1>2 DEF Gone, Is
  <2>2. CASE row \in rows
    BY <1>1, <2>1, <2>2 DEF Self, Gone
  <2>3. CASE row \notin rows
    <3>1. row.id = c /\ Profile(row.profile) \in rows
      BY <2>3 DEF Adds
    <3>2. Profile(row.profile).profile = row.profile
      BY DEF Profile
    <3> QED
      BY <1>1, <1>3, <2>1, <3>1, <3>2 DEF Self, Gone
  <2> QED
    BY <2>2, <2>3
<1> QED
  BY <1>6, <1>7, <1>8, <1>12, <1>13, <1>14, <1>15 DEF Self

LEMMA Together ==
  ASSUME Inv, NEW c \in Call, Frame(c), Adds(c), Decides(c),
         TypeOK', OnePerPair', Rows', ContactOnce', Self(c)'
  PROVE  Inv'
<1>1. ASSUME NEW d \in Call PROVE Self(d)'
  BY Others
<1> QED
  BY <1>1 DEF Inv, Self, Stands, Gone, LastDecisionStands, ErasedGone

\* A step of c that neither adds nor removes a row.
LEMMA SameRows ==
  ASSUME Inv, NEW c \in Call, Frame(c), rows' = rows, Decides(c),
         before'[c] = before[c] \/ pc[c] = "start",
         TypeOK', Self(c)'
  PROVE  Inv'
<1>1. TypeOK /\ OnePerPair /\ Rows /\ ContactOnce
  BY DEF Inv
<1>2. \A d \in Call \ {c} : pc'[d] = pc[d] /\ before'[d] = before[d]
  BY DEF Frame
<1>3. \A r \in rows : r.id = c => pc[c] # "start"
  BY <1>1 DEF Rows
<1>4. \A r \in rows : r.table = "contacts" => r.id \in Call
  BY <1>1 DEF Rows
<1>5. ContactOnce'
  BY <1>1, <1>2, <1>3, <1>4 DEF ContactOnce
<1>6. Rows'
  <2>1. ASSUME NEW r \in rows, r.id \in Call
        PROVE  /\ pc'[r.id] \in {"insert_visit", "done"}
               /\ r.table = "reviews" => pc'[r.id] = "done"
    <3>1. CASE r.id = c
      BY <1>1, <2>1, <3>1 DEF Rows, Frame
    <3>2. CASE r.id # c
      BY <1>1, <1>2, <2>1, <3>2 DEF Rows
    <3> QED
      BY <3>1, <3>2
  <2> QED
    BY <1>1, <2>1 DEF Rows
<1>7. OnePerPair' /\ Adds(c)
  BY <1>1 DEF OnePerPair, Adds
<1> QED
  BY <1>5, <1>6, <1>7, Together

\* A step of c that changes neither rows nor decisions.
LEMMA Quiet ==
  ASSUME Inv, NEW c \in Call, Frame(c), rows' = rows, decision' = decision,
         before'[c] = before[c] \/ pc[c] = "start",
         TypeOK', Self(c)'
  PROVE  Inv'
<1>1. Decides(c)
  BY DEF Decides
<1> QED
  BY <1>1, SameRows

LEMMA NotDecide ==
  ASSUME Inv, NEW c \in Call, Frame(c), ~Is(c, {"decide"}),
         pc'[c] # "write", decided'[c] = decided[c]
  PROVE  Counting(c)' /\ Deciding(c)' /\ Stands(c)'
<1>1. decided[c] = {}
  BY DEF Inv, Way
<1> QED
  BY <1>1 DEF Frame, Counting, Deciding, Stands, Is

LEMMA NotErase ==
  ASSUME Inv, NEW c \in Call, Frame(c), ~Is(c, {"erase"}),
         pc'[c] \notin {"delete", "commit"}, doomed'[c] = doomed[c]
  PROVE  Erasing(c)' /\ Gone(c)' /\ doomed[c] = {}
<1>1. doomed[c] = {}
  BY DEF Inv, Way, Erasing
<1> QED
  BY <1>1 DEF Frame, Erasing, Gone, Is

\* What an action of the customers' calls keeps, Logging apart.
LEMMA Neither ==
  ASSUME Inv, NEW c \in Call, Frame(c), ~Is(c, {"decide", "erase"}),
         pc'[c] \notin {"read", "write", "delete", "commit"}, decided'[c] = decided[c],
         doomed'[c] = doomed[c], Way(c)', Logging(c)'
  PROVE  Self(c)'
BY NotDecide, NotErase DEF Self, Is

LEMMA FirstQueries ==
  /\ \A k \in {"review", "add", "contact", "visit"} : First[k] = "find_profile"
  /\ First["remove"] = "remove" /\ First["decide"] = "read" /\ First["erase"] = "find_user"
BY DEF First

-----------------------------------------------------------------------------

LEMMA Initially == Init => Inv
<1> SUFFICES ASSUME Init PROVE Inv
  OBVIOUS
<1>1. PICK t \in Table : rows = t.rows /\ decision = t.decision
  BY DEF Init
<1>2. /\ t.rows \subseteq Row /\ OneEach(t.rows)
      /\ \A r \in t.rows : \/ r = Profile(r.profile)
                           \/ r.table = "reviews" /\ r.id \in Old /\ Profile(r.profile) \in t.rows
      /\ t.decision \in [Item -> Decision]
  BY TableAssumption
<1>3. Undecided \in Decision
  BY DEF Undecided, Decision, Column
<1>4. TypeOK
  BY <1>1, <1>2, <1>3 DEF Init, TypeOK, Label, Outcomes
<1>5. ASSUME NEW r \in rows
      PROVE  /\ Profile(r.profile) \in rows /\ r.id \notin Call
             /\ r.table = "profiles" => r = Profile(r.profile)
             /\ r.table = "reviews" => r.id \in Old
             /\ r.table \notin {"favourites", "contacts", "visits"}
  <2>1. r \in t.rows /\ r.profile \in User
    BY <1>1, <1>2 DEF Row
  <2>2. /\ Profile(r.profile).table = "profiles" /\ Profile(r.profile).id = r.profile
        /\ Profile(r.profile).profile = r.profile
    BY <2>1, ProfileRow
  <2> QED
    BY <1>1, <1>2, <2>1, <2>2, ItemAssumption
<1>6. Rows
  BY <1>5 DEF Rows
<1>7. OnePerPair /\ ContactOnce
  BY <1>1, <1>2, <1>5 DEF OnePerPair, ContactOnce
<1>8. ASSUME NEW c \in Call PROVE Self(c)
  <2>1. /\ pc[c] = "start" /\ before[c] = {} /\ at[c] = 0 /\ processed[c] = 0 /\ failed[c] = 0
        /\ decided[c] = {} /\ doomed[c] = {} /\ outcome[c] = "none"
    BY DEF Init
  <2>2. IsFiniteSet({}) /\ Cardinality({}) = 0
    BY FS_EmptySet
  <2>3. Is(c, {"decide"}) => Len(request[c].ids) > 0
    <3>1. request[c].ids \in Seq(Item) /\ (Is(c, {"decide"}) => request[c].ids # << >>)
      BY <1>4, Requests DEF IsRequest, Is
    <3> QED
      BY <3>1
  <2> QED
    BY <2>1, <2>2, <2>3 DEF Self, Way, Counting, Logging, Deciding, Erasing, Stands, Gone
<1> QED
  BY <1>4, <1>6, <1>7, <1>8, InvParts

LEMMA ArriveStep ==
  ASSUME Inv, NEW c \in Call, Arrive(c)
  PROVE  Inv'
<1> USE DEF Goto, Return
<1>1. TypeOK /\ Self(c) /\ IsRequest(request[c]) /\ pc[c] = "start"
  BY InvParts, Requests DEF Arrive
<1>2. /\ UNCHANGED <<rows, decision, request, at, instance, processed, failed, doomed, decided>>
      /\ before' = [before EXCEPT ![c] = {d \in Call : pc[d] = "done"}]
  BY DEF Arrive
<1>3. \/ /\ Is(c, {"review"}) /\ pc' = [pc EXCEPT ![c] = "done"]
         /\ outcome' = [outcome EXCEPT ![c] = "forbidden"]
      \/ pc' = [pc EXCEPT ![c] = First[request[c].kind]] /\ outcome' = outcome
  BY DEF Arrive
<1>4. First[request[c].kind] \in Label \ {"start"}
  BY <1>1, FirstQueries DEF IsRequest, Kind, Label
<1>5. Frame(c)
  BY <1>1, <1>2, <1>3, <1>4 DEF Frame, TypeOK
<1>6. TypeOK'
  BY <1>1, <1>2, <1>3, <1>4 DEF TypeOK, Label, Outcomes
<1>7. /\ before'[c] = {d \in Call : pc[d] = "done"}
      /\ \/ pc'[c] = First[request[c].kind] /\ outcome'[c] = "none"
         \/ Is(c, {"review"}) /\ pc'[c] = "done" /\ outcome'[c] = "forbidden"
  <2>1. pc \in [Call -> Label] /\ outcome \in [Call -> Outcomes] /\ before \in [Call -> SUBSET Call]
    BY <1>1 DEF TypeOK
  <2>2. outcome[c] = "none"
    BY <1>1 DEF Self, Way
  <2>3. before'[c] = {d \in Call : pc[d] = "done"}
    BY <1>2, <2>1
  <2>4. \/ pc'[c] = First[request[c].kind] /\ outcome'[c] = "none"
        \/ Is(c, {"review"}) /\ pc'[c] = "done" /\ outcome'[c] = "forbidden"
    BY <1>3, <2>1, <2>2
  <2> QED
    BY <2>3, <2>4
<1>8. Way(c)'
  <2>1. \A d \in before'[c] : pc'[d] = "done"
    BY <1>1, <1>5, <1>7 DEF Frame
  <2>2. decided[c] = {}
    BY <1>1 DEF Self, Way
  <2>3. request[c].kind \in Kind
    BY <1>1 DEF IsRequest
  <2>4. \/ pc'[c] = "find_profile" /\ Is(c, {"review", "add", "contact", "visit"})
        \/ pc'[c] = "remove" /\ Is(c, {"remove"})
        \/ pc'[c] = "read" /\ Is(c, {"decide"})
        \/ pc'[c] = "find_user" /\ Is(c, {"erase"})
        \/ pc'[c] = "done"
    BY <1>7, <2>3, FirstQueries DEF Is, Kind
  <2> QED
    BY <1>2, <1>7, <2>1, <2>2, <2>4 DEF Way, Is
<1>9. pc'[c] \notin {"insert", "write", "delete", "commit"} /\ (Is(c, {"decide"}) => pc'[c] = "read")
  BY <1>1, <1>7, FirstQueries DEF IsRequest, Kind, Is
<1>10. Self(c)'
  BY <1>1, <1>2, <1>7, <1>8, <1>9
     DEF Self, Way, Counting, Logging, Deciding, Erasing, Stands, Gone, Is
<1> QED
  BY <1>1, <1>2, <1>5, <1>6, <1>10, Quiet

LEMMA FindProfileStep ==
  ASSUME Inv, NEW c \in Call, FindProfile(c)
  PROVE  Inv'
<1> USE DEF Goto, Return
<1>1. TypeOK /\ Self(c) /\ pc[c] = "find_profile"
  BY InvParts DEF FindProfile
<1>2. UNCHANGED <<rows, decision, request, at, instance, processed, failed, doomed, decided, before>>
  BY DEF FindProfile
<1>3. \/ pc' = [pc EXCEPT ![c] = "done"] /\ outcome' = [outcome EXCEPT ![c] = "not_found"]
      \/ /\ pc' = [pc EXCEPT ![c] = IF Is(c, {"visit"}) THEN "insert_visit" ELSE "find_own"]
         /\ outcome' = outcome
  BY DEF FindProfile
<1>4. Frame(c) /\ TypeOK'
  BY <1>1, <1>2, <1>3 DEF Frame, TypeOK, Label, Outcomes
<1>5. Way(c)'
  <2>1. \A d \in before[c] : pc'[d] = "done"
    BY <1>1, <1>4 DEF Self, Way, Frame, TypeOK
  <2> QED
    BY <1>1, <1>2, <1>3, <2>1 DEF Self, Way, TypeOK, Is
<1>6. Logging(c)' /\ pc'[c] \notin {"read", "write", "delete", "commit"}
  BY <1>1, <1>3 DEF Logging, TypeOK
<1>7. ~Is(c, {"decide", "erase"})
  BY <1>1 DEF Self, Way, Is
<1>8. Self(c)'
  BY <1>2, <1>4, <1>5, <1>6, <1>7, Neither
<1> QED
  BY <1>2, <1>4, <1>8, Quiet

LEMMA FindOwnStep ==
  ASSUME Inv, NEW c \in Call, FindOwn(c)
  PROVE  Inv'
<1> USE DEF Goto, Return
<1>1. TypeOK /\ Self(c) /\ pc[c] = "find_own"
  BY InvParts DEF FindOwn
<1>2. UNCHANGED <<rows, decision, request, at, instance, processed, failed, doomed, decided, before>>
  BY DEF FindOwn
<1>3. \/ pc' = [pc EXCEPT ![c] = "done"] /\ outcome' = [outcome EXCEPT ![c] = "conflict"]
      \/ /\ Is(c, {"contact"}) /\ pc' = [pc EXCEPT ![c] = "insert_visit"] /\ outcome' = outcome
      \/ /\ Own(Into(c), c) = {} /\ pc' = [pc EXCEPT ![c] = "insert"] /\ outcome' = outcome
  BY DEF FindOwn
<1>4. Frame(c) /\ TypeOK'
  BY <1>1, <1>2, <1>3 DEF Frame, TypeOK, Label, Outcomes
<1>5. Way(c)'
  <2>1. \A d \in before[c] : pc'[d] = "done"
    BY <1>1, <1>4 DEF Self, Way, Frame, TypeOK
  <2> QED
    BY <1>1, <1>2, <1>3, <2>1 DEF Self, Way, TypeOK, Is
<1>6. Logging(c)'
  <2>1. SUFFICES ASSUME pc'[c] = "insert", Is(c, {"contact"})
                 PROVE  \A row \in Own("contacts", c) : row.id \notin before[c]
    BY <1>2 DEF Logging, Own, Same, Is
  <2>2. Own(Into(c), c) = {} /\ Into(c) = "contacts"
    BY <1>1, <1>3, <2>1 DEF TypeOK, Into, Is
  <2> QED
    BY <2>2
<1>7. ~Is(c, {"decide", "erase"}) /\ pc'[c] \notin {"read", "write", "delete", "commit"}
  BY <1>1, <1>3 DEF Self, Way, Is, TypeOK
<1>8. Self(c)'
  BY <1>2, <1>4, <1>5, <1>6, <1>7, Neither
<1> QED
  BY <1>2, <1>4, <1>8, Quiet

LEMMA FailsStep ==
  ASSUME Inv, NEW c \in Call, Fails(c)
  PROVE  Inv'
<1> USE DEF Return
<1>1. TypeOK /\ Self(c) /\ pc[c] \notin {"start", "done"}
      /\ ~(Is(c, {"decide"}) /\ request[c].bulk)
  BY InvParts DEF Fails
<1>2. /\ UNCHANGED <<rows, decision, request, at, instance, processed, failed, decided, before>>
      /\ doomed' = [doomed EXCEPT ![c] = {}] /\ pc' = [pc EXCEPT ![c] = "done"]
      /\ outcome' = [outcome EXCEPT ![c] = "error"]
  BY DEF Fails
<1>3. Frame(c) /\ TypeOK'
  BY <1>1, <1>2 DEF Frame, TypeOK, Label, Outcomes
<1>4. pc'[c] = "done" /\ outcome'[c] = "error" /\ doomed'[c] = {}
  BY <1>1, <1>2 DEF TypeOK
<1>5. Way(c)'
  <2>1. \A d \in before[c] : pc'[d] = "done"
    BY <1>1, <1>3, <1>4 DEF Self, Way, Frame, TypeOK
  <2> QED
    BY <1>1, <1>2, <1>4, <2>1 DEF Self, Way, Is
<1>6. Counting(c)' /\ Logging(c)' /\ Erasing(c)' /\ Gone(c)'
  BY <1>1, <1>2, <1>4 DEF Self, Counting, Logging, Erasing, Gone, Is
<1>7. \A d \in Call : pc[d] = "done" => pc'[d] = "done"
  BY <1>3, <1>4 DEF Frame
<1>8. Deciding(c)'
  BY <1>1, <1>2, <1>4, <1>7 DEF Self, Deciding
<1>9. Stands(c)'
  <2>1. ASSUME NEW id \in decided[c], Alone(c, id)' PROVE Alone(c, id)
    BY <1>2, <1>3, <2>1 DEF Alone, DecidesOn, Is, Frame
  <2> QED
    BY <1>1, <1>2, <2>1 DEF Self, Stands, Present, Asked
<1> QED
  BY <1>2, <1>3, <1>5, <1>6, <1>8, <1>9, Quiet DEF Self
-----------------------------------------------------------------------------

LEMMA IndexUnique ==
  ASSUME OnePerPair, NEW row, ~IndexRefuses(row)
  PROVE  OneEach(rows \cup {row})
BY DEF IndexRefuses

LEMMA InsertStep ==
  ASSUME Inv, NEW c \in Call, Insert(c)
  PROVE  Inv'
<1> USE DEF Goto, Return
<1> DEFINE row == New(Into(c), c)
<1>1. TypeOK /\ Self(c) /\ pc[c] = "insert" /\ Rows /\ ContactOnce /\ OnePerPair
      /\ IsRequest(request[c])
  BY InvParts, Requests DEF Insert
<1>2. /\ UNCHANGED <<request, at, instance, processed, failed, doomed, decided, before>>
      /\ Inserts(row)
      /\ \/ Taken(row) /\ Return(c, "error") /\ UNCHANGED <<rows, decision>>
         \/ /\ ~Taken(row) /\ rows' = rows \cup {row}
            /\ decision' = IF Is(c, {"review"}) THEN [decision EXCEPT ![c] = Undecided]
                             ELSE decision
            /\ IF Is(c, {"contact"}) THEN Goto(c, "insert_visit") ELSE Return(c, "ok")
  BY DEF Insert
<1>3. Is(c, {"review", "add", "contact"})
  BY <1>1 DEF Self, Way, Is
<1>4. /\ Into(c) \in {"reviews", "favourites", "contacts"}
      /\ Into(c) = "contacts" <=> Is(c, {"contact"})
      /\ Into(c) = "reviews" <=> Is(c, {"review"})
  BY <1>3 DEF Into, Is
<1>5. /\ row.table = Into(c) /\ row.id = c /\ row.customer = request[c].user
      /\ row.profile = request[c].profile /\ row \in Row
  BY <1>1, <1>3, <1>4 DEF New, Is, Row, Marks, Item, IsRequest
<1> HIDE DEF row
<1>6. /\ pc'[c] \in {"insert_visit", "done"} /\ pc' = [pc EXCEPT ![c] = pc'[c]]
      /\ pc'[c] = "insert_visit" => Is(c, {"contact"}) /\ outcome' = outcome
      /\ outcome' \in [Call -> Outcomes]
      /\ \A d \in Call \ {c} : outcome'[d] = outcome[d]
      /\ rows' # rows /\ ~Is(c, {"contact"}) => pc'[c] = "done"
  BY <1>1, <1>2 DEF TypeOK, Outcomes
<1>7. Frame(c)
  BY <1>1, <1>2, <1>6 DEF Frame, TypeOK
<1>8. Adds(c)
  <2>1. SUFFICES ASSUME NEW r \in rows', r \notin rows
                 PROVE  r.id = c /\ r.table \in Marks
                        /\ Profile(r.profile) \in rows /\ Free(Profile(r.profile))
    BY DEF Adds
  <2>2. r = row /\ ~Taken(row)
    BY <1>2, <2>1
  <2> QED
    BY <1>2, <1>4, <1>5, <2>2 DEF Taken, Inserts, Marks
<1>9. Decides(c)
  BY <1>1, <1>2 DEF Decides, TypeOK
<1>10. TypeOK'
  <2>1. Undecided \in Decision /\ c \in Item
    BY DEF Undecided, Decision, Column, Item
  <2>2. decision' \in [Item -> Decision]
    BY <1>1, <1>2, <2>1 DEF TypeOK
  <2>3. rows' \subseteq Row
    BY <1>1, <1>2, <1>5 DEF TypeOK
  <2>4. pc' \in [Call -> Label]
    BY <1>1, <1>6 DEF TypeOK, Label
  <2> QED
    BY <1>1, <1>2, <1>6, <2>2, <2>3, <2>4 DEF TypeOK
<1>11. OnePerPair'
  BY <1>1, <1>2 DEF OnePerPair, Taken, IndexRefuses
<1>12. Rows'
  <2>1. ASSUME NEW r \in rows, r.id \in Call
        PROVE  /\ pc'[r.id] \in {"insert_visit", "done"}
               /\ r.table = "reviews" => pc'[r.id] = "done"
    BY <1>1, <1>7, <2>1 DEF Rows, Frame
  <2>2. ASSUME rows' # rows
        PROVE  /\ Profile(row.profile) \in rows /\ row.id \in Call
               /\ row.table \in {"reviews", "favourites", "contacts"}
               /\ pc'[row.id] \in {"insert_visit", "done"}
               /\ row.table = "reviews" => pc'[row.id] = "done"
    BY <1>2, <1>4, <1>5, <1>6, <2>2 DEF Taken, Is
  <2>3. rows' = rows \/ rows' = rows \cup {row}
    BY <1>2
  <2> QED
    BY <1>1, <2>1, <2>2, <2>3 DEF Rows
<1>13. ContactOnce'
  <2>1. SUFFICES ASSUME NEW r \in rows', NEW q \in rows',
                        r.table = "contacts", q.table = "contacts",
                        r.customer = q.customer, r.profile = q.profile
                 PROVE  r.id \notin before[q.id]
    BY <1>2 DEF ContactOnce
  <2>2. \A d \in Call : c \notin before[d]
    BY <1>1, InvParts DEF Self, Way
  <2>3. CASE r \notin rows
    <3>1. r.id = c /\ q.id \in Call
      BY <1>8, <1>1, <2>1, <2>3 DEF Adds, Rows
    <3> QED
      BY <2>2, <3>1
  <2>4. CASE r \in rows /\ q \notin rows
    <3>1. q = row
      BY <1>2, <2>1, <2>4
    <3>2. r \in Own("contacts", c) /\ Is(c, {"contact"})
      BY <1>4, <1>5, <2>1, <2>4, <3>1 DEF Own, Same
    <3> QED
      BY <1>1, <1>5, <3>1, <3>2 DEF Self, Logging
  <2>5. CASE r \in rows /\ q \in rows
    BY <1>1, <2>1, <2>5 DEF ContactOnce
  <2> QED
    BY <2>3, <2>4, <2>5
<1>14. Way(c)'
  <2>1. \A d \in before[c] : pc'[d] = "done"
    BY <1>1, <1>7 DEF Self, Way, Frame, TypeOK
  <2> QED
    BY <1>1, <1>2, <1>6, <2>1 DEF Self, Way, Is
<1>15. Self(c)'
  <2>1. Logging(c)'
    BY <1>6 DEF Logging
  <2> QED
    BY <1>2, <1>3, <1>6, <1>7, <1>14, <2>1, Neither DEF Is
<1> QED
  BY <1>7, <1>8, <1>9, <1>10, <1>11, <1>12, <1>13, <1>15, Together

LEMMA InsertVisitStep ==
  ASSUME Inv, NEW c \in Call, InsertVisit(c)
  PROVE  Inv'
<1> USE DEF Goto, Return
<1> DEFINE row == New("visits", c)
<1>1. TypeOK /\ Self(c) /\ pc[c] = "insert_visit" /\ Rows /\ ContactOnce /\ OnePerPair
      /\ IsRequest(request[c])
  BY InvParts, Requests DEF InsertVisit
<1>2. /\ UNCHANGED <<decision, request, at, instance, processed, failed, doomed, decided, before>>
      /\ Free(Profile(row.profile))
      /\ \/ Return(c, "error") /\ UNCHANGED rows
         \/ /\ Profile(row.profile) \in rows /\ rows' = rows \cup {row} /\ Return(c, "ok")
  BY DEF InsertVisit
<1>3. row.table = "visits" /\ row.id = c /\ row \in Row
  BY <1>1 DEF New, Is, Row, Marks, Item, IsRequest
<1> HIDE DEF row
<1>4. /\ pc' = [pc EXCEPT ![c] = "done"] /\ pc'[c] = "done"
      /\ outcome' \in [Call -> Outcomes]
      /\ \A d \in Call \ {c} : outcome'[d] = outcome[d]
  BY <1>1, <1>2 DEF TypeOK, Outcomes
<1>5. Frame(c)
  BY <1>1, <1>2, <1>4 DEF Frame, TypeOK
<1>6. Adds(c) /\ Decides(c)
  BY <1>2, <1>3 DEF Adds, Marks, Decides
<1>7. TypeOK'
  <2>1. rows' \subseteq Row
    BY <1>1, <1>2, <1>3 DEF TypeOK
  <2>2. pc' \in [Call -> Label]
    BY <1>1, <1>4 DEF TypeOK, Label
  <2> QED
    BY <1>1, <1>2, <1>4, <2>1, <2>2 DEF TypeOK
<1>8. OnePerPair' /\ ContactOnce'
  <2>1. \A r \in rows' : r.table # "visits" => r \in rows
    BY <1>2, <1>3
  <2> QED
    BY <1>1, <1>2, <2>1 DEF OnePerPair, OneEach, ContactOnce
<1>9. Rows'
  <2>1. \A r \in rows : r.id \in Call => pc'[r.id] \in {"insert_visit", "done"}
                                         /\ (r.table = "reviews" => pc'[r.id] = "done")
    BY <1>1, <1>4, <1>5 DEF Rows, Frame
  <2>2. \/ rows' = rows
        \/ Profile(row.profile) \in rows /\ rows' = rows \cup {row}
    BY <1>2
  <2> QED
    BY <1>1, <1>3, <1>4, <2>1, <2>2 DEF Rows
<1>10. Way(c)'
  <2>1. \A d \in before[c] : pc'[d] = "done"
    BY <1>1, <1>4, <1>5 DEF Self, Way, Frame, TypeOK
  <2> QED
    BY <1>1, <1>2, <1>4, <2>1 DEF Self, Way, Is
<1>11. Self(c)'
  <2>1. Logging(c)' /\ ~Is(c, {"decide", "erase"})
    BY <1>1, <1>4 DEF Logging, Self, Way, Is
  <2> QED
    BY <1>2, <1>4, <1>5, <1>10, <2>1, Neither
<1> QED
  BY <1>5, <1>6, <1>7, <1>8, <1>9, <1>11, Together

LEMMA RemoveStep ==
  ASSUME Inv, NEW c \in Call, Remove(c)
  PROVE  Inv'
<1> USE DEF Goto, Return
<1>1. TypeOK /\ Self(c) /\ pc[c] = "remove" /\ Rows /\ ContactOnce /\ OnePerPair
  BY InvParts DEF Remove
<1>2. /\ UNCHANGED <<decision, request, at, instance, processed, failed, doomed, decided, before>>
      /\ rows' = rows \ Own("favourites", c)
      /\ pc' = [pc EXCEPT ![c] = "done"]
      /\ \E o \in {"not_found", "ok"} : outcome' = [outcome EXCEPT ![c] = o]
  BY DEF Remove
<1>3. pc'[c] = "done" /\ outcome' \in [Call -> Outcomes]
      /\ \A d \in Call \ {c} : outcome'[d] = outcome[d]
  BY <1>1, <1>2 DEF TypeOK, Outcomes
<1>4. Frame(c) /\ Adds(c) /\ Decides(c)
  BY <1>1, <1>2, <1>3 DEF Frame, TypeOK, Adds, Decides
<1>5. TypeOK'
  <2>1. rows' \subseteq Row /\ pc' \in [Call -> Label]
    BY <1>1, <1>2 DEF TypeOK, Label
  <2> QED
    BY <1>1, <1>2, <1>3, <2>1 DEF TypeOK
<1>6. OnePerPair' /\ ContactOnce'
  BY <1>1, <1>2 DEF OnePerPair, OneEach, ContactOnce
<1>7. Rows'
  <2>1. \A r \in rows : Profile(r.profile) \in rows'
    BY <1>1, <1>2 DEF Rows, Own, Same, Profile
  <2>2. \A r \in rows : r.id \in Call => pc'[r.id] \in {"insert_visit", "done"}
                                         /\ (r.table = "reviews" => pc'[r.id] = "done")
    BY <1>1, <1>3, <1>4 DEF Rows, Frame
  <2> QED
    BY <1>1, <1>2, <2>1, <2>2 DEF Rows
<1>8. Way(c)'
  <2>1. \A d \in before[c] : pc'[d] = "done"
    BY <1>1, <1>3, <1>4 DEF Self, Way, Frame, TypeOK
  <2> QED
    BY <1>1, <1>2, <1>3, <2>1 DEF Self, Way, Is
<1>9. Self(c)'
  <2>1. Logging(c)' /\ ~Is(c, {"decide", "erase"})
    BY <1>1, <1>3 DEF Logging, Self, Way, Is
  <2> QED
    BY <1>2, <1>3, <1>4, <1>8, <2>1, Neither
<1> QED
  BY <1>4, <1>5, <1>6, <1>7, <1>9, Together
-----------------------------------------------------------------------------

LEMMA ChosenItem ==
  ASSUME Inv, NEW c \in Call, pc[c] \in {"read", "write"}
  PROVE  /\ Is(c, {"decide"}) /\ Chosen(c) \in Item /\ IsRequest(request[c])
         /\ at[c] \in Nat /\ Len(request[c].ids) \in Nat /\ at[c] < Len(request[c].ids)
         /\ DecidesOn(c, request[c].table, Chosen(c))
<1>1. Is(c, {"decide"}) /\ TypeOK /\ IsRequest(request[c]) /\ at[c] \in Nat
  BY Requests DEF Inv, Way, TypeOK
<1>2. at[c] < Len(request[c].ids)
  BY <1>1 DEF Inv, Counting
<1>3. request[c].ids \in Seq(Item) /\ Len(request[c].ids) \in Nat
  BY <1>1 DEF IsRequest
<1>4. at[c] + 1 \in 1 .. Len(request[c].ids)
  BY <1>1, <1>2, <1>3
<1>5. request[c].ids[at[c] + 1] \in Item
  BY <1>3, <1>4
<1>6. DecidesOn(c, request[c].table, Chosen(c))
  BY <1>1, <1>4 DEF DecidesOn, Chosen
<1> QED
  BY <1>1, <1>2, <1>3, <1>5, <1>6 DEF Chosen

\* After an item c is at the next one or has answered, and its counts add up.
LEMMA CountedStep ==
  ASSUME Inv, NEW c \in Call, pc[c] \in {"read", "write"}, NEW ok \in BOOLEAN, Counted(c, ok),
         ok => pc[c] = "write",
         UNCHANGED <<request, instance, doomed, before>>
  PROVE  /\ Frame(c) /\ Way(c)' /\ Counting(c)' /\ Logging(c)' /\ Deciding(c)' /\ Erasing(c)'
         /\ Gone(c)'
         /\ pc' \in [Call -> Label] /\ at' \in [Call -> Nat] /\ processed' \in [Call -> Nat]
         /\ failed' \in [Call -> Nat] /\ outcome' \in [Call -> Outcomes]
         /\ decided' \in [Call -> SUBSET Item]
         /\ decided'[c] = IF ok THEN decided[c] \cup {Chosen(c)} ELSE decided[c]
<1> USE DEF Goto, Return
<1>1. TypeOK /\ Self(c)
  BY InvParts
<1>2. /\ Is(c, {"decide"}) /\ Chosen(c) \in Item /\ at[c] \in Nat
      /\ Len(request[c].ids) \in Nat /\ at[c] < Len(request[c].ids)
  BY ChosenItem
<1>3. /\ at' = [at EXCEPT ![c] = @ + 1]
      /\ processed' = [processed EXCEPT ![c] = IF ok THEN @ + 1 ELSE @]
      /\ failed' = [failed EXCEPT ![c] = IF ok THEN @ ELSE @ + 1]
      /\ decided' = [decided EXCEPT ![c] = IF ok THEN @ \cup {Chosen(c)} ELSE @]
  BY DEF Counted
<1>4. \/ /\ at[c] + 1 < Len(request[c].ids) /\ pc' = [pc EXCEPT ![c] = "read"]
         /\ outcome' = outcome
      \/ /\ ~(at[c] + 1 < Len(request[c].ids)) /\ pc' = [pc EXCEPT ![c] = "done"]
         /\ outcome' = [outcome EXCEPT ![c] = "ok"]
  BY DEF Counted
<1>5. /\ pc' \in [Call -> Label] /\ at' \in [Call -> Nat] /\ processed' \in [Call -> Nat]
      /\ failed' \in [Call -> Nat] /\ outcome' \in [Call -> Outcomes]
      /\ decided' \in [Call -> SUBSET Item]
  <2>1. pc' \in [Call -> Label] /\ outcome' \in [Call -> Outcomes]
    BY <1>1, <1>4 DEF TypeOK, Label, Outcomes
  <2>2. at' \in [Call -> Nat] /\ processed' \in [Call -> Nat] /\ failed' \in [Call -> Nat]
    BY <1>1, <1>3 DEF TypeOK
  <2>3. decided' \in [Call -> SUBSET Item]
    BY <1>1, <1>2, <1>3 DEF TypeOK
  <2> QED
    BY <2>1, <2>2, <2>3
<1>6. /\ at'[c] = at[c] + 1
      /\ processed'[c] = IF ok THEN processed[c] + 1 ELSE processed[c]
      /\ failed'[c] = IF ok THEN failed[c] ELSE failed[c] + 1
      /\ decided'[c] = IF ok THEN decided[c] \cup {Chosen(c)} ELSE decided[c]
      /\ processed[c] \in Nat /\ failed[c] \in Nat
  BY <1>1, <1>3 DEF TypeOK
<1>7. \/ at[c] + 1 < Len(request[c].ids) /\ pc'[c] = "read" /\ outcome'[c] = outcome[c]
      \/ at[c] + 1 = Len(request[c].ids) /\ pc'[c] = "done" /\ outcome'[c] = "ok"
  BY <1>1, <1>2, <1>4 DEF TypeOK
<1>8. Frame(c)
  BY <1>1, <1>3, <1>4 DEF Frame, TypeOK
<1>9. Way(c)'
  <2>1. \A d \in before[c] : pc'[d] = "done"
    BY <1>1, <1>8 DEF Self, Way, Frame, TypeOK
  <2> QED
    BY <1>1, <1>2, <1>7, <2>1 DEF Self, Way, Is
<1>10. Counting(c)'
  <2>1. processed[c] + failed[c] = at[c] /\ IsFiniteSet(decided[c])
        /\ Cardinality(decided[c]) <= processed[c]
    BY <1>1, <1>2 DEF Self, Counting
  <2>2. /\ IsFiniteSet(decided[c] \cup {Chosen(c)})
        /\ Cardinality(decided[c] \cup {Chosen(c)}) <= processed[c] + 1
        /\ Cardinality(decided[c]) \in Nat
    <3>1. /\ IsFiniteSet(decided[c] \cup {Chosen(c)}) /\ Cardinality(decided[c]) \in Nat
          /\ \/ Cardinality(decided[c] \cup {Chosen(c)}) = Cardinality(decided[c])
             \/ Cardinality(decided[c] \cup {Chosen(c)}) = Cardinality(decided[c]) + 1
      BY <2>1, FS_AddElement, FS_CardinalityType
    <3> QED
      BY <1>6, <2>1, <3>1
  <2>3. processed'[c] + failed'[c] = at'[c]
    BY <1>2, <1>6, <2>1
  <2>4. IsFiniteSet(decided'[c]) /\ Cardinality(decided'[c]) <= processed'[c]
    BY <1>6, <2>1, <2>2
  <2> QED
    BY <1>6, <1>7, <2>3, <2>4 DEF Counting, Is
<1>11. Deciding(c)'
  <2>1. \A d \in Call : pc[d] = "done" => pc'[d] = "done"
    BY <1>8 DEF Frame
  <2>2. \A id \in decided'[c] \cap Call : pc[id] = "done"
    BY <1>1, <1>6 DEF Self, Deciding
  <2> QED
    BY <1>7, <2>1, <2>2 DEF Deciding
<1>12. Erasing(c)' /\ Gone(c)' /\ Logging(c)'
  <2>1. ~Is(c, {"erase"}) /\ pc'[c] \notin {"delete", "commit", "insert"}
    BY <1>2, <1>7 DEF Is
  <2> QED
    BY <1>8, <2>1, NotErase DEF Logging
<1> QED
  BY <1>5, <1>6, <1>8, <1>9, <1>10, <1>11, <1>12

\* Who is alone on a row after a step of its own was alone on it before.
LEMMA AloneBefore ==
  ASSUME NEW c \in Call, NEW id, Frame(c), before' = before, Alone(c, id)'
  PROVE  Alone(c, id)
BY DEF Alone, DecidesOn, Is, Frame

\* A step of a call that decides on no row leaves what its decisions left.
LEMMA StandsKept ==
  ASSUME NEW c \in Call, Frame(c), Stands(c), decided'[c] = decided[c],
         UNCHANGED <<rows, decision, request, before>>
  PROVE  Stands(c)'
<1>1. SUFFICES ASSUME NEW id \in decided[c], Alone(c, id)', Present(c, id)'
               PROVE  \A col \in DOMAIN Asked(c)' : decision'[id][col] = Asked(c)'[col]
  BY DEF Stands
<1>2. Alone(c, id)
  BY <1>1, AloneBefore
<1>3. Present(c, id)
  BY <1>1 DEF Present
<1>4. \A col \in DOMAIN Asked(c) : decision[id][col] = Asked(c)[col]
  BY <1>1, <1>2, <1>3 DEF Stands
<1>5. Asked(c)' = Asked(c)
  BY DEF Asked
<1> QED
  BY <1>4, <1>5

LEMMA ItemFailsStep ==
  ASSUME Inv, NEW c \in Call, ItemFails(c)
  PROVE  Inv'
<1>1. /\ TypeOK /\ Self(c) /\ pc[c] \in {"read", "write"} /\ Counted(c, FALSE)
      /\ UNCHANGED <<rows, decision, request, instance, doomed, before>>
  BY InvParts DEF ItemFails
<1>2. /\ Frame(c) /\ Way(c)' /\ Counting(c)' /\ Logging(c)' /\ Deciding(c)' /\ Erasing(c)'
      /\ Gone(c)'
      /\ pc' \in [Call -> Label] /\ at' \in [Call -> Nat] /\ processed' \in [Call -> Nat]
      /\ failed' \in [Call -> Nat] /\ outcome' \in [Call -> Outcomes]
      /\ decided' \in [Call -> SUBSET Item] /\ decided'[c] = decided[c]
  BY <1>1, CountedStep
<1>3. TypeOK'
  BY <1>1, <1>2 DEF TypeOK
<1>4. Stands(c)'
  BY <1>1, <1>2, StandsKept DEF Self
<1> QED
  BY <1>1, <1>2, <1>3, <1>4, Quiet DEF Self

LEMMA ReadItemStep ==
  ASSUME Inv, NEW c \in Call, ReadItem(c)
  PROVE  Inv'
<1> USE DEF Goto, Return
<1>1. /\ TypeOK /\ Self(c) /\ Rows /\ pc[c] = "read"
      /\ UNCHANGED <<rows, decision, request, doomed, before>>
  BY InvParts DEF ReadItem
<1>2. /\ Is(c, {"decide"}) /\ Chosen(c) \in Item /\ IsRequest(request[c])
      /\ at[c] < Len(request[c].ids)
  BY <1>1, ChosenItem
<1>3. CASE /\ Found(c) # {} /\ instance' = [instance EXCEPT ![c] = decision[Chosen(c)]]
           /\ pc' = [pc EXCEPT ![c] = "write"]
           /\ UNCHANGED <<outcome, at, processed, failed, decided>>
  <2>1. Frame(c) /\ pc'[c] = "write" /\ instance'[c] = decision[Chosen(c)]
    BY <1>1, <1>3 DEF Frame, TypeOK
  <2>2. TypeOK'
    BY <1>1, <1>2, <1>3 DEF TypeOK, Label
  <2>3. \A d \in Call : pc[d] = "done" => pc'[d] = "done"
    BY <1>1, <2>1 DEF Frame
  <2>4. Way(c)'
    BY <1>1, <1>2, <1>3, <2>1, <2>3 DEF Self, Way, Is, TypeOK
  <2>5. Chosen(c) \in Call => pc[Chosen(c)] = "done"
    <3>1. PICK r \in rows : r.table = request[c].table /\ r.id = Chosen(c)
      BY <1>3 DEF Found
    <3>2. r.table \in {"profiles", "reviews"} /\ r.profile \in User
      BY <1>1, <1>2, <3>1 DEF IsRequest, TypeOK, Row
    <3>3. r.table = "profiles" => r.id \in User
      BY <1>1, <3>2, ProfileRow DEF Rows
    <3> QED
      BY <1>1, <3>1, <3>2, <3>3, ItemAssumption DEF Rows
  <2>6. Deciding(c)'
    BY <1>1, <1>3, <2>1, <2>3, <2>5 DEF Self, Deciding, Chosen
  <2>7. Counting(c)' /\ Logging(c)'
    BY <1>1, <1>2, <1>3, <2>1 DEF Self, Counting, Logging, Is
  <2>8. Erasing(c)' /\ Gone(c)'
    BY <1>1, <1>2, <2>1, NotErase DEF Is
  <2>9. Stands(c)'
    BY <1>1, <1>3, <2>1, StandsKept DEF Self
  <2> QED
    BY <1>1, <2>1, <2>2, <2>4, <2>6, <2>7, <2>8, <2>9, Quiet DEF Self
<1>4. CASE Counted(c, FALSE) /\ UNCHANGED instance
  <2>1. /\ Frame(c) /\ Way(c)' /\ Counting(c)' /\ Logging(c)' /\ Deciding(c)' /\ Erasing(c)'
        /\ Gone(c)'
        /\ pc' \in [Call -> Label] /\ at' \in [Call -> Nat] /\ processed' \in [Call -> Nat]
        /\ failed' \in [Call -> Nat] /\ outcome' \in [Call -> Outcomes]
        /\ decided' \in [Call -> SUBSET Item] /\ decided'[c] = decided[c]
    BY <1>1, <1>4, CountedStep
  <2>2. TypeOK'
    BY <1>1, <1>4, <2>1 DEF TypeOK
  <2>3. Stands(c)'
    BY <1>1, <2>1, StandsKept DEF Self
  <2> QED
    BY <1>1, <2>1, <2>2, <2>3, Quiet DEF Self
<1>5. CASE /\ ~request[c].bulk /\ pc' = [pc EXCEPT ![c] = "done"]
           /\ outcome' = [outcome EXCEPT ![c] = "not_found"]
           /\ UNCHANGED <<instance, at, processed, failed, decided>>
  <2>1. Frame(c) /\ pc'[c] = "done" /\ TypeOK'
    BY <1>1, <1>5 DEF Frame, TypeOK, Label, Outcomes
  <2>2. \A d \in Call : pc[d] = "done" => pc'[d] = "done"
    BY <1>1, <2>1 DEF Frame
  <2>3. Way(c)'
    BY <1>1, <1>2, <1>5, <2>1, <2>2 DEF Self, Way, Is, TypeOK
  <2>4. Deciding(c)'
    BY <1>1, <1>5, <2>1, <2>2 DEF Self, Deciding
  <2>5. Counting(c)' /\ Logging(c)'
    BY <1>1, <1>2, <1>5, <2>1 DEF Self, Counting, Logging, Is
  <2>6. Erasing(c)' /\ Gone(c)'
    BY <1>1, <1>2, <2>1, NotErase DEF Is
  <2>7. Stands(c)'
    BY <1>1, <1>5, <2>1, StandsKept DEF Self
  <2> QED
    BY <1>1, <2>1, <2>3, <2>4, <2>5, <2>6, <2>7, Quiet DEF Self
<1> QED
  BY <1>3, <1>4, <1>5 DEF ReadItem

\* A decision that writes the columns that differ from what is there is there whole.
LEMMA Written ==
  ASSUME NEW c \in Call, IsRequest(request[c]), NEW old \in Decision
  PROVE  /\ Set(old, Changed(old, Asked(c)), Asked(c)) \in Decision
         /\ \A col \in DOMAIN Asked(c) :
               Set(old, Changed(old, Asked(c)), Asked(c))[col] = Asked(c)[col]
         /\ \A copy \in Decision : Set(old, Changed(copy, Asked(c)), Asked(c)) \in Decision
         /\ \A copy \in Decision : \A col \in DOMAIN Asked(c) :
               old[col] = Asked(c)[col] =>
                  Set(old, Changed(copy, Asked(c)), Asked(c))[col] = Asked(c)[col]
<1>1. /\ DOMAIN Asked(c) \subseteq Column /\ DOMAIN old = Column
      /\ \A col \in DOMAIN Asked(c) :
            Asked(c)[col] \in {"pending", "approved", "rejected"}
                              \cup Reason \cup Admin \cup Call \cup {Null}
      /\ "status" \in DOMAIN Asked(c)
      /\ Asked(c)["status"] \in {"approved", "rejected"}
  BY DEF Asked, Decision, Column, IsRequest
<1>2. \A copy \in Decision : Set(old, Changed(copy, Asked(c)), Asked(c)) \in Decision
  <2>1. TAKE copy \in Decision
  <2> DEFINE new == Set(old, Changed(copy, Asked(c)), Asked(c))
  <2>2. new = [col \in Column |-> IF col \in Changed(copy, Asked(c)) THEN Asked(c)[col]
                                  ELSE old[col]]
    BY <1>1 DEF Set
  <2>3. \A col \in Column : new[col] \in {"pending", "approved", "rejected"}
                              \cup Reason \cup Admin \cup Call \cup {Null}
    BY <1>1, <2>2 DEF Changed, Decision
  <2>4. new["status"] \in {"pending", "approved", "rejected"} /\ "status" \in Column
    BY <1>1, <2>2 DEF Changed, Decision, Column
  <2> QED
    BY <2>2, <2>3, <2>4 DEF Decision
<1>3. \A col \in DOMAIN Asked(c) :
         Set(old, Changed(old, Asked(c)), Asked(c))[col] = Asked(c)[col]
  BY <1>1 DEF Set, Changed
<1>4. \A copy \in Decision : \A col \in DOMAIN Asked(c) :
         old[col] = Asked(c)[col] =>
            Set(old, Changed(copy, Asked(c)), Asked(c))[col] = Asked(c)[col]
  BY <1>1 DEF Set, Changed
<1> QED
  BY <1>2, <1>3, <1>4

LEMMA WriteItemStep ==
  ASSUME Inv, NEW c \in Call, WriteItem(c)
  PROVE  Inv'
<1> DEFINE id == Chosen(c)
           new == Set(decision[id], Changed(instance[c], Asked(c)), Asked(c))
<1>1. /\ TypeOK /\ Self(c) /\ pc[c] = "write" /\ Counted(c, TRUE)
      /\ UNCHANGED <<rows, request, instance, doomed, before>>
      /\ decision' = IF Found(c) = {} THEN decision ELSE [decision EXCEPT ![id] = new]
  BY InvParts DEF WriteItem
<1>2. /\ Is(c, {"decide"}) /\ id \in Item /\ IsRequest(request[c])
      /\ DecidesOn(c, request[c].table, id)
  BY <1>1, ChosenItem
<1>3. /\ Frame(c) /\ Way(c)' /\ Counting(c)' /\ Logging(c)' /\ Deciding(c)' /\ Erasing(c)'
      /\ Gone(c)'
      /\ pc' \in [Call -> Label] /\ at' \in [Call -> Nat] /\ processed' \in [Call -> Nat]
      /\ failed' \in [Call -> Nat] /\ outcome' \in [Call -> Outcomes]
      /\ decided' \in [Call -> SUBSET Item] /\ decided'[c] = decided[c] \cup {id}
  BY <1>1, CountedStep
<1>4. decision[id] \in Decision /\ instance[c] \in Decision
  BY <1>1, <1>2 DEF TypeOK
<1>5. new \in Decision
  BY <1>2, <1>4, Written
<1>6. Present(c, id) <=> Found(c) # {}
  BY DEF Present, Found
<1>7. /\ decision' \in [Item -> Decision]
      /\ \A i \in Item : decision'[i] = IF i = id /\ Present(c, id) THEN new ELSE decision[i]
  BY <1>1, <1>2, <1>5, <1>6 DEF TypeOK
<1>8. TypeOK'
  BY <1>1, <1>3, <1>7 DEF TypeOK
<1>9. Decides(c)
  BY <1>2, <1>7 DEF Decides
<1>10. Stands(c)'
  <2>1. SUFFICES ASSUME NEW i \in decided[c] \cup {id}, Alone(c, i)', Present(c, i),
                        NEW col \in DOMAIN Asked(c)
                 PROVE  decision'[i][col] = Asked(c)[col]
    <3>1. Asked(c)' = Asked(c) /\ decided'[c] = decided[c] \cup {id}
      BY <1>1, <1>3 DEF Asked
    <3>2. \A i : Present(c, i)' <=> Present(c, i)
      BY <1>1 DEF Present
    <3> HIDE DEF id, new
    <3> QED
      BY <3>1, <3>2 DEF Stands
  <2>2. Alone(c, i) /\ i \in Item
    BY <1>1, <1>2, <1>3, <2>1, AloneBefore DEF TypeOK
  <2>3. CASE i # id
    BY <1>1, <1>7, <2>1, <2>2, <2>3 DEF Self, Stands
  <2>4. CASE i = id
    <3>1. instance[c] = decision[id]
      BY <1>1, <2>1, <2>2, <2>4 DEF Self, Deciding
    <3>2. decision'[id] = Set(decision[id], Changed(decision[id], Asked(c)), Asked(c))
      BY <1>2, <1>7, <2>1, <2>4, <3>1
    <3> QED
      BY <1>2, <1>4, <2>1, <2>4, <3>2, Written
  <2> QED
    BY <2>3, <2>4
<1> QED
  BY <1>1, <1>3, <1>8, <1>9, <1>10, SameRows DEF Self
-----------------------------------------------------------------------------

LEMMA StatementList ==
  /\ Len(Statements) = 9
  /\ \A i \in 1 .. 9 : /\ Statements[i][1] = "profiles" <=> i = 5
                       /\ i >= 6 => Statements[i][2] = "customer"
  /\ {Statements[6][1], Statements[7][1], Statements[8][1], Statements[9][1]} = Marks
<1>1. Statements[5][1] = "profiles" /\ Len(Statements) = 9
  BY DEF Statements
<1>2. /\ Statements[1][1] = "favourites" /\ Statements[2][1] = "contacts"
      /\ Statements[3][1] = "visits" /\ Statements[4][1] = "reviews"
  BY DEF Statements
<1>3. /\ Statements[6][1] = "favourites" /\ Statements[7][1] = "contacts"
      /\ Statements[8][1] = "visits" /\ Statements[9][1] = "reviews"
      /\ Statements[6][2] = "customer" /\ Statements[7][2] = "customer"
      /\ Statements[8][2] = "customer" /\ Statements[9][2] = "customer"
  BY DEF Statements
<1>4. \A i \in 1 .. 9 : i = 1 \/ i = 2 \/ i = 3 \/ i = 4 \/ i = 5 \/ i = 6 \/ i = 7 \/ i = 8 \/ i = 9
  OBVIOUS
<1> HIDE DEF Statements
<1>5. \A i \in 1 .. 9 : Statements[i][1] = "profiles" <=> i = 5
  BY <1>1, <1>2, <1>3, <1>4
<1>6. \A i \in 1 .. 9 : i >= 6 => Statements[i][2] = "customer"
  BY <1>3, <1>4
<1> QED
  BY <1>1, <1>3, <1>5, <1>6 DEF Marks

\* What the steps of an erasure keep besides Way, Erasing and Gone.
LEMMA Eraser ==
  ASSUME Inv, NEW c \in Call, Frame(c), Is(c, {"erase"}),
         pc'[c] \notin {"write", "insert"}, decided'[c] = decided[c], outcome'[c] = "none",
         Way(c)', Erasing(c)'
  PROVE  Self(c)'
<1>1. Gone(c)'
  BY DEF Gone
<1>2. ~Is(c, {"decide"})
  BY DEF Is
<1> QED
  BY <1>1, <1>2, NotDecide DEF Self, Logging

LEMMA FindUserStep ==
  ASSUME Inv, NEW c \in Call, FindUser(c)
  PROVE  Inv'
<1> USE DEF Goto
<1>1. /\ TypeOK /\ Self(c) /\ pc[c] = "find_user" /\ pc' = [pc EXCEPT ![c] = "find_erased"]
      /\ UNCHANGED <<outcome, rows, decision, request, at, instance, processed, failed, doomed,
                     decided, before>>
  BY InvParts DEF FindUser
<1>2. Frame(c) /\ TypeOK' /\ pc'[c] = "find_erased"
  BY <1>1 DEF Frame, TypeOK, Label
<1>3. \A d \in Call : pc[d] = "done" => pc'[d] = "done"
  BY <1>1, <1>2 DEF Frame
<1>4. Way(c)' /\ Erasing(c)' /\ outcome'[c] = "none" /\ Is(c, {"erase"})
  BY <1>1, <1>2, <1>3 DEF Self, Way, Erasing, Is
<1>5. Self(c)'
  BY <1>1, <1>2, <1>4, Eraser
<1> QED
  BY <1>1, <1>2, <1>5, Quiet

LEMMA FindErasedStep ==
  ASSUME Inv, NEW c \in Call, FindErased(c)
  PROVE  Inv'
<1> USE DEF Goto
<1>1. /\ TypeOK /\ Self(c) /\ pc[c] = "find_erased" /\ pc' = [pc EXCEPT ![c] = "delete"]
      /\ at' = [at EXCEPT ![c] = IF Profile(request[c].user) \in rows THEN 0 ELSE 5]
      /\ UNCHANGED <<outcome, rows, decision, request, instance, processed, failed, doomed,
                     decided, before>>
  BY InvParts DEF FindErased
<1>2. Frame(c) /\ TypeOK' /\ pc'[c] = "delete"
      /\ at'[c] = IF Profile(request[c].user) \in rows THEN 0 ELSE 5
  BY <1>1 DEF Frame, TypeOK, Label
<1>3. \A d \in Call : pc[d] = "done" => pc'[d] = "done"
  BY <1>1, <1>2 DEF Frame
<1>4. Way(c)' /\ outcome'[c] = "none" /\ Is(c, {"erase"})
  BY <1>1, <1>2, <1>3 DEF Self, Way, Is
<1>5. Erasing(c)'
  <2>1. doomed[c] = {} /\ at'[c] \in 0 .. 5
    BY <1>1, <1>2 DEF Self, Erasing
  <2> QED
    BY <1>1, <1>2, <2>1 DEF Erasing
<1>6. Self(c)'
  BY <1>1, <1>2, <1>4, <1>5, Eraser
<1> QED
  BY <1>1, <1>2, <1>6, Quiet

LEMMA DeleteStep ==
  ASSUME Inv, NEW c \in Call, Delete(c)
  PROVE  Inv'
<1> USE DEF Goto
<1> DEFINE u == request[c].user
           k == at[c] + 1
           gone == Deleted(u, Statements[k]) \ doomed[c]
<1>1. /\ TypeOK /\ Self(c) /\ Rows /\ pc[c] = "delete"
      /\ doomed' = [doomed EXCEPT ![c] = @ \cup gone] /\ at' = [at EXCEPT ![c] = k]
      /\ pc' = [pc EXCEPT ![c] = IF k < Len(Statements) THEN "delete" ELSE "commit"]
      /\ UNCHANGED <<outcome, rows, decision, request, instance, processed, failed, decided,
                     before>>
  BY InvParts DEF Delete
<1>2. at[c] \in 0 .. 8 /\ k \in 1 .. 9 /\ u \in User
  BY <1>1, Requests DEF Self, Erasing, IsRequest
<1>3. /\ doomed'[c] = doomed[c] \cup Deleted(u, Statements[k]) /\ at'[c] = k
      /\ pc'[c] = IF k < 9 THEN "delete" ELSE "commit"
  BY <1>1, StatementList DEF TypeOK
<1>4. Deleted(u, Statements[k]) \subseteq rows
  BY DEF Deleted
<1> HIDE DEF gone
<1>5. gone \subseteq Row
  BY <1>1, <1>4 DEF gone, TypeOK
<1>6. Frame(c) /\ TypeOK'
  <2>1. doomed' \in [Call -> SUBSET Row]
    BY <1>1, <1>5 DEF TypeOK
  <2>2. at' \in [Call -> Nat] /\ pc' \in [Call -> Label]
    BY <1>1, <1>2 DEF TypeOK, Label
  <2>3. TypeOK'
    BY <1>1, <2>1, <2>2 DEF TypeOK
  <2>4. pc'[c] # "start"
    BY <1>3
  <2> QED
    BY <1>1, <2>3, <2>4 DEF Frame, TypeOK
<1>7. \A d \in Call : pc[d] = "done" => pc'[d] = "done"
  BY <1>1, <1>6 DEF Frame
<1>8. Way(c)' /\ outcome'[c] = "none" /\ Is(c, {"erase"})
  BY <1>1, <1>3, <1>7 DEF Self, Way, Is
<1>9. Erasing(c)'
  <2>1. ASSUME NEW p \in User, Profile(p) \in doomed'[c], NEW row \in rows, row.profile = p
        PROVE  row \in doomed'[c]
    <3>1. CASE Profile(p) \in doomed[c]
      BY <1>1, <1>3, <2>1, <3>1 DEF Self, Erasing
    <3>2. CASE Profile(p) \in Deleted(u, Statements[k])
      <4>1. Profile(p).table = "profiles" /\ Profile(p).profile = p
        BY ProfileRow
      <4>2. Statements[k][1] = "profiles"
        BY <3>2, <4>1 DEF Deleted
      <4>3. k = 5 /\ Statements[5][2] = "profile"
        BY <1>2, <4>2, StatementList DEF Statements
      <4>4. p = u
        BY <3>2, <4>1, <4>3 DEF Deleted
      <4> QED
        BY <1>3, <2>1, <4>2, <4>4 DEF Deleted
    <3> QED
      BY <1>3, <2>1, <3>1, <3>2
  <2>2. at'[c] >= 5 /\ Profile(u) \in rows => Profile(u) \in doomed'[c]
    <3>1. CASE k = 5
      <4>1. Statements[5][1] = "profiles"
        BY StatementList
      <4> QED
        BY <1>2, <1>3, <3>1, <4>1, ProfileRow DEF Deleted
    <3>2. CASE k # 5
      BY <1>1, <1>2, <1>3, <3>2 DEF Self, Erasing
    <3> QED
      BY <3>1, <3>2
  <2>3. ASSUME NEW i \in 6 .. 9, at'[c] >= i, NEW row \in rows,
               row.table = Statements[i][1], row.customer = u
        PROVE  row \in doomed'[c] \/ row.id \in Call \ before[c]
    <3>1. CASE i = k
      <4>1. Statements[k][2] = "customer"
        BY <1>2, <3>1, StatementList
      <4> QED
        BY <1>3, <2>3, <3>1, <4>1 DEF Deleted
    <3>2. CASE i # k
      <4>1. at[c] >= i
        BY <1>2, <1>3, <2>3, <3>2
      <4> QED
        BY <1>1, <1>3, <2>3, <4>1 DEF Self, Erasing
    <3> QED
      BY <3>1, <3>2
  <2>4. /\ pc'[c] = "delete" => at'[c] \in 0 .. 8
        /\ pc'[c] = "commit" => at'[c] = 9
        /\ pc'[c] \in {"delete", "commit"}
    BY <1>2, <1>3
  <2> HIDE DEF k
  <2>5. request' = request /\ rows' = rows /\ before' = before
    BY <1>1
  <2>6. \A i \in 6 .. 9 : at'[c] >= i =>
           \A row \in rows : row.table = Statements[i][1] /\ row.customer = u =>
              row \in doomed'[c] \/ row.id \in Call \ before[c]
    BY <2>3
  <2> QED
    BY <2>1, <2>2, <2>4, <2>5, <2>6 DEF Erasing, Statements
<1>10. Self(c)'
  BY <1>1, <1>3, <1>6, <1>8, <1>9, Eraser
<1> QED
  BY <1>1, <1>6, <1>10, Quiet

LEMMA CommitStep ==
  ASSUME Inv, NEW c \in Call, Commit(c)
  PROVE  Inv'
<1> USE DEF Return
<1> DEFINE u == request[c].user
<1>1. /\ TypeOK /\ Self(c) /\ Rows /\ OnePerPair /\ ContactOnce /\ pc[c] = "commit"
      /\ rows' = rows \ doomed[c] /\ doomed' = [doomed EXCEPT ![c] = {}]
      /\ pc' = [pc EXCEPT ![c] = "done"] /\ outcome' = [outcome EXCEPT ![c] = "ok"]
      /\ UNCHANGED <<decision, request, at, instance, processed, failed, decided, before>>
  BY InvParts DEF Commit
<1>2. pc'[c] = "done" /\ outcome'[c] = "ok" /\ doomed'[c] = {} /\ u \in User /\ at[c] = 9
  BY <1>1, Requests DEF TypeOK, Self, Erasing, IsRequest
<1>3. Frame(c) /\ TypeOK'
  BY <1>1 DEF Frame, TypeOK, Label, Outcomes
<1>4. Adds(c) /\ Decides(c) /\ OnePerPair' /\ ContactOnce'
  BY <1>1 DEF Adds, Decides, OnePerPair, OneEach, ContactOnce
<1>5. Rows'
  <2>1. ASSUME NEW r \in rows' PROVE Profile(r.profile) \in rows'
    <3>1. r \in rows /\ r \notin doomed[c] /\ r.profile \in User
      BY <1>1 DEF TypeOK, Row
    <3>2. Profile(r.profile) \in rows
      BY <1>1, <3>1 DEF Rows
    <3>3. Profile(r.profile) \notin doomed[c]
      BY <1>1, <3>1 DEF Self, Erasing
    <3> QED
      BY <1>1, <3>2, <3>3
  <2>2. \A r \in rows : r.id \in Call => pc'[r.id] \in {"insert_visit", "done"}
                                         /\ (r.table = "reviews" => pc'[r.id] = "done")
    BY <1>1, <1>2, <1>3 DEF Rows, Frame
  <2> QED
    BY <1>1, <2>1, <2>2 DEF Rows
<1>6. \A d \in Call : pc[d] = "done" => pc'[d] = "done"
  BY <1>1, <1>3 DEF Frame
<1>7. Way(c)' /\ Erasing(c)' /\ Is(c, {"erase"})
  BY <1>1, <1>2, <1>6 DEF Self, Way, Erasing, Is
<1>8. Gone(c)'
  <2>1. SUFFICES ASSUME NEW row \in rows'
                 PROVE  row.profile # u /\ (row.customer = u => row.id \in Call \ before[c])
    BY <1>1 DEF Gone
  <2>2. row \in rows /\ row \notin doomed[c] /\ row \in Row
    BY <1>1, <2>1 DEF TypeOK
  <2>3. Profile(row.profile) \in rows
    BY <1>1, <2>2 DEF Rows
  <2>4. Profile(u) \in rows => Profile(u) \in doomed[c]
    BY <1>1, <1>2 DEF Self, Erasing
  <2>5. row.profile # u
    BY <1>1, <1>2, <2>2, <2>3, <2>4 DEF Self, Erasing
  <2>6. ASSUME row.customer = u PROVE row.id \in Call \ before[c]
    <3>1. row.table # "profiles"
      <4>1. SUFFICES ASSUME row.table = "profiles" PROVE FALSE
        OBVIOUS
      <4>2. row.customer = Null
        <5>1. row = Profile(row.profile) /\ row.profile \in User
          BY <1>1, <2>2, <4>1 DEF Rows, Row
        <5>2. Profile(row.profile).customer = Null
          BY <5>1, ProfileRow
        <5> QED
          BY <5>1, <5>2
      <4> QED
        BY <1>2, <2>6, <4>2, NullAssumption
    <3>2. PICK i \in 6 .. 9 : row.table = Statements[i][1]
      <4>1. row.table \in Marks
        BY <2>2, <3>1 DEF Row
      <4>2. \E i \in {6, 7, 8, 9} : row.table = Statements[i][1]
        BY <4>1, StatementList
      <4> QED
        BY <4>2
    <3>3. at[c] >= i
      BY <1>2
    <3> QED
      BY <1>1, <2>2, <2>6, <3>2, <3>3 DEF Self, Erasing
  <2> QED
    BY <2>5, <2>6
<1>9. Self(c)'
  <2>1. ~Is(c, {"decide"}) /\ Logging(c)'
    BY <1>2, <1>7 DEF Is, Logging
  <2> QED
    BY <1>1, <1>2, <1>3, <1>7, <1>8, <2>1, NotDecide DEF Self
<1> QED
  BY <1>3, <1>4, <1>5, <1>9, Together

LEMMA Stutter ==
  ASSUME Inv, UNCHANGED vars
  PROVE  Inv'
<1>1. TypeOK' /\ OnePerPair' /\ Rows' /\ ContactOnce'
  BY DEF Inv, vars, TypeOK, OnePerPair, Rows, ContactOnce
<1>2. ASSUME NEW c \in Call PROVE Self(c)'
  <2>1. Self(c)
    BY InvParts
  <2>2. \A id : (Alone(c, id)' <=> Alone(c, id)) /\ (Present(c, id)' <=> Present(c, id))
    BY DEF vars, Alone, Present, DecidesOn, Is
  <2>3. Way(c)' /\ Counting(c)' /\ Logging(c)' /\ Erasing(c)' /\ Gone(c)'
    BY <2>1 DEF vars, Self, Way, Counting, Logging, Erasing, Gone, Is, Own, Same
  <2>4. Asked(c)' = Asked(c) /\ Chosen(c)' = Chosen(c)
    BY DEF vars, Asked, Chosen
  <2>5. /\ pc' = pc /\ instance' = instance /\ decision' = decision /\ decided' = decided
    BY DEF vars
  <2>6. Stands(c)'
    BY <2>1, <2>2, <2>4, <2>5 DEF Self, Stands
  <2>7. Deciding(c)'
    <3>1. Alone(c, Chosen(c))' => Alone(c, Chosen(c))
      BY DEF vars, Alone, DecidesOn, Is, Chosen
    <3>2. Present(c, Chosen(c))' => Present(c, Chosen(c))
      BY DEF vars, Present, Chosen
    <3> QED
      BY <2>1, <2>4, <2>5, <3>1, <3>2 DEF Self, Deciding
  <2> QED
    BY <2>3, <2>6, <2>7 DEF Self
<1> QED
  BY <1>1, <1>2 DEF Inv, Self, Stands, Gone, LastDecisionStands, ErasedGone

-----------------------------------------------------------------------------

\* Every step of every call keeps the inductive invariant.
THEOREM Invariance == Spec => []Inv
<1>1. Init => Inv
  BY Initially
<1>2. ASSUME Inv, [Next]_vars PROVE Inv'
  <2>1. ASSUME NEW c \in Call, Step(c) PROVE Inv'
    BY <1>2, <2>1, ArriveStep, FindProfileStep, FindOwnStep, InsertStep, InsertVisitStep,
       RemoveStep, ReadItemStep, WriteItemStep, ItemFailsStep, FindUserStep, FindErasedStep,
       DeleteStep, CommitStep, FailsStep DEF Step
  <2>2. CASE UNCHANGED vars
    BY <1>2, <2>2, Stutter
  <2> QED
    BY <1>2, <2>1, <2>2 DEF Next
<1> QED
  BY <1>1, <1>2, PTL DEF Spec

\* Rows, decisions and calls keep their types.
THEOREM TypeCorrect == Spec => []TypeOK
<1>1. Inv => TypeOK
  BY DEF Inv
<1> QED
  BY <1>1, Invariance, PTL

\* A customer reviews a tradie once and has him as a favourite once, whatever calls overlap:
\* the unique indexes hold where the checks of createReview and addFavourite do not.
THEOREM OneReview == Spec => []OnePerPair
<1>1. Inv => OnePerPair
  BY DEF Inv
<1> QED
  BY <1>1, Invariance, PTL

\* Only contacts that overlap are logged twice (recordContact).
THEOREM ContactsLogged == Spec => []ContactOnce
<1>1. Inv => ContactOnce
  BY DEF Inv
<1> QED
  BY <1>1, Invariance, PTL

\* A decision that no other one raced is there whole (updateStatus of profiles and reviews).
THEOREM DecisionsStand == Spec => []LastDecisionStands
<1>1. Inv => LastDecisionStands
  BY DEF Inv
<1> QED
  BY <1>1, Invariance, PTL

\* A bulk decision answers and counts every item, whatever fails (bulkApprove, bulkReject).
THEOREM BulkCounted == Spec => []BulkCounts
<1>1. Inv => BulkCounts
  BY DEF Inv, Counting, BulkCounts
<1> QED
  BY <1>1, Invariance, PTL

\* After an erasure nothing refers to the profile, and nothing is left of what the user's
\* calls had done before it (deleteUser), however statements and other calls interleave.
THEOREM ErasedForGood == Spec => []ErasedGone
<1>1. Inv => ErasedGone
  BY DEF Inv
<1> QED
  BY <1>1, Invariance, PTL
=============================================================================
