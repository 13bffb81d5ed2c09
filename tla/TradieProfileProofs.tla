------------------------- MODULE TradieProfileProofs -------------------------
(***************************************************************************)
(* Theorems about TradieProfile, for any calls, items, requests and        *)
(* limits: the inductive invariant Inv, and what follows from it.          *)
(***************************************************************************)
EXTENDS TradieProfile, FiniteSetTheorems, TLAPS

LEMMA RequestTypes ==
    ASSUME TypeOK, NEW c \in Call
    PROVE  /\ request[c] \in AnyRequest
           /\ request[c].size \in Nat
           /\ request[c].services \subseteq Item /\ request[c].regions \subseteq Item
BY RequestAssumption DEF TypeOK, AnyRequest

LEMMA RequestStays == ASSUME [Next]_vars PROVE request' = request
BY DEF Next, vars, Step, StartSetup, CreateProfile, UpdateProfile, ClearRows, InsertRows, Reread,
       StartUpload, CountPhotos, StorePhoto, StartRemove, RemovePhoto, Fails, EraseUser

\* A step of one call leaves the others where they are.
LEMMA Frame ==
    ASSUME TypeOK, NEW c \in Call, Step(c), NEW d \in Call, d # c
    PROVE  /\ pc'[d] = pc[d] /\ outcome'[d] = outcome[d] /\ mine'[d] = mine[d]
           /\ counted'[d] = counted[d] /\ sent'[d] = sent[d] /\ before'[d] = before[d]
BY DEF TypeOK, Step, StartSetup, CreateProfile, UpdateProfile, ClearRows, InsertRows, Reread,
       StartUpload, CountPhotos, StorePhoto, StartRemove, RemovePhoto, Fails, Goto, Return,
       ReadProfile

LEMMA TypeInit == Init => TypeOK
<1> SUFFICES ASSUME Init PROVE TypeOK
  OBVIOUS
<1> QED
  BY DEF Init, TypeOK, Label, Outcomes, Table

LEMMA MoveTypes ==
    ASSUME TypeOK, NEW c \in Call
    PROVE  /\ \A label \in Label : Goto(c, label) =>
                 pc' \in [Call -> Label] /\ outcome' \in [Call -> Outcomes]
           /\ \A o \in Outcomes : Return(c, o) =>
                 pc' \in [Call -> Label] /\ outcome' \in [Call -> Outcomes]
           /\ ReadProfile(c) =>
                 /\ mine' \in [Call -> Profile \cup {NoProfile}]
                 /\ before' \in [Call -> SUBSET Call]
BY DEF TypeOK, Goto, Return, ReadProfile, Label, Outcomes, Ended

LEMMA TypeStep == TypeOK /\ IsFiniteSet(photos) /\ [Next]_vars => TypeOK'
<1> SUFFICES ASSUME TypeOK, IsFiniteSet(photos), [Next]_vars PROVE TypeOK'
  OBVIOUS
<1> USE DEF Label, Outcomes
<1>1. ASSUME NEW c \in Call, StartSetup(c) \/ StartUpload(c) \/ StartRemove(c) PROVE TypeOK'
  BY <1>1, MoveTypes DEF TypeOK, StartSetup, StartUpload, StartRemove
<1>2. ASSUME NEW c \in Call, CreateProfile(c) PROVE TypeOK'
  <2>1. Image(c) \in Seq(Call)
    BY DEF Image
  <2>2. [id |-> c, images |-> Image(c)] \in Profile
    BY <2>1 DEF Profile
  <2>3. mine' \in [Call -> Profile \cup {NoProfile}] /\ profile' \in Profile \cup {NoProfile}
    BY <1>2, <2>2 DEF CreateProfile, TypeOK
  <2> QED
    BY <1>2, <2>3, MoveTypes DEF TypeOK, CreateProfile
<1>3. ASSUME NEW c \in Call, UpdateProfile(c) PROVE TypeOK'
  <2>1. profile' \in Profile \cup {NoProfile}
    <3>1. CASE Current(c) /\ request[c].image
      <4>1. profile \in Profile /\ mine[c] \in Profile
        BY <3>1 DEF TypeOK, Current
      <4>2. mine[c].images \o <<c>> \in Seq(Call)
        BY <4>1 DEF Profile
      <4>3. [profile EXCEPT !.images = mine[c].images \o <<c>>] \in Profile
        BY <4>1, <4>2 DEF Profile
      <4> QED
        BY <1>3, <3>1, <4>3 DEF UpdateProfile
    <3> QED
      BY <1>3, <3>1 DEF UpdateProfile, TypeOK
  <2> QED
    BY <1>3, <2>1, MoveTypes DEF TypeOK, UpdateProfile
<1>4. ASSUME NEW c \in Call, NEW t \in Table, ClearRows(c, t) \/ InsertRows(c, t) PROVE TypeOK'
  <2>1. Inserts[t] \in Label /\ Follows[t] \in Label
    BY DEF Inserts, Follows, Table
  <2>2. \A i \in Items(c, t) : [item |-> i, by |-> c] \in Row
    BY RequestTypes DEF Items, Row
  <2>3. {[item |-> i, by |-> c] : i \in Items(c, t)} \subseteq Row
    BY <2>2
  <2>4. rows' \in [Table -> SUBSET Row]
    BY <1>4, <2>3 DEF TypeOK, ClearRows, InsertRows
  <2> QED
    BY <1>4, <2>1, <2>4, MoveTypes DEF TypeOK, ClearRows, InsertRows
<1>5. ASSUME NEW c \in Call, Reread(c) \/ RemovePhoto(c) \/ Fails(c) PROVE TypeOK'
  <2>1. photos' \subseteq photos
    BY <1>5 DEF Reread, RemovePhoto, Fails, PhotosOf
  <2> QED
    BY <1>5, <2>1, MoveTypes DEF TypeOK, Reread, RemovePhoto, Fails
<1>6. ASSUME NEW c \in Call, CountPhotos(c) PROVE TypeOK'
  <2>1. IsFiniteSet(PhotosOf(c))
    BY <1>6, FS_EmptySet DEF PhotosOf
  <2>2. Cardinality(PhotosOf(c)) \in Nat
    BY <2>1, FS_CardinalityType
  <2> QED
    BY <1>6, <2>2, MoveTypes DEF TypeOK, CountPhotos
<1>7. ASSUME NEW c \in Call, StorePhoto(c) PROVE TypeOK'
  <2>1. [by |-> c, nr |-> sent[c]] \in Photo
    BY DEF TypeOK, Photo
  <2> QED
    BY <1>7, <2>1, MoveTypes DEF TypeOK, StorePhoto
<1>8. CASE EraseUser
  BY <1>8 DEF TypeOK, EraseUser
<1>9. CASE UNCHANGED vars
  BY <1>9 DEF TypeOK, vars
<1> QED
  BY <1>1, <1>2, <1>3, <1>4, <1>5, <1>6, <1>7, <1>8, <1>9 DEF Next, Step

LEMMA FiniteStep == IsFiniteSet(photos) /\ [Next]_vars => IsFiniteSet(photos')
<1> SUFFICES ASSUME IsFiniteSet(photos), [Next]_vars PROVE IsFiniteSet(photos')
  OBVIOUS
<1>1. \/ photos' \subseteq photos
      \/ \E p : photos' = photos \cup {p}
  BY DEF Next, vars, Step, StartSetup, CreateProfile, UpdateProfile, ClearRows, InsertRows, Reread,
         StartUpload, CountPhotos, StorePhoto, StartRemove, RemovePhoto, Fails, EraseUser, PhotosOf
<1> QED
  BY <1>1, FS_Subset, FS_AddElement

(***************************************************************************)
(* What the steps do to the calls: what a call has read stays, and so do   *)
(* the calls it came after.                                                *)
(***************************************************************************)
LEMMA KindStep ==
    ASSUME TypeOK, NEW c \in Call, Step(c), KindAt(c)
    PROVE  KindAt(c)'
<1> USE RequestStays DEF KindAt, TypeOK, Is, Return, Goto, ReadProfile, Outcomes
<1>1. CASE StartSetup(c) \/ StartUpload(c) \/ StartRemove(c)
  BY <1>1 DEF StartSetup, StartUpload, StartRemove
<1>2. CASE CreateProfile(c)
  <2>1. CASE profile = NoProfile
    <3>1. mine'[c] # NoProfile
      <4>1. Image(c) \in Seq(Call)
        BY DEF Image
      <4> QED
        BY <1>2, <2>1, <4>1, NoProfileAssumption DEF CreateProfile
    <3> QED
      BY <1>2, <2>1, <3>1 DEF CreateProfile
  <2> QED
    BY <1>2, <2>1 DEF CreateProfile
<1>3. CASE UpdateProfile(c) \/ Reread(c) \/ Fails(c)
  BY <1>3 DEF UpdateProfile, Reread, Fails
<1>4. ASSUME NEW t \in Table, ClearRows(c, t) \/ InsertRows(c, t) PROVE KindAt(c)'
  BY <1>4 DEF ClearRows, InsertRows, Clears, Inserts, Follows, Table
<1>5. CASE CountPhotos(c) \/ StorePhoto(c) \/ RemovePhoto(c)
  BY <1>5 DEF CountPhotos, StorePhoto, RemovePhoto
<1> QED
  BY <1>1, <1>2, <1>3, <1>4, <1>5 DEF Step

LEMMA MineStays ==
    ASSUME TypeOK, [Next]_vars, NEW c \in Call, KindAt(c)
    PROVE  /\ mine[c] # NoProfile => mine'[c] = mine[c] /\ before'[c] = before[c]
           /\ pc[c] # "start" => before'[c] = before[c] /\ pc'[c] # "start"
           /\ pc[c] = "done" => /\ pc'[c] = "done" /\ outcome'[c] = outcome[c]
                                /\ mine'[c] = mine[c] /\ sent'[c] = sent[c]
                                /\ counted'[c] = counted[c]
           /\ pc[c] \notin {"start", "create"} => pc'[c] \notin {"start", "create"}
<1> USE DEF KindAt, TypeOK, Goto, Return, ReadProfile
<1>1. CASE Step(c)
  <2>1. CASE StartSetup(c) \/ StartUpload(c) \/ StartRemove(c)
    BY <2>1 DEF StartSetup, StartUpload, StartRemove
  <2>2. CASE CreateProfile(c) \/ UpdateProfile(c) \/ Reread(c) \/ Fails(c)
    BY <2>2 DEF CreateProfile, UpdateProfile, Reread, Fails
  <2>3. ASSUME NEW t \in Table, ClearRows(c, t) \/ InsertRows(c, t)
        PROVE  /\ pc[c] \notin {"start", "create", "done"}
               /\ pc'[c] \notin {"start", "create"}
               /\ UNCHANGED <<mine, before, sent, counted>>
    BY <2>3 DEF ClearRows, InsertRows, Clears, Inserts, Follows, Table
  <2>4. CASE CountPhotos(c) \/ StorePhoto(c) \/ RemovePhoto(c)
    BY <2>4 DEF CountPhotos, StorePhoto, RemovePhoto
  <2> QED
    BY <1>1, <2>1, <2>2, <2>3, <2>4 DEF Step
<1>2. ASSUME NEW d \in Call, Step(d), d # c PROVE c \in Call /\ pc'[c] = pc[c] /\ mine'[c] = mine[c]
           /\ before'[c] = before[c] /\ outcome'[c] = outcome[c] /\ sent'[c] = sent[c]
           /\ counted'[c] = counted[c]
  BY <1>2, Frame
<1>3. CASE EraseUser \/ UNCHANGED vars
  BY <1>3 DEF EraseUser, vars
<1> QED
  BY <1>1, <1>2, <1>3 DEF Next

LEMMA ProfileUpdated ==
    ASSUME TypeOK, NEW c \in Call, UpdateProfile(c), profile # NoProfile
    PROVE  /\ profile' # NoProfile /\ profile'.id = profile.id
           /\ Current(c) /\ request[c].image => profile'.images = mine[c].images \o <<c>>
           /\ ~(Current(c) /\ request[c].image) => profile' = profile
<1>1. CASE Current(c) /\ request[c].image
  <2>1. profile \in Profile /\ mine[c] \in Profile
    BY <1>1 DEF TypeOK, Current
  <2>2. mine[c].images \o <<c>> \in Seq(Call)
    BY <2>1 DEF Profile
  <2>3. profile' = [profile EXCEPT !.images = mine[c].images \o <<c>>]
    BY <1>1 DEF UpdateProfile
  <2> QED
    BY <1>1, <2>1, <2>2, <2>3, NoProfileAssumption DEF Profile
<1> QED
  BY <1>1 DEF UpdateProfile

\* The profile changes its name only when it is created.
LEMMA ProfileStep ==
    ASSUME TypeOK, [Next]_vars
    PROVE  \/ profile' = NoProfile
           \/ profile # NoProfile /\ profile' # NoProfile /\ profile'.id = profile.id
           \/ /\ profile = NoProfile /\ profile' # NoProfile
              /\ profile'.id \in Call
              /\ CreateProfile(profile'.id)
              /\ mine'[profile'.id] = profile'
<1>1. ASSUME NEW c \in Call, CreateProfile(c), profile = NoProfile
      PROVE  profile' # NoProfile /\ profile'.id = c /\ mine'[c] = profile'
  <2>1. Image(c) \in Seq(Call)
    BY DEF Image
  <2> QED
    BY <1>1, <2>1, NoProfileAssumption DEF CreateProfile, TypeOK
<1>2. ASSUME NEW c \in Call, UpdateProfile(c), profile # NoProfile
      PROVE  profile' # NoProfile /\ profile'.id = profile.id
  BY <1>2, ProfileUpdated
<1>3. ASSUME NEW c \in Call, UpdateProfile(c), profile = NoProfile PROVE profile' = NoProfile
  BY <1>3 DEF UpdateProfile, Current
<1>4. \/ profile' = profile \/ profile' = NoProfile
      \/ \E c \in Call : UpdateProfile(c)
      \/ \E c \in Call : CreateProfile(c) /\ profile = NoProfile
  BY DEF Next, vars, Step, StartSetup, CreateProfile, ClearRows, InsertRows, Reread,
       StartUpload, CountPhotos, StorePhoto, StartRemove, RemovePhoto, Fails, EraseUser
<1> QED
  BY <1>1, <1>2, <1>3, <1>4

\* How a call comes to a profile: it reads one, or creates one.
LEMMA Reads ==
    ASSUME TypeOK, [Next]_vars, NEW c \in Call
    PROVE  \/ mine'[c] = mine[c] /\ before'[c] = before[c]
           \/ /\ pc[c] = "start" /\ pc'[c] # "start"
              /\ mine'[c] = profile /\ before'[c] = Ended
              /\ UNCHANGED <<profile, rows, photos>>
           \/ CreateProfile(c) /\ profile = NoProfile /\ before'[c] = before[c] /\ mine'[c] = profile'
<1> USE DEF TypeOK, Goto, Return, ReadProfile
<1>1. CASE Step(c)
  <2>1. CASE StartSetup(c) \/ StartUpload(c) \/ StartRemove(c)
    BY <2>1 DEF StartSetup, StartUpload, StartRemove
  <2>2. CASE CreateProfile(c)
    BY <2>2 DEF CreateProfile
  <2>3. CASE ~(StartSetup(c) \/ StartUpload(c) \/ StartRemove(c) \/ CreateProfile(c))
    BY <1>1, <2>3 DEF Step, UpdateProfile, ClearRows, InsertRows, Reread, CountPhotos, StorePhoto,
       RemovePhoto, Fails
  <2> QED
    BY <2>1, <2>2, <2>3
<1>2. ASSUME NEW d \in Call, Step(d), d # c PROVE mine'[c] = mine[c] /\ before'[c] = before[c]
  BY <1>2, Frame
<1>3. CASE EraseUser \/ UNCHANGED vars
  BY <1>3 DEF EraseUser, vars
<1> QED
  BY <1>1, <1>2, <1>3 DEF Next

(***************************************************************************)
(* The profile a call has: it cannot come back once it is gone.            *)
(***************************************************************************)
LEMMA CallFacts ==
    ASSUME Inv, NEW c \in Call
    PROVE  /\ TypeOK /\ KindAt(c) /\ Named(mine[c]) /\ Ordered(c) /\ Kept(c) /\ Bounded(c)
           /\ mine[c] # NoProfile => mine[c] \in Profile /\ mine[c].id \in Call
           /\ profile # NoProfile => profile \in Profile /\ profile.id \in Call
           /\ before[c] \subseteq Call
BY DEF Inv, TypeOK, Profile

LEMMA CurrentKept ==
    ASSUME Inv, [Next]_vars, NEW c \in Call, mine[c] # NoProfile, Current(c)'
    PROVE  Current(c)
<1>1. TypeOK /\ KindAt(c) /\ mine'[c] = mine[c]
  BY CallFacts, MineStays
<1>2. profile' # NoProfile /\ profile'.id = mine[c].id
  BY <1>1 DEF Current
<1>3. CASE profile = NoProfile
  <2>1. CreateProfile(mine[c].id)
    BY <1>1, <1>2, <1>3, ProfileStep
  <2>2. pc[mine[c].id] # "create"
    BY CallFacts DEF Named
  <2> QED
    BY <2>1, <2>2 DEF CreateProfile
<1>4. CASE profile # NoProfile
  BY <1>1, <1>2, <1>4, ProfileStep DEF Current
<1> QED
  BY <1>3, <1>4

LEMMA CurrentStays ==
    ASSUME Inv, [Next]_vars, NEW c \in Call, Current(c), profile' # NoProfile
    PROVE  Current(c)' /\ mine'[c] = mine[c] /\ profile'.id = profile.id
<1>1. TypeOK /\ KindAt(c) /\ mine'[c] = mine[c]
  BY CallFacts, MineStays DEF Current
<1> QED
  BY <1>1, ProfileStep DEF Current

LEMMA NamedStep ==
    ASSUME Inv, [Next]_vars
    PROVE  Named(profile)' /\ \A c \in Call : Named(mine[c])'
<1>1. ASSUME NEW c \in Call, pc[c] \notin {"start", "create"}, mine[c] # NoProfile
      PROVE  pc'[c] \notin {"start", "create"} /\ mine'[c] = mine[c]
  BY <1>1, CallFacts, MineStays
<1>2. Named(profile)'
  <2>1. CASE profile' # NoProfile /\ profile = NoProfile
    <3> DEFINE d == profile'.id
    <3>1. d \in Call /\ CreateProfile(d) /\ mine'[d] = profile'
      BY <2>1, ProfileStep DEF Inv
    <3>2. pc'[d] = "clear_services"
      BY <2>1, <3>1 DEF CreateProfile, Goto, Inv, TypeOK
    <3> QED
      BY <2>1, <3>1, <3>2 DEF Named
  <2>2. CASE profile' # NoProfile /\ profile # NoProfile
    <3>1. profile'.id = profile.id /\ profile.id \in Call
      BY <2>2, ProfileStep DEF Inv, TypeOK, Profile
    <3>2. Named(profile)
      BY DEF Inv
    <3> QED
      BY <1>1, <2>2, <3>1, <3>2 DEF Named
  <2>3. CASE profile' = NoProfile
    BY <2>3 DEF Named
  <2> QED
    BY <2>1, <2>2, <2>3
<1>3. ASSUME NEW c \in Call PROVE Named(mine[c])'
  <2>1. CASE mine'[c] = mine[c]
    BY <1>1, <2>1, CallFacts DEF Named
  <2>2. CASE mine'[c] = profile
    <3>1. Named(profile) /\ (profile # NoProfile => profile.id \in Call)
      BY CallFacts DEF Inv
    <3> QED
      BY <1>1, <2>2, <3>1 DEF Named
  <2>3. CASE mine'[c] = profile'
    BY <1>2, <2>3 DEF Named
  <2> QED
    BY <2>1, <2>2, <2>3, Reads, CallFacts
<1> QED
  BY <1>2, <1>3

LEMMA OrderedStep ==
    ASSUME Inv, [Next]_vars, NEW c \in Call
    PROVE  Ordered(c)'
<1>1. /\ TypeOK /\ KindAt(c) /\ Ordered(c) /\ before[c] \subseteq Call
      /\ Ended \subseteq Call
  BY CallFacts DEF Ended
<1>2. pc'[c] = "start" => before'[c] = {}
  <2>1. ~CreateProfile(c) \/ pc[c] = "create"
    BY DEF CreateProfile
  <2> QED
    BY <1>1, <2>1, MineStays, Reads DEF Ordered
<1>3. ASSUME NEW d \in before'[c]
      PROVE  pc'[d] = "done" /\ (Current(d)' /\ mine'[c] # NoProfile => Current(c)')
  <2>1. d \in Call /\ pc[d] = "done"
    BY <1>1, <1>3, Reads DEF Ordered, Ended
  <2>2. pc'[d] = "done" /\ mine'[d] = mine[d]
    BY <2>1, CallFacts, MineStays
  <2>3. ASSUME Current(d)', mine'[c] # NoProfile PROVE Current(c)'
    <3>1. Current(d) /\ profile' # NoProfile /\ profile'.id = profile.id /\ profile # NoProfile
      BY <2>1, <2>2, <2>3, CurrentKept DEF Current
    <3>2. CASE mine'[c] = mine[c] /\ before'[c] = before[c]
      BY <1>1, <1>3, <2>3, <3>1, <3>2 DEF Ordered, Current
    <3>3. CASE mine'[c] = profile
      BY <3>1, <3>3 DEF Current
    <3> QED
      BY <1>1, <3>1, <3>2, <3>3, Reads
  <2> QED
    BY <2>2, <2>3
<1> QED
  BY <1>2, <1>3 DEF Ordered

(***************************************************************************)
(* Rows and photos.                                                        *)
(***************************************************************************)
LEMMA Erased ==
    ASSUME Inv, [Next]_vars, profile' = NoProfile
    PROVE  photos' = {} /\ \A t \in Table : rows'[t] = {}
<1>1. CASE profile = NoProfile
  <2>1. photos = {} /\ \A t \in Table : rows[t] = {}
    BY <1>1 DEF Inv, Owned, Current
  <2>2. \A c \in Call : ~Current(c)
    BY <1>1 DEF Current
  <2>3. /\ photos' \subseteq photos
        /\ \A t \in Table : rows'[t] \subseteq rows[t]
    BY <2>2 DEF Inv, TypeOK, Next, vars, Step, StartSetup, CreateProfile, UpdateProfile, ClearRows,
       InsertRows, Reread, StartUpload, CountPhotos, StorePhoto, StartRemove, RemovePhoto, Fails,
       EraseUser, PhotosOf
  <2> QED
    BY <2>1, <2>3
<1>2. CASE profile # NoProfile
  <2>1. ~UNCHANGED profile
    BY <1>2
  <2>2. ASSUME NEW c \in Call, UpdateProfile(c) PROVE FALSE
    BY <1>2, <2>2, ProfileUpdated DEF Inv
  <2>3. EraseUser
    BY <1>2, <2>1, <2>2 DEF Next, vars, Step, StartSetup, CreateProfile, ClearRows, InsertRows,
       Reread, StartUpload, CountPhotos, StorePhoto, StartRemove, RemovePhoto, Fails
  <2> QED
    BY <2>3 DEF EraseUser
<1> QED
  BY <1>1, <1>2

\* A new row is inserted by a set-up whose profile is there.
LEMMA RowsStep ==
    ASSUME Inv, [Next]_vars, NEW t \in Table, NEW r \in rows'[t], r \notin rows[t]
    PROVE  /\ r.by \in Call /\ InsertRows(r.by, t) /\ Current(r.by)
           /\ r.item \in Items(r.by, t)
<1>1. PICK c \in Call : \E u \in Table : ClearRows(c, u) \/ InsertRows(c, u)
  BY DEF Next, vars, Step, StartSetup, CreateProfile, UpdateProfile, Reread, StartUpload,
     CountPhotos, StorePhoto, StartRemove, RemovePhoto, Fails, EraseUser
<1>2. PICK u \in Table : ClearRows(c, u) \/ InsertRows(c, u)
  BY <1>1
<1>3. ~ClearRows(c, u)
  BY DEF ClearRows, Inv, TypeOK
<1>4. InsertRows(c, u) /\ rows'[u] = rows[u] \cup {[item |-> i, by |-> c] : i \in Items(c, u)}
      /\ u = t /\ Current(c)
  BY <1>2, <1>3 DEF InsertRows, Inv, TypeOK
<1>5. PICK i \in Items(c, t) : r = [item |-> i, by |-> c]
  BY <1>4
<1> QED
  BY <1>4, <1>5

LEMMA PhotosStep ==
    ASSUME Inv, [Next]_vars, NEW p \in photos', p \notin photos
    PROVE  /\ p.by \in Call /\ StorePhoto(p.by) /\ Current(p.by)
           /\ p.nr = sent[p.by] /\ sent'[p.by] = sent[p.by] + 1
<1>1. PICK c \in Call : StorePhoto(c)
  BY DEF Next, vars, Step, StartSetup, CreateProfile, UpdateProfile, ClearRows, InsertRows, Reread,
     StartUpload, CountPhotos, StartRemove, RemovePhoto, Fails, EraseUser, PhotosOf
<1> QED
  BY <1>1 DEF StorePhoto, Inv, TypeOK

LEMMA SentStep ==
    ASSUME Inv, [Next]_vars, NEW c \in Call
    PROVE  sent'[c] >= sent[c] /\ (sent'[c] # sent[c] => StorePhoto(c))
<1>1. CASE Step(c)
  BY <1>1 DEF Inv, TypeOK, Step, StartSetup, CreateProfile, UpdateProfile, ClearRows, InsertRows,
     Reread, StartUpload, CountPhotos, StorePhoto, StartRemove, RemovePhoto, Fails
<1>2. ASSUME NEW d \in Call, Step(d), d # c PROVE sent'[c] = sent[c]
  BY <1>2, Frame DEF Inv
<1>3. ASSUME EraseUser \/ UNCHANGED vars PROVE sent'[c] = sent[c]
  BY <1>3 DEF EraseUser, vars
<1>4. Step(c) \/ sent'[c] = sent[c]
  BY <1>2, <1>3 DEF Next
<1>5. sent[c] \in Nat
  BY DEF Inv, TypeOK
<1> QED
  BY <1>1, <1>4, <1>5

LEMMA OwnedStep ==
    ASSUME Inv, [Next]_vars
    PROVE  Owned'
<1>1. CASE profile' = NoProfile
  BY <1>1, Erased DEF Owned
<1>2. CASE profile' # NoProfile
  <2>1. ASSUME NEW t \in Table, NEW r \in rows'[t] PROVE Current(r.by)'
    <3>1. r.by \in Call /\ Current(r.by)
      <4>1. CASE r \in rows[t]
        BY <4>1 DEF Inv, Owned, TypeOK, Row
      <4> QED
        BY <4>1, RowsStep
    <3> QED
      BY <1>2, <3>1, CurrentStays
  <2>2. ASSUME NEW p \in photos' PROVE Current(p.by)' /\ p.nr < sent'[p.by]
    <3>1. p.by \in Call /\ Current(p.by) /\ p.nr < sent'[p.by]
      <4>1. CASE p \in photos
        <5>1. p.by \in Call /\ p.nr \in Nat /\ Current(p.by) /\ p.nr < sent[p.by]
          BY <4>1 DEF Inv, Owned, TypeOK, Photo
        <5>2. sent[p.by] \in Nat /\ sent'[p.by] \in Nat
          BY <5>1, TypeStep DEF Inv, TypeOK
        <5> QED
          BY <5>1, <5>2, SentStep
      <4>2. CASE p \notin photos
        BY <4>2, PhotosStep DEF Inv, TypeOK
      <4> QED
        BY <4>1, <4>2
    <3> QED
      BY <1>2, <3>1, CurrentStays
  <2> QED
    BY <2>1, <2>2 DEF Owned
<1> QED
  BY <1>1, <1>2

(***************************************************************************)
(* The lists of a set-up replace those of the set-ups before it.           *)
(***************************************************************************)
LEMMA AloneKept ==
    ASSUME Inv, [Next]_vars, NEW c \in Call, pc[c] # "start", Alone(c)'
    PROVE  Alone(c)
<1> SUFFICES ASSUME NEW d \in Call \ {c}, Is(d, "setup"), mine[d] # NoProfile
             PROVE  d \in before[c]
  BY DEF Alone
<1>1. before'[c] = before[c] /\ mine'[d] = mine[d]
  BY CallFacts, MineStays
<1>2. Is(d, "setup")'
  BY RequestStays DEF Is
<1> QED
  BY <1>1, <1>2 DEF Alone

\* The rows of a table change by the steps of a set-up that has a profile.
LEMMA RowsBy ==
    ASSUME Inv, [Next]_vars, NEW t \in Table, rows'[t] # rows[t]
    PROVE  \/ EraseUser
           \/ \E d \in Call : /\ ClearRows(d, t) \/ InsertRows(d, t)
                              /\ pc[d] # "done" /\ mine[d] # NoProfile /\ Is(d, "setup")
<1>1. ASSUME NEW d \in Call, NEW u \in Table, ClearRows(d, u) \/ InsertRows(d, u)
      PROVE  u = t /\ pc[d] # "done" /\ mine[d] # NoProfile /\ Is(d, "setup")
  <2>1. u = t
    BY <1>1 DEF ClearRows, InsertRows, Inv, TypeOK
  <2>2. pc[d] \in {"clear_services", "clear_regions", "insert_services", "insert_regions"}
    BY <1>1 DEF ClearRows, InsertRows, Clears, Inserts, Table
  <2> QED
    BY <2>1, <2>2, CallFacts DEF KindAt
<1> QED
  BY <1>1 DEF Next, vars, Step, StartSetup, CreateProfile, UpdateProfile, Reread, StartUpload,
     CountPhotos, StorePhoto, StartRemove, RemovePhoto, Fails

LEMMA ReplacedStep ==
    ASSUME Inv, [Next]_vars, NEW c \in Call, NEW t \in Table
    PROVE  Replaced(c, t)'
<1> SUFFICES ASSUME Cleared(c, t)'
             PROVE  /\ \A r \in rows'[t] : r.by \notin before'[c]
                    /\ Current(c)' /\ Alone(c)' =>
                          ItemsOf(t)' = IF Filled(c, t)' THEN Items(c, t) ELSE {}
  BY RequestStays DEF Replaced, Items
<1>1. /\ TypeOK /\ KindAt(c) /\ Ordered(c) /\ before[c] \subseteq Call
      /\ Replaced(c, t) /\ Owned
  BY CallFacts DEF Inv
<1>2. Is(c, "setup")
  BY RequestStays DEF Cleared, Is
<1>3. CASE ~Cleared(c, t)
  <2>1. Step(c)
    <3>1. ASSUME NEW d \in Call, Step(d), d # c PROVE Cleared(c, t)
      BY <1>1, <1>2, <3>1, Frame DEF Cleared
    <3>2. ASSUME EraseUser \/ UNCHANGED vars PROVE Cleared(c, t)
      BY <1>2, <3>2 DEF Cleared, EraseUser, vars
    <3> QED
      BY <1>3, <3>1, <3>2 DEF Next
  <2>2. ~(StartUpload(c) \/ CountPhotos(c) \/ StorePhoto(c) \/ StartRemove(c) \/ RemovePhoto(c))
    BY <1>1, <1>2 DEF StartUpload, CountPhotos, StorePhoto, StartRemove, RemovePhoto, Is, KindAt
  <2>3. ~(StartSetup(c) \/ CreateProfile(c) \/ UpdateProfile(c) \/ Reread(c) \/ Fails(c))
    BY <1>1, <1>2, <1>3 DEF StartSetup, CreateProfile, UpdateProfile, Reread, Fails, Goto, Return,
       Cleared, TypeOK
  <2>4. PICK u \in Table : ClearRows(c, u) \/ InsertRows(c, u)
    BY <2>1, <2>2, <2>3 DEF Step
  <2>5. ClearRows(c, t)
    BY <1>1, <1>2, <1>3, <2>4 DEF ClearRows, InsertRows, Goto, Return, Cleared, TypeOK, Clears,
       Inserts, Follows, Table
  <2>6. /\ pc[c] \in {"clear_services", "clear_regions"}
        /\ pc'[c] = Inserts[t] /\ UNCHANGED <<profile, mine, before>>
        /\ Current(c) => rows'[t] = {}
        /\ ~Current(c) => rows'[t] = rows[t]
    BY <1>1, <2>5 DEF ClearRows, Goto, Clears, Table, TypeOK
  <2>7. mine[c] # NoProfile
    BY <1>1, <2>6 DEF KindAt
  <2>8. ~Current(c) => \A r \in rows[t] : r.by \notin before[c]
    BY <1>1, <2>7 DEF Owned, Ordered
  <2>9. Current(c)' => Current(c)
    BY <2>6 DEF Current
  <2> QED
    BY <2>6, <2>8, <2>9 DEF ItemsOf, Filled
<1>4. CASE Cleared(c, t)
  <2>1. /\ pc[c] \notin {"start", "create", "update"} /\ mine[c] # NoProfile
        /\ before'[c] = before[c]
    BY <1>1, <1>4, MineStays DEF Cleared, KindAt
  <2>2. \A r \in rows'[t] : r.by \notin before'[c]
    <3> SUFFICES ASSUME NEW r \in rows'[t] PROVE r.by \notin before[c]
      BY <2>1
    <3>1. CASE r \in rows[t]
      BY <1>1, <1>4, <3>1 DEF Replaced
    <3>2. CASE r \notin rows[t]
      <4>1. pc[r.by] = Inserts[t]
        BY <3>2, RowsStep DEF InsertRows
      <4> QED
        BY <1>1, <4>1 DEF Ordered, Inserts, Table
    <3> QED
      BY <3>1, <3>2
  <2>3. ASSUME Current(c)', Alone(c)'
        PROVE  ItemsOf(t)' = IF Filled(c, t)' THEN Items(c, t) ELSE {}
    <3>1. /\ Current(c) /\ Alone(c) /\ profile' # NoProfile
          /\ ItemsOf(t) = IF Filled(c, t) THEN Items(c, t) ELSE {}
      BY <1>1, <1>4, <2>1, <2>3, AloneKept, CurrentKept DEF Replaced, Current
    <3>2. ~ClearRows(c, t)
      BY <1>1, <1>4 DEF ClearRows, Clears, Table, Cleared, KindAt
    <3>3. CASE InsertRows(c, t)
      <4>1. ~Filled(c, t) /\ rows[t] = {}
        BY <3>1, <3>3 DEF InsertRows, Filled, ItemsOf
      <4>2. pc'[c] = Follows[t] /\ Filled(c, t)'
        <5>1. ~Return(c, "error")
          BY <1>1 DEF Return, TypeOK, Cleared
        <5> QED
          BY <1>1, <3>3, <5>1 DEF InsertRows, Goto, TypeOK, Filled, Follows, Inserts, Table
      <4>3. rows'[t] = {[item |-> i, by |-> c] : i \in Items(c, t)}
        <5>1. ~Return(c, "error")
          BY <1>1 DEF Return, TypeOK, Cleared
        <5> QED
          BY <1>1, <3>3, <4>1, <5>1 DEF InsertRows, TypeOK
      <4>4. ItemsOf(t)' = Items(c, t)
        <5>1. ASSUME NEW i \in Items(c, t) PROVE i \in ItemsOf(t)'
          <6>1. [item |-> i, by |-> c] \in rows'[t]
            BY <4>3
          <6> QED
            BY <6>1 DEF ItemsOf
        <5>2. ASSUME NEW i \in ItemsOf(t)' PROVE i \in Items(c, t)
          <6>1. PICK r \in rows'[t] : r.item = i
            BY <5>2 DEF ItemsOf
          <6>2. PICK j \in Items(c, t) : r = [item |-> j, by |-> c]
            BY <4>3
          <6> QED
            BY <6>1, <6>2
        <5> QED
          BY <5>1, <5>2
      <4> QED
        BY <4>2, <4>4 DEF Filled
    <3>4. CASE ~InsertRows(c, t)
      <4>1. rows'[t] = rows[t]
        <5>1. ~EraseUser
          BY <3>1 DEF EraseUser
        <5>2. ASSUME NEW d \in Call, ClearRows(d, t) \/ InsertRows(d, t), pc[d] # "done",
                     mine[d] # NoProfile, Is(d, "setup")
              PROVE  FALSE
          <6>1. d # c
            BY <3>2, <3>4, <5>2
          <6>2. d \in before[c]
            BY <3>1, <5>2, <6>1 DEF Alone
          <6> QED
            BY <1>1, <5>2, <6>2 DEF Ordered
        <5> QED
          BY <5>1, <5>2, RowsBy
      <4>2. Filled(c, t)' <=> Filled(c, t)
        <5>1. pc'[c] = Inserts[t] <=> pc[c] = Inserts[t]
          <6>1. CASE Step(c)
            <7>1. ~Fails(c)
              BY <1>1 DEF Fails, Return, TypeOK, Cleared
            <7>2. CASE StartSetup(c) \/ CreateProfile(c) \/ UpdateProfile(c) \/ StartUpload(c) \/ StartRemove(c)
              BY <2>1, <7>2 DEF StartSetup, CreateProfile, UpdateProfile, StartUpload, StartRemove
            <7>3. CASE CountPhotos(c) \/ StorePhoto(c) \/ RemovePhoto(c)
              BY <1>1, <1>2, <7>3 DEF CountPhotos, StorePhoto, RemovePhoto, KindAt, Is
            <7>4. CASE Reread(c)
              BY <1>1, <7>4 DEF Reread, Return, TypeOK, Inserts, Table
            <7>5. ASSUME NEW u \in Table, ClearRows(c, u)
                  PROVE  pc'[c] = Inserts[t] <=> pc[c] = Inserts[t]
              <8>1. u # t
                BY <3>2, <7>5
              <8>2. pc[c] = Clears[u] /\ pc'[c] = Inserts[u]
                BY <1>1, <7>5 DEF ClearRows, Goto, TypeOK
              <8> QED
                BY <8>1, <8>2 DEF Clears, Inserts, Table
            <7>6. ASSUME NEW u \in Table, InsertRows(c, u)
                  PROVE  pc'[c] = Inserts[t] <=> pc[c] = Inserts[t]
              BY <1>1, <3>4, <7>6 DEF InsertRows, Goto, Return, TypeOK, Follows, Inserts, Table
            <7> QED
              BY <6>1, <7>1, <7>2, <7>3, <7>4, <7>5, <7>6 DEF Step
          <6>2. ASSUME NEW d \in Call, Step(d), d # c PROVE pc'[c] = pc[c]
            BY <1>1, <6>2, Frame
          <6>3. CASE EraseUser \/ UNCHANGED vars
            BY <6>3 DEF EraseUser, vars
          <6> QED
            BY <6>1, <6>2, <6>3 DEF Next
        <5> QED
          BY <1>4, <5>1 DEF Filled
      <4> QED
        BY <3>1, <4>1, <4>2 DEF ItemsOf
    <3> QED
      BY <3>3, <3>4
  <2> QED
    BY <2>2, <2>3
<1> QED
  BY <1>3, <1>4

(***************************************************************************)
(* The images.                                                             *)
(***************************************************************************)
LEMMA RivalStays ==
    ASSUME Inv, [Next]_vars, NEW c \in Call, RivalImage(c)
    PROVE  RivalImage(c)'
<1>1. PICK d \in Call \ {c} : Is(d, "setup") /\ request[d].image /\ Overlap(c, d)
  BY DEF RivalImage
<1>2. /\ mine'[c] = mine[c] /\ before'[c] = before[c]
      /\ mine'[d] = mine[d] /\ before'[d] = before[d]
  BY <1>1, CallFacts, MineStays DEF Overlap
<1>3. Is(d, "setup")' /\ request'[d].image /\ Overlap(c, d)'
  BY <1>1, <1>2, RequestStays DEF Is, Overlap
<1> QED
  BY <1>1, <1>3 DEF RivalImage

LEMMA Appended ==
    ASSUME NEW s \in Seq(Call), NEW e \in Call, NEW c \in Call,
           c = e \/ \E k \in 1..Len(s) : s[k] = c
    PROVE  \E k \in 1..Len(s \o <<e>>) : (s \o <<e>>)[k] = c
<1>1. CASE c = e
  <2>1. Len(s) + 1 \in 1..Len(s \o <<e>>) /\ (s \o <<e>>)[Len(s) + 1] = e
    OBVIOUS
  <2> QED
    BY <1>1, <2>1
<1>2. CASE \E k \in 1..Len(s) : s[k] = c
  <2>1. PICK k \in 1..Len(s) : s[k] = c
    BY <1>2
  <2>2. k \in 1..Len(s \o <<e>>) /\ (s \o <<e>>)[k] = s[k]
    OBVIOUS
  <2> QED
    BY <2>1, <2>2
<1> QED
  BY <1>1, <1>2

\* The image of a set-up gets into the profile by its own step.
LEMMA AddedStep ==
    ASSUME Inv, [Next]_vars, NEW c \in Call, Added(c)', ~Added(c)
    PROVE  \/ UpdateProfile(c)
           \/ CreateProfile(c) /\ profile = NoProfile
<1>1. TypeOK /\ KindAt(c) /\ Is(c, "setup") /\ request[c].image
  BY CallFacts, RequestStays DEF Added, Is
<1>2. Step(c)
  <2>1. ASSUME NEW d \in Call, Step(d), d # c PROVE Added(c)
    BY <1>1, <2>1, Frame DEF Added
  <2>2. ASSUME EraseUser \/ UNCHANGED vars PROVE Added(c)
    BY <1>1, <2>2 DEF Added, EraseUser, vars
  <2> QED
    BY <2>1, <2>2 DEF Next
<1>3. ~(StartUpload(c) \/ CountPhotos(c) \/ StorePhoto(c) \/ StartRemove(c) \/ RemovePhoto(c))
  BY <1>1 DEF StartUpload, CountPhotos, StorePhoto, StartRemove, RemovePhoto, Is, KindAt
<1>4. ~(StartSetup(c) \/ Fails(c) \/ Reread(c))
  BY <1>1 DEF StartSetup, Fails, Reread, Goto, Return, Added, TypeOK
<1>5. ASSUME NEW t \in Table PROVE ~(ClearRows(c, t) \/ InsertRows(c, t))
  BY <1>1 DEF ClearRows, InsertRows, Clears, Inserts, Table, Added
<1>6. CreateProfile(c) => profile = NoProfile
  BY <1>1 DEF CreateProfile, Return, TypeOK, Added
<1> QED
  BY <1>2, <1>3, <1>4, <1>5, <1>6 DEF Step

LEMMA KeptStep ==
    ASSUME Inv, [Next]_vars, NEW c \in Call
    PROVE  Kept(c)'
<1> SUFFICES ASSUME Added(c)', Current(c)', ~RivalImage(c)'
             PROVE  /\ Has(profile, c)'
                    /\ \A d \in Call : c \in before'[d] /\ mine'[d] # NoProfile
                                          => Has(mine[d], c)'
  BY DEF Kept
<1>1. /\ TypeOK /\ KindAt(c) /\ Ordered(c) /\ Kept(c)
      /\ mine[c] # NoProfile => mine[c] \in Profile
  BY CallFacts
<1>2. ~RivalImage(c)
  BY RivalStays
<1>3. \A d \in Call : c \in before'[d] => pc[c] = "done"
  BY CallFacts, Reads DEF Ordered, Ended
<1>4. CASE ~Added(c)
  <2>1. CASE UpdateProfile(c)
    <3>1. pc[c] = "update" /\ mine[c] # NoProfile
      BY <1>1, <2>1 DEF UpdateProfile, KindAt
    <3>2. Current(c) /\ request[c].image
      BY <3>1, CurrentKept, RequestStays DEF Added
    <3>3. profile'.images = mine[c].images \o <<c>>
      BY <1>1, <2>1, <3>2, ProfileUpdated DEF Current
    <3>4. Has(profile, c)'
      BY <1>1, <3>1, <3>3, Appended DEF Has, Profile
    <3> QED
      BY <1>3, <3>1, <3>4
  <2>2. CASE CreateProfile(c) /\ profile = NoProfile
    <3>1. pc[c] = "create" /\ request[c].image
      BY <2>2, RequestStays DEF CreateProfile, Added
    <3>2. profile' = [id |-> c, images |-> <<c>>]
      BY <2>2, <3>1 DEF CreateProfile, Image
    <3>3. Has(profile, c)'
      <4>1. profile'.images = <<c>>
        BY <3>2
      <4>2. 1 \in 1..Len(<<c>>) /\ <<c>>[1] = c
        OBVIOUS
      <4> QED
        BY <4>1, <4>2 DEF Has
    <3> QED
      BY <1>3, <3>1, <3>3
  <2> QED
    BY <1>4, <2>1, <2>2, AddedStep
<1>5. CASE Added(c)
  <2>1. mine[c] # NoProfile
    BY <1>1, <1>5 DEF Added, KindAt
  <2>2. Current(c) /\ profile # NoProfile /\ profile' # NoProfile
    BY <2>1, CurrentKept DEF Current
  <2>3. /\ Has(profile, c)
        /\ \A d \in Call : c \in before[d] /\ mine[d] # NoProfile => Has(mine[d], c)
    BY <1>1, <1>2, <1>5, <2>2 DEF Kept
  <2>4. Has(profile, c)'
    <3>1. CASE profile' = profile
      BY <2>3, <3>1 DEF Has
    <3>2. ASSUME NEW d \in Call, UpdateProfile(d), Current(d), request[d].image
          PROVE  Has(profile, c)'
      <4>1. /\ pc[d] = "update" /\ Is(d, "setup") /\ mine[d] # NoProfile
            /\ mine[d] \in Profile
        BY <3>2, CallFacts DEF UpdateProfile, KindAt
      <4>2. profile'.images = mine[d].images \o <<d>>
        BY <1>1, <2>2, <3>2, ProfileUpdated
      <4>3. c = d \/ c \in before[d]
        <5>1. d \notin before[c]
          BY <1>1, <4>1 DEF Ordered
        <5> QED
          BY <1>2, <2>1, <3>2, <4>1, <5>1 DEF RivalImage, Overlap
      <4>4. c = d \/ \E k \in 1..Len(mine[d].images) : mine[d].images[k] = c
        BY <2>3, <4>1, <4>3 DEF Has
      <4> QED
        BY <4>1, <4>2, <4>4, Appended DEF Has, Profile
    <3>3. profile' = profile \/ \E d \in Call : UpdateProfile(d) /\ Current(d) /\ request[d].image
      <4>1. ~EraseUser
        BY <2>2 DEF EraseUser
      <4>2. ASSUME NEW d \in Call, UpdateProfile(d), ~(Current(d) /\ request[d].image)
            PROVE  profile' = profile
        BY <1>1, <2>2, <4>2, ProfileUpdated
      <4>3. ASSUME NEW d \in Call, CreateProfile(d) PROVE profile' = profile
        BY <2>2, <4>3 DEF CreateProfile
      <4> QED
        BY <4>1, <4>2, <4>3 DEF Next, vars, Step, StartSetup, ClearRows, InsertRows, Reread,
           StartUpload, CountPhotos, StorePhoto, StartRemove, RemovePhoto, Fails
    <3> QED
      BY <3>1, <3>2, <3>3
  <2>5. ASSUME NEW d \in Call, c \in before'[d], mine'[d] # NoProfile PROVE Has(mine[d], c)'
    <3>1. CASE mine'[d] = mine[d] /\ before'[d] = before[d]
      BY <2>3, <2>5, <3>1 DEF Has
    <3>2. CASE mine'[d] = profile
      BY <2>3, <3>2 DEF Has
    <3> QED
      BY <1>1, <2>2, <3>1, <3>2, Reads
  <2> QED
    BY <2>4, <2>5
<1> QED
  BY <1>4, <1>5

(***************************************************************************)
(* The photos that an upload has counted.                                  *)
(***************************************************************************)
\* The photos of the calls before a call never become more.
LEMMA EarlierShrinks ==
    ASSUME Inv, [Next]_vars, NEW c \in Call, pc[c] # "start"
    PROVE  Earlier(c)' \subseteq Earlier(c)
<1>1. before'[c] = before[c] /\ Ordered(c)
  BY CallFacts, MineStays
<1>2. ASSUME NEW p \in photos', p.by \in before[c] PROVE p \in photos
  <2>1. CASE p \notin photos
    <3>1. pc[p.by] = "store"
      BY <2>1, PhotosStep DEF StorePhoto
    <3> QED
      BY <1>1, <1>2, <3>1 DEF Ordered
  <2> QED
    BY <2>1
<1> QED
  BY <1>1, <1>2 DEF Earlier

LEMMA EarlierFinite ==
    ASSUME Inv, NEW c \in Call
    PROVE  IsFiniteSet(Earlier(c)) /\ Cardinality(Earlier(c)) \in Nat
<1>1. Earlier(c) \subseteq photos /\ IsFiniteSet(photos)
  BY DEF Earlier, Inv
<1> QED
  BY <1>1, FS_Subset, FS_CardinalityType

\* A call has no more photos than it has inserted.
LEMMA OwnPhotos ==
    ASSUME Inv, NEW c \in Call
    PROVE  /\ IsFiniteSet({p \in photos : p.by = c})
           /\ Cardinality({p \in photos : p.by = c}) \in Nat
           /\ Cardinality({p \in photos : p.by = c}) <= sent[c]
<1> DEFINE own == {p \in photos : p.by = c}
           f == [p \in own |-> p.nr]
<1>1. IsFiniteSet(own) /\ Cardinality(own) \in Nat
  <2>1. own \subseteq photos /\ IsFiniteSet(photos)
    BY DEF Inv
  <2> QED
    BY <2>1, FS_Subset, FS_CardinalityType
<1>2. sent[c] \in Nat
  BY DEF Inv, TypeOK
<1>3. IsFiniteSet(0..(sent[c] - 1)) /\ Cardinality(0..(sent[c] - 1)) = sent[c]
  <2>1. 0 \in Int /\ sent[c] - 1 \in Int
    BY <1>2
  <2>2. /\ IsFiniteSet(0..(sent[c] - 1))
        /\ Cardinality(0..(sent[c] - 1))
              = IF 0 > sent[c] - 1 THEN 0 ELSE (sent[c] - 1) - 0 + 1
    BY <2>1, FS_Interval
  <2> QED
    BY <1>2, <2>2
<1>4. \A p \in own : p.nr \in 0..(sent[c] - 1) /\ p = [by |-> c, nr |-> p.nr]
  <2> SUFFICES ASSUME NEW p \in own PROVE p.nr \in 0..(sent[c] - 1) /\ p = [by |-> c, nr |-> p.nr]
    OBVIOUS
  <2>1. p \in Photo /\ p.by = c /\ p.nr < sent[c]
    BY DEF Inv, TypeOK, Owned
  <2> QED
    BY <1>2, <2>1 DEF Photo
<1>5. f \in [own -> 0..(sent[c] - 1)]
  BY <1>4
<1>6. \A p, q \in own : f[p] = f[q] => p = q
  BY <1>4
<1>7. f \in Injection(own, 0..(sent[c] - 1))
  BY <1>5, <1>6 DEF Injection, IsInjective
<1> HIDE DEF own, f
<1>8. Cardinality(own) <= Cardinality(0..(sent[c] - 1))
  BY <1>3, <1>7, FS_Injection
<1> QED
  BY <1>1, <1>3, <1>8 DEF own

LEMMA BoundedStep ==
    ASSUME Inv, [Next]_vars, NEW c \in Call
    PROVE  Bounded(c)'
<1>1. /\ TypeOK /\ KindAt(c) /\ Bounded(c) /\ Ordered(c)
      /\ request[c].size \in Nat /\ sent[c] \in Nat /\ counted[c] \in Nat
  BY CallFacts, RequestTypes DEF TypeOK
<1>2. CASE CountPhotos(c)
  <2>1. Earlier(c) \subseteq PhotosOf(c)
    <3>1. CASE Current(c)
      BY <3>1 DEF Earlier, PhotosOf
    <3>2. CASE ~Current(c)
      <4>1. mine[c] # NoProfile
        BY <1>1, <1>2 DEF CountPhotos, KindAt
      <4>2. \A p \in photos : p.by \notin before[c]
        BY <1>1, <3>2, <4>1 DEF Inv, Owned, Ordered
      <4> QED
        BY <4>2 DEF Earlier
    <3> QED
      BY <3>1, <3>2
  <2>2. IsFiniteSet(PhotosOf(c))
    BY FS_EmptySet DEF PhotosOf, Inv
  <2>3. /\ Cardinality(Earlier(c)) <= Cardinality(PhotosOf(c))
        /\ Cardinality(PhotosOf(c)) \in Nat
    BY <2>1, <2>2, FS_Subset, FS_CardinalityType
  <2>4. /\ counted'[c] = Cardinality(PhotosOf(c)) /\ sent'[c] = 0
        /\ request' = request /\ UNCHANGED <<photos, before>>
        /\ \/ pc'[c] = "done"
           \/ pc'[c] = "store" /\ counted'[c] + request[c].size <= MaxPhotos
    <3>1. sent'[c] = 0 /\ request' = request /\ UNCHANGED <<photos, before>>
      BY <1>1, <1>2 DEF CountPhotos, Bounded
    <3>2. counted'[c] = Cardinality(PhotosOf(c))
      BY <1>1, <1>2 DEF CountPhotos, TypeOK
    <3>3. CASE counted'[c] + request[c].size > MaxPhotos
      BY <1>1, <1>2, <3>1, <3>2, <3>3 DEF CountPhotos, Return, TypeOK
    <3>4. CASE ~(counted'[c] + request[c].size > MaxPhotos)
      <4>1. pc'[c] = "store"
        BY <1>1, <1>2, <3>4 DEF CountPhotos, Goto, TypeOK
      <4> QED
        BY <1>1, <2>3, <3>1, <3>2, <3>4, <4>1, LimitAssumption
    <3> QED
      BY <3>3, <3>4
  <2>5. Earlier(c)' = Earlier(c)
    BY <2>4 DEF Earlier
  <2> QED
    BY <1>1, <2>3, <2>4, <2>5 DEF Bounded
<1>3. CASE ~CountPhotos(c)
  <2>1. counted'[c] = counted[c]
    <3>1. CASE Step(c)
      BY <1>3, <3>1 DEF Step, StartSetup, CreateProfile, UpdateProfile, ClearRows, InsertRows,
         Reread, StartUpload, StorePhoto, StartRemove, RemovePhoto, Fails
    <3>2. ASSUME NEW d \in Call, Step(d), d # c PROVE counted'[c] = counted[c]
      BY <1>1, <3>2, Frame
    <3>3. CASE EraseUser \/ UNCHANGED vars
      BY <3>3 DEF EraseUser, vars
    <3> QED
      BY <3>1, <3>2, <3>3 DEF Next
  <2>2. CASE StorePhoto(c)
    <3>1. pc[c] = "store" /\ request' = request
      BY <2>2, RequestStays DEF StorePhoto
    <3>2. sent'[c] <= request[c].size /\ pc'[c] \in {"store", "done"}
      BY <1>1, <2>2, <3>1 DEF StorePhoto, Return, Bounded, TypeOK
    <3>3. Cardinality(Earlier(c)') <= Cardinality(Earlier(c)) /\ Cardinality(Earlier(c)') \in Nat
      BY <3>1, EarlierShrinks, EarlierFinite, FS_Subset, FS_CardinalityType
    <3> QED
      BY <1>1, <2>1, <3>1, <3>2, <3>3, EarlierFinite DEF Bounded
  <2>3. CASE ~StorePhoto(c)
    <3>1. sent'[c] = sent[c] /\ request' = request
      BY <2>3, SentStep, RequestStays
    <3>2. \/ pc'[c] \in {"done", pc[c]}
          \/ pc[c] \notin {"store", "done"} /\ pc'[c] \notin {"store", "done"}
      <4>1. CASE Step(c)
        <5>1. CASE StartSetup(c) \/ StartUpload(c) \/ StartRemove(c)
          BY <1>1, <5>1 DEF StartSetup, StartUpload, StartRemove, Goto, Return, TypeOK
        <5>2. CASE CreateProfile(c) \/ UpdateProfile(c) \/ Reread(c) \/ RemovePhoto(c) \/ Fails(c)
          BY <1>1, <5>2 DEF CreateProfile, UpdateProfile, Reread, RemovePhoto, Fails, Goto, Return,
             TypeOK
        <5>3. ASSUME NEW t \in Table, ClearRows(c, t) \/ InsertRows(c, t)
              PROVE  pc[c] \notin {"store", "done"} /\ pc'[c] # "store"
          BY <1>1, <5>3 DEF ClearRows, InsertRows, Goto, Return, Clears, Inserts, Follows, Table,
             TypeOK
        <5>4. ASSUME NEW t \in Table, ClearRows(c, t) \/ InsertRows(c, t)
              PROVE  pc'[c] = "done" \/ pc'[c] \notin {"store", "done"}
          BY <5>3, <5>4
        <5> QED
          BY <1>3, <2>3, <4>1, <5>1, <5>2, <5>3, <5>4 DEF Step
      <4>2. ASSUME NEW d \in Call, Step(d), d # c PROVE pc'[c] = pc[c]
        BY <1>1, <4>2, Frame
      <4>3. CASE EraseUser \/ UNCHANGED vars
        BY <4>3 DEF EraseUser, vars
      <4> QED
        BY <4>1, <4>2, <4>3 DEF Next
    <3>3. pc[c] = "store" \/ sent[c] > 0 =>
             Cardinality(Earlier(c)') <= Cardinality(Earlier(c)) /\ Cardinality(Earlier(c)') \in Nat
      BY <1>1, EarlierShrinks, EarlierFinite, FS_Subset, FS_CardinalityType DEF Bounded
    <3> QED
      BY <1>1, <2>1, <3>1, <3>2, <3>3, EarlierFinite DEF Bounded
  <2> QED
    BY <2>2, <2>3
<1> QED
  BY <1>2, <1>3

(***************************************************************************)
(* The invariant.                                                          *)
(***************************************************************************)
LEMMA InitInv == Init => Inv
<1> SUFFICES ASSUME Init PROVE Inv
  OBVIOUS
<1>1. TypeOK
  BY TypeInit
<1>2. IsFiniteSet(photos) /\ Named(profile) /\ Owned
  BY FS_EmptySet DEF Init, Named, Owned
<1>3. ASSUME NEW c \in Call
      PROVE  /\ pc[c] = "start" /\ outcome[c] = "none" /\ mine[c] = NoProfile
             /\ before[c] = {} /\ sent[c] = 0 /\ request[c].size \in Nat
  BY <1>1, RequestTypes DEF Init
<1>4. ASSUME NEW c \in Call PROVE KindAt(c) /\ Named(mine[c]) /\ Ordered(c) /\ Kept(c) /\ Bounded(c)
  <2>1. ~Added(c)
    BY <1>3 DEF Added
  <2> QED
    BY <1>3, <2>1 DEF KindAt, Named, Ordered, Kept, Bounded
<1>5. ASSUME NEW c \in Call, NEW t \in Table PROVE Replaced(c, t)
  BY <1>3 DEF Replaced, Cleared
<1> QED
  BY <1>1, <1>2, <1>4, <1>5 DEF Inv

LEMMA KindAtStep ==
    ASSUME Inv, [Next]_vars, NEW c \in Call
    PROVE  KindAt(c)'
<1>1. TypeOK /\ KindAt(c) /\ request' = request
  BY CallFacts, RequestStays
<1>2. CASE Step(c)
  BY <1>1, <1>2, KindStep
<1>3. ASSUME NEW d \in Call, Step(d), d # c PROVE KindAt(c)'
  BY <1>1, <1>3, Frame DEF KindAt, Is
<1>4. CASE EraseUser \/ UNCHANGED vars
  BY <1>1, <1>4 DEF KindAt, Is, EraseUser, vars
<1> QED
  BY <1>2, <1>3, <1>4 DEF Next

LEMMA InvStep == Inv /\ [Next]_vars => Inv'
<1> SUFFICES ASSUME Inv, [Next]_vars PROVE Inv'
  OBVIOUS
<1>1. TypeOK' /\ IsFiniteSet(photos)'
  BY TypeStep, FiniteStep DEF Inv
<1>2. Named(profile)' /\ Owned'
  BY NamedStep, OwnedStep
<1>3. \A c \in Call : KindAt(c)' /\ Named(mine[c])' /\ Ordered(c)' /\ Kept(c)' /\ Bounded(c)'
  BY KindAtStep, NamedStep, OrderedStep, KeptStep, BoundedStep
<1>4. \A c \in Call, t \in Table : Replaced(c, t)'
  BY ReplacedStep
<1> QED
  BY <1>1, <1>2, <1>3, <1>4 DEF Inv

\* The handlers of a tradie's profile keep the inductive invariant, whatever the requests.
THEOREM Invariance == Spec => []Inv
BY InitInv, InvStep, PTL DEF Spec

\* The rows, the calls and their answers keep their types.
THEOREM TypeCorrect == Spec => []TypeOK
<1>1. Inv => TypeOK
  BY DEF Inv
<1> QED
  BY <1>1, Invariance, PTL

\* A set-up that answered leaves nothing of the set-ups before it, and if none ran beside it
\* the categories and regions are those it asked for.
THEOREM SetupCorrect == Spec => []SetupReplaces
<1>1. Inv => SetupReplaces
  <2> SUFFICES ASSUME Inv, NEW c \in Call, Is(c, "setup"), outcome[c] = "ok", NEW t \in Table
               PROVE  /\ \A r \in rows[t] : r.by \notin before[c]
                      /\ Current(c) /\ Alone(c) => ItemsOf(t) = Items(c, t)
    BY DEF SetupReplaces
  <2>1. Replaced(c, t) /\ pc[c] = "done"
    BY CallFacts DEF Inv, KindAt
  <2>2. Cleared(c, t) /\ Filled(c, t)
    BY <2>1 DEF Cleared, Filled, Inserts, Table
  <2> QED
    BY <2>1, <2>2 DEF Replaced
<1> QED
  BY <1>1, Invariance, PTL

\* An upload and the uploads before it keep within the limit.
THEOREM LimitCorrect == Spec => []LimitInSequence
<1>1. Inv => LimitInSequence
  <2> SUFFICES ASSUME Inv, NEW c \in Call, sent[c] > 0
               PROVE  Cardinality({p \in photos : p.by = c \/ p.by \in before[c]}) <= MaxPhotos
    BY DEF LimitInSequence
  <2> DEFINE own == {p \in photos : p.by = c}
  <2>1. /\ Bounded(c) /\ sent[c] \in Nat /\ counted[c] \in Nat /\ request[c].size \in Nat
    BY CallFacts, RequestTypes DEF TypeOK
  <2>2. IsFiniteSet(own) /\ Cardinality(own) <= sent[c] /\ Cardinality(own) \in Nat
    BY OwnPhotos
  <2> HIDE DEF own
  <2>3. {p \in photos : p.by = c \/ p.by \in before[c]} = own \cup Earlier(c)
    BY DEF Earlier, own
  <2>4. Cardinality(own \cup Earlier(c)) <= Cardinality(own) + Cardinality(Earlier(c))
    <3>1. IsFiniteSet(own \cap Earlier(c)) /\ Cardinality(own \cap Earlier(c)) \in Nat
      BY <2>2, FS_Intersection, FS_CardinalityType
    <3>2. Cardinality(own \cup Earlier(c))
             = Cardinality(own) + Cardinality(Earlier(c)) - Cardinality(own \cap Earlier(c))
      BY <2>2, EarlierFinite, FS_Union
    <3> QED
      BY <2>2, <3>1, <3>2, EarlierFinite
  <2>5. IsFiniteSet(own \cup Earlier(c)) /\ Cardinality(own \cup Earlier(c)) \in Nat
    BY <2>2, EarlierFinite, FS_Union, FS_CardinalityType
  <2>6. /\ Cardinality(Earlier(c)) <= counted[c] /\ Cardinality(Earlier(c)) \in Nat
        /\ sent[c] <= request[c].size /\ counted[c] + request[c].size <= MaxPhotos
    BY <2>1, EarlierFinite DEF Bounded
  <2>7. Cardinality(own \cup Earlier(c)) <= MaxPhotos
    BY <2>1, <2>2, <2>4, <2>5, <2>6, LimitAssumption
  <2> QED
    BY <2>3, <2>7
<1> QED
  BY <1>1, Invariance, PTL

\* An image that a set-up added is only lost to another one at the same time.
THEOREM ImagesCorrect == Spec => []ImageLostOnlyInRace
<1>1. Inv => ImageLostOnlyInRace
  BY CallFacts DEF ImageLostOnlyInRace, Kept, Added
<1> QED
  BY <1>1, Invariance, PTL
=============================================================================
