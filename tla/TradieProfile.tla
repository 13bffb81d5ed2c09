----------------------------- MODULE TradieProfile -----------------------------
(***************************************************************************)
(* TradieService.setupProfile, addWorkPhotos and deleteWorkPhoto for one   *)
(* tradie (src/src/modules/tradie), and the admin's erasure of the account. *)
(*                                                                         *)
(* None of the handlers uses a transaction: the profile is read by one     *)
(* query and written by others, and its categories and regions are         *)
(* replaced by a DELETE and an INSERT.  A row is named by the call that    *)
(* inserted it.  The columns of a profile that a set-up overwrites without *)
(* looking at them are left out, and so is the catalog that its categories *)
(* and regions are looked up in: Unlisted is an id that is not there, or   *)
(* one that the list repeats, which fails the same count.                  *)
(***************************************************************************)
EXTENDS Naturals, FiniteSets, Sequences

CONSTANTS Call,         \* the requests
          Item,         \* ids of categories and of regions
          Unlisted,     \* those that are not in the catalog
          Request,      \* what a request may ask for
          MaxServices,  \* six categories
          MaxPhotos,    \* twenty photos
          NoProfile     \* no row of tradie_profiles

Kind == {"setup", "upload", "remove"}

\* A set-up carries categories, regions and perhaps an image; an upload its number of
\* photos.  What a kind does not carry is empty.
AnyRequest == [kind : Kind, services : SUBSET Item, regions : SUBSET Item,
               image : BOOLEAN, size : Nat]

ASSUME RequestAssumption == Request \subseteq AnyRequest /\ Unlisted \subseteq Item
ASSUME LimitAssumption == MaxServices \in Nat /\ MaxPhotos \in Nat
ASSUME NoProfileAssumption == NoProfile \notin [id : Call, images : Seq(Call)]

Table == {"services", "regions"}

VARIABLES
    profile,   \* the row of tradie_profiles
    rows,      \* tradie_services and tradie_regions
    photos,    \* tradie_work_photos
    request,   \* what each call asks for
    pc,        \* the query each call waits for
    mine,      \* the profile a call has read or inserted
    counted,   \* the photos an upload has counted
    sent,      \* the photos an upload has inserted
    outcome,   \* what each call answered
    before     \* history: the calls that had ended when a call read the profile

vars == <<profile, rows, photos, request, pc, mine, counted, sent, outcome, before>>

Profile == [id : Call, images : Seq(Call)]
Row     == [item : Item, by : Call]
Photo   == [by : Call, nr : Nat]

Label == {"start", "create", "update", "clear_services", "insert_services", "clear_regions",
          "insert_regions", "reread", "count", "store", "remove", "done"}

Outcomes == {"none", "ok", "bad_request", "not_found", "error"}

TypeOK ==
    /\ profile \in Profile \cup {NoProfile}
    /\ rows \in [Table -> SUBSET Row]
    /\ photos \subseteq Photo
    /\ request \in [Call -> Request]
    /\ pc \in [Call -> Label]
    /\ mine \in [Call -> Profile \cup {NoProfile}]
    /\ counted \in [Call -> Nat]
    /\ sent \in [Call -> Nat]
    /\ outcome \in [Call -> Outcomes]
    /\ before \in [Call -> SUBSET Call]

Init ==
    /\ profile = NoProfile
    /\ rows = [t \in Table |-> {}]
    /\ photos = {}
    /\ request \in [Call -> Request]
    /\ pc = [c \in Call |-> "start"]
    /\ mine = [c \in Call |-> NoProfile]
    /\ counted = [c \in Call |-> 0]
    /\ sent = [c \in Call |-> 0]
    /\ outcome = [c \in Call |-> "none"]
    /\ before = [c \in Call |-> {}]
-----------------------------------------------------------------------------
Goto(c, label) ==
    /\ pc' = [pc EXCEPT ![c] = label]
    /\ UNCHANGED outcome

Return(c, o) ==
    /\ pc' = [pc EXCEPT ![c] = "done"]
    /\ outcome' = [outcome EXCEPT ![c] = o]

Is(c, kind) == request[c].kind = kind

Ended == {c \in Call : pc[c] = "done"}

\* The profile that call c has read is still there; the foreign keys cascade, so rows and
\* photos are always those of the profile.
Current(c) == profile # NoProfile /\ mine[c] # NoProfile /\ profile.id = mine[c].id

\* findByUserId, the first query of every handler that is not about the catalog.
ReadProfile(c) ==
    /\ mine' = [mine EXCEPT ![c] = profile]
    /\ before' = [before EXCEPT ![c] = Ended]

(***************************************************************************)
(* setupProfile.                                                           *)
(***************************************************************************)
Refused(r) == \/ Cardinality(r.services) > MaxServices
              \/ r.services \cap Unlisted # {}
              \/ r.regions \cap Unlisted # {}

StartSetup(c) ==
    /\ pc[c] = "start" /\ Is(c, "setup")
    /\ \/ /\ Refused(request[c])
          /\ Return(c, "bad_request")
          /\ UNCHANGED <<mine, before>>
       \/ /\ ~Refused(request[c])
          /\ ReadProfile(c)
          /\ Goto(c, IF profile = NoProfile THEN "create" ELSE "update")
    /\ UNCHANGED <<profile, rows, photos, request, counted, sent>>

Image(c) == IF request[c].image THEN <<c>> ELSE <<>>

\* user_id is unique: of two set-ups that found no profile, one fails here.
CreateProfile(c) ==
    /\ pc[c] = "create"
    /\ \/ /\ profile = NoProfile
          /\ profile' = [id |-> c, images |-> Image(c)]
          /\ mine' = [mine EXCEPT ![c] = profile']
          /\ Goto(c, "clear_services")
       \/ /\ profile # NoProfile
          /\ Return(c, "error")
          /\ UNCHANGED <<profile, mine>>
    /\ UNCHANGED <<rows, photos, request, counted, sent, before>>

\* Faulty variant, for testing ImageLostOnlyInRace: the images read are not kept.
UpdateOneImage(c) ==
    /\ pc[c] = "update"
    /\ profile' = IF Current(c) /\ request[c].image
                    THEN [profile EXCEPT !.images = <<c>>]
                    ELSE profile
    /\ Goto(c, "clear_services")
    /\ UNCHANGED <<rows, photos, request, mine, counted, sent, before>>

\* The list of images is written whole, from the one read; without an image it is not
\* written.  An UPDATE of a profile that is gone does nothing.
UpdateProfile(c) ==
    /\ pc[c] = "update"
    /\ profile' = IF Current(c) /\ request[c].image
                    THEN [profile EXCEPT !.images = mine[c].images \o <<c>>]
                    ELSE profile
    /\ Goto(c, "clear_services")
    /\ UNCHANGED <<rows, photos, request, mine, counted, sent, before>>

Items(c, t) == IF t = "services" THEN request[c].services ELSE request[c].regions

Clears  == [services |-> "clear_services", regions |-> "clear_regions"]
Inserts == [services |-> "insert_services", regions |-> "insert_regions"]

\* The query that follows once the rows of a table are replaced.
Follows == [services |-> "clear_regions", regions |-> "reread"]

\* Faulty variant, for testing SetupReplaces: the old rows are left.
KeepRows(c, t) ==
    /\ pc[c] = Clears[t]
    /\ Goto(c, Inserts[t])
    /\ UNCHANGED <<profile, rows, photos, request, mine, counted, sent, before>>

\* The DELETE of setServices or setRegions.
ClearRows(c, t) ==
    /\ pc[c] = Clears[t]
    /\ rows' = IF Current(c) THEN [rows EXCEPT ![t] = {}] ELSE rows
    /\ Goto(c, Inserts[t])
    /\ UNCHANGED <<profile, photos, request, mine, counted, sent, before>>

\* The INSERT of all rows at once: the index of profile and item, or the foreign key of
\* a profile that is gone, refuses it as a whole.
InsertRows(c, t) ==
    /\ pc[c] = Inserts[t]
    /\ \/ /\ Items(c, t) = {}
          /\ Goto(c, Follows[t])
          /\ UNCHANGED rows
       \/ /\ Items(c, t) # {}
          /\ Current(c) /\ \A r \in rows[t] : r.item \notin Items(c, t)
          /\ rows' = [rows EXCEPT ![t] = @ \cup {[item |-> i, by |-> c] : i \in Items(c, t)}]
          /\ Goto(c, Follows[t])
       \/ /\ Items(c, t) # {}
          /\ ~Current(c) \/ \E r \in rows[t] : r.item \in Items(c, t)
          /\ Return(c, "error")
          /\ UNCHANGED rows
    /\ UNCHANGED <<profile, photos, request, mine, counted, sent, before>>

\* The profile is read back and returned, whatever other calls have made of it.
Reread(c) ==
    /\ pc[c] = "reread"
    /\ Return(c, "ok")
    /\ UNCHANGED <<profile, rows, photos, request, mine, counted, sent, before>>

(***************************************************************************)
(* addWorkPhotos counts the photos and then inserts its own one by one.    *)
(***************************************************************************)
StartUpload(c) ==
    /\ pc[c] = "start" /\ Is(c, "upload")
    /\ ReadProfile(c)
    /\ IF profile = NoProfile THEN Return(c, "not_found") ELSE Goto(c, "count")
    /\ UNCHANGED <<profile, rows, photos, request, counted, sent>>

\* Photos of the profile read, none if that is gone.
PhotosOf(c) == IF Current(c) THEN photos ELSE {}

\* Faulty variant, for testing LimitInSequence: the photos to come are not counted.
CountStored(c) ==
    /\ pc[c] = "count"
    /\ counted' = [counted EXCEPT ![c] = Cardinality(PhotosOf(c))]
    /\ IF counted'[c] > MaxPhotos THEN Return(c, "bad_request") ELSE Goto(c, "store")
    /\ UNCHANGED <<profile, rows, photos, request, mine, sent, before>>

CountPhotos(c) ==
    /\ pc[c] = "count"
    /\ counted' = [counted EXCEPT ![c] = Cardinality(PhotosOf(c))]
    /\ IF counted'[c] + request[c].size > MaxPhotos THEN Return(c, "bad_request")
                                                    ELSE Goto(c, "store")
    /\ UNCHANGED <<profile, rows, photos, request, mine, sent, before>>

StorePhoto(c) ==
    /\ pc[c] = "store"
    /\ \/ /\ sent[c] = request[c].size
          /\ Return(c, "ok")
          /\ UNCHANGED <<photos, sent>>
       \/ /\ sent[c] < request[c].size /\ Current(c)
          /\ photos' = photos \cup {[by |-> c, nr |-> sent[c]]}
          /\ sent' = [sent EXCEPT ![c] = @ + 1]
          /\ UNCHANGED <<pc, outcome>>
       \/ /\ sent[c] < request[c].size /\ ~Current(c)
          /\ Return(c, "error")
          /\ UNCHANGED <<photos, sent>>
    /\ UNCHANGED <<profile, rows, request, mine, counted, before>>

(***************************************************************************)
(* deleteWorkPhoto, of any photo or of one that is not there.              *)
(***************************************************************************)
StartRemove(c) ==
    /\ pc[c] = "start" /\ Is(c, "remove")
    /\ ReadProfile(c)
    /\ IF profile = NoProfile THEN Return(c, "not_found") ELSE Goto(c, "remove")
    /\ UNCHANGED <<profile, rows, photos, request, counted, sent>>

RemovePhoto(c) ==
    /\ pc[c] = "remove"
    /\ \/ /\ \E p \in PhotosOf(c) : photos' = photos \ {p}
          /\ Return(c, "ok")
       \/ /\ Return(c, "not_found")
          /\ UNCHANGED photos
    /\ UNCHANGED <<profile, rows, request, mine, counted, sent, before>>
-----------------------------------------------------------------------------
\* A query fails, and with it the call; what was done stays done.
Fails(c) ==
    /\ pc[c] # "done"
    /\ Return(c, "error")
    /\ UNCHANGED <<profile, rows, photos, request, mine, counted, sent, before>>

\* The transaction of deleteUser, as far as the profile goes.  The access token of the
\* tradie stays valid, so calls may still start.
EraseUser ==
    /\ profile # NoProfile
    /\ profile' = NoProfile
    /\ rows' = [t \in Table |-> {}]
    /\ photos' = {}
    /\ UNCHANGED <<request, pc, mine, counted, sent, outcome, before>>

Step(c) ==
    \/ StartSetup(c) \/ CreateProfile(c) \/ UpdateProfile(c)
    \/ \E t \in Table : ClearRows(c, t) \/ InsertRows(c, t)
    \/ Reread(c)
    \/ StartUpload(c) \/ CountPhotos(c) \/ StorePhoto(c)
    \/ StartRemove(c) \/ RemovePhoto(c)
    \/ Fails(c)

Next == (\E c \in Call : Step(c)) \/ EraseUser

Spec == Init /\ [][Next]_vars
-----------------------------------------------------------------------------
\* Calls c and d both got to a profile, and neither had ended when the other read it.
Overlap(c, d) ==
    /\ mine[c] # NoProfile /\ mine[d] # NoProfile
    /\ c \notin before[d] /\ d \notin before[c]

\* No other set-up got to a profile while set-up c ran, nor since.
Alone(c) ==
    \A d \in Call \ {c} : Is(d, "setup") => d \in before[c] \/ mine[d] = NoProfile

ItemsOf(t) == {r.item : r \in rows[t]}

\* After a set-up that answered there is nothing left of the set-ups that ended before it,
\* also of those that failed half-way; and if none ran with it or since, the categories and
\* regions are exactly those it asked for.
SetupReplaces ==
    \A c \in Call : Is(c, "setup") /\ outcome[c] = "ok" =>
        \A t \in Table :
            /\ \A r \in rows[t] : r.by \notin before[c]
            /\ Current(c) /\ Alone(c) => ItemsOf(t) = Items(c, t)

\* The photos of an upload and those of the uploads that had ended before it keep within
\* the limit, whatever is removed or uploaded meanwhile.
LimitInSequence ==
    \A c \in Call : sent[c] > 0 =>
        Cardinality({p \in photos : p.by = c \/ p.by \in before[c]}) <= MaxPhotos

\* Profile q shows the image of set-up c.
Has(q, c) == \E k \in 1..Len(q.images) : q.images[k] = c

RivalImage(c) == \E d \in Call \ {c} : Is(d, "setup") /\ request[d].image /\ Overlap(c, d)

\* A business image that a set-up added is only lost to another one at the same time, or
\* with the profile.
ImageLostOnlyInRace ==
    \A c \in Call :
        Is(c, "setup") /\ request[c].image /\ outcome[c] = "ok" /\ Current(c)
            => Has(profile, c) \/ RivalImage(c)
-----------------------------------------------------------------------------
(***************************************************************************)
(* The inductive invariant.                                                *)
(***************************************************************************)
\* Where a call of each kind may be, and what it knows there.
KindAt(c) ==
    /\ pc[c] \notin {"start", "count", "store", "remove", "done"} => Is(c, "setup")
    /\ pc[c] \in {"count", "store"} => Is(c, "upload")
    /\ pc[c] = "remove" => Is(c, "remove")
    /\ pc[c] = "done" <=> outcome[c] # "none"
    /\ pc[c] \in {"start", "create"} => mine[c] = NoProfile
    /\ pc[c] \notin {"start", "create", "done"} => mine[c] # NoProfile
    /\ outcome[c] = "ok" => mine[c] # NoProfile

\* A profile is named by the set-up that created it, which creates no other.
Named(q) ==
    q # NoProfile => /\ pc[q.id] \notin {"start", "create"}
                     /\ mine[q.id] # NoProfile /\ mine[q.id].id = q.id

\* A call reads after the calls before it have ended, and finds their profile if that is
\* still there.
Ordered(c) ==
    /\ pc[c] = "start" => before[c] = {}
    /\ \A d \in before[c] : pc[d] = "done" /\ (Current(d) /\ mine[c] # NoProfile => Current(c))

\* The foreign keys: rows and photos are those of the profile.
Owned ==
    /\ \A t \in Table : \A r \in rows[t] : Current(r.by)
    /\ \A p \in photos : Current(p.by) /\ p.nr < sent[p.by]

\* Set-up c has emptied table t, and has filled it.
Cleared(c, t) ==
    Is(c, "setup") /\ \/ outcome[c] = "ok"
                      \/ pc[c] \in {"insert_regions", "reread"}
                      \/ t = "services" /\ pc[c] \in {"insert_services", "clear_regions"}

Filled(c, t) == Cleared(c, t) /\ pc[c] # Inserts[t]

Replaced(c, t) ==
    Cleared(c, t) =>
        /\ \A r \in rows[t] : r.by \notin before[c]
        /\ Current(c) /\ Alone(c) =>
              ItemsOf(t) = IF Filled(c, t) THEN Items(c, t) ELSE {}

\* Set-up c has added its image.
Added(c) ==
    Is(c, "setup") /\ request[c].image
                   /\ \/ outcome[c] = "ok"
                      \/ pc[c] \notin {"start", "create", "update", "done"}

Kept(c) ==
    Added(c) /\ Current(c) =>
        \/ RivalImage(c)
        \/ /\ Has(profile, c)
           /\ \A d \in Call : c \in before[d] /\ mine[d] # NoProfile => Has(mine[d], c)

\* What upload c has counted bounds the photos of the uploads before it.
Earlier(c) == {p \in photos : p.by \in before[c]}

Bounded(c) ==
    /\ sent[c] <= request[c].size
    /\ pc[c] \notin {"store", "done"} => sent[c] = 0
    /\ pc[c] = "store" \/ sent[c] > 0 =>
          /\ counted[c] + request[c].size <= MaxPhotos
          /\ Cardinality(Earlier(c)) <= counted[c]

Inv ==
    /\ TypeOK
    /\ IsFiniteSet(photos)
    /\ Named(profile)
    /\ Owned
    /\ \A c \in Call : KindAt(c) /\ Named(mine[c]) /\ Ordered(c) /\ Kept(c) /\ Bounded(c)
    /\ \A c \in Call, t \in Table : Replaced(c, t)
=============================================================================
