---------------------------- MODULE ReadersProofs ----------------------------
(***************************************************************************)
(* Those who read: theorems about Classifier, for any requests, names,     *)
(* TTLs and replies; about Catalog, which keeps its tables, for any calls  *)
(* and rows; that what the classifier takes for the changes of its tables  *)
(* is all that the calls of the catalog do to them; and about Paging, for  *)
(* any rows, limits and writes.                                            *)
(***************************************************************************)
EXTENDS Classifier, Catalog, Paging, TLAPS, FiniteSetTheorems, WellFoundedInduction
-----------------------------------------------------------------------------
(* Classifier.                                                             *)

\* At the start nothing has been asked, fetched or answered.
THEOREM Initially == Init => Inv
<1> SUFFICES ASSUME Init PROVE Inv
  OBVIOUS
<1> USE NullAssumption, StockAssumption
<1>1. TypeOK
  BY DEF Init, TypeOK, FetchState, NoFetch, Outcome, Fails, Table, Reply
<1>2. \A r \in Request : Waits(r)
  BY DEF Init, Waits, NoFetch
<1>3. CacheLatest /\ SingleFlight /\ CatalogInTime
  BY DEF Init, CacheLatest, SingleFlight, CatalogInTime, InTime, NoFetch
<1>4. AnswersOffered /\ AttemptsJustified
  BY DEF Init, AnswersOffered, AttemptsJustified, Justified, Fails
<1> QED
  BY <1>1, <1>2, <1>3, <1>4 DEF Inv

\* What the invariant says of one request.
Sound(q) == /\ Waits(q) /\ InTime(q) /\ Justified(q)
            /\ outcome[q].status = 200 => \A t \in Table : Offered(q, t)

LEMMA InvIsSoundness ==
  Inv <=> TypeOK /\ CacheLatest /\ SingleFlight /\ \A q \in Request : Sound(q)
BY DEF Inv, Sound, CatalogInTime, AnswersOffered, AttemptsJustified

LEMMA NextSoundness ==
  ASSUME TypeOK', CacheLatest', SingleFlight', \A q \in Request : Sound(q)'
  PROVE  Inv'
BY DEF Inv, Sound, CatalogInTime, AnswersOffered, AttemptsJustified

\* A request stays sound while its own columns and its fetch stay.
LEMMA Undisturbed ==
  ASSUME Inv, NEW q \in Request, setting' = setting, now \in Nat, now' \in Nat, now <= now',
         pc'[q] = pc[q], askedAt'[q] = askedAt[q], source'[q] = source[q],
         replies'[q] = replies[q], outcome'[q] = outcome[q],
         source[q] # Null => fetch'[source[q]] = fetch[source[q]],
         fetch'[q].status # "none" => source[q] = q
  PROVE  Sound(q)'
<1> USE NullAssumption
<1>1. Sound(q) /\ askedAt[q] \in Nat /\ pc[q] \in {"idle", "loading", "asking", "done"}
  BY InvIsSoundness DEF Inv, TypeOK
<1>2. Waits(q)'
  <2>1. source[q] = Null \/ fetch'[source[q]] = fetch[source[q]]
    OBVIOUS
  <2> QED
    BY <1>1, <2>1 DEF Sound, Waits
<1>3. InTime(q)'
  BY <1>1 DEF Sound, InTime
<1>4. Justified(q)'
  <2>1. Justified(q) /\ Last(q)' = Last(q)
    BY <1>1 DEF Sound, Last
  <2> QED
    BY <2>1 DEF Justified
<1>5. ASSUME outcome'[q].status = 200, NEW t \in Table PROVE Offered(q, t)'
  <2>1. Offered(q, t) /\ Last(q)' = Last(q)
    BY <1>1, <1>5 DEF Sound, Last
  <2>2. outcome[q] # Fails(0)
    BY <1>5 DEF Fails
  <2>3. source[q] # Null
    BY <1>1, <2>2 DEF Sound, Waits
  <2> QED
    BY <2>1, <2>3 DEF Offered
<1> QED
  BY <1>2, <1>3, <1>4, <1>5 DEF Sound

\* The clock and the admins disturb neither the loader nor a request.
LEMMA Outside ==
  ASSUME Inv, UNCHANGED <<setting, fetch, inFlight, cached, pc, askedAt, source, replies, outcome>>,
         active' \in [Table -> SUBSET Row], edits' \in Nat, now' \in Nat, now <= now'
  PROVE  Inv'
<1>1. TypeOK'
  BY DEF Inv, TypeOK
<1>2. ASSUME NEW q \in Request PROVE Sound(q)'
  BY Undisturbed DEF Inv, TypeOK, Waits
<1>3. CacheLatest'
  <2>1. ASSUME NEW f \in Request PROVE (fetch[f].at <= now)'
    <3>1. fetch[f].at \in Nat /\ fetch[f].at <= now
      BY DEF Inv, TypeOK, FetchState, CacheLatest
    <3> QED
      BY <3>1 DEF Inv, TypeOK
  <2> QED
    BY <2>1 DEF Inv, CacheLatest
<1>4. SingleFlight'
  BY DEF Inv, SingleFlight
<1> QED
  BY <1>1, <1>2, <1>3, <1>4, NextSoundness

LEMMA Ticking == Inv /\ Tick => Inv'
BY Outside DEF Tick, Inv, TypeOK

LEMMA Editing ==
  ASSUME Inv, NEW t \in Table, NEW row \in Row, SaveRow(t, row) \/ RetireRow(t, row)
  PROVE  Inv'
<1>1. active \in [Table -> SUBSET Row]
  BY DEF Inv, TypeOK
<1>2. PICK known \in SUBSET Row : active' = [active EXCEPT ![t] = known]
  <2>1. active[t] \in SUBSET Row
    BY <1>1
  <2>2. CASE SaveRow(t, row)
    <3>1. WithRow(active[t], row) \in SUBSET Row
      BY <2>1 DEF WithRow
    <3> QED
      BY <2>2, <3>1 DEF SaveRow
  <2>3. CASE RetireRow(t, row)
    <3>1. active[t] \ {row} \in SUBSET Row
      BY <2>1
    <3> QED
      BY <2>3, <3>1 DEF RetireRow
  <2> QED
    BY <2>2, <2>3
<1>3. active' \in [Table -> SUBSET Row]
  BY <1>1, <1>2
<1> QED
  BY <1>3, Outside DEF SaveRow, RetireRow, Edited, Inv, TypeOK

\* A request that answers or goes on only moves itself.
LEMMA RequestStep ==
  ASSUME Inv, NEW r \in Request, UNCHANGED <<setting, now, fetch, inFlight, cached>>, TypeOK',
         \A q \in Request \ {r} :
             /\ pc'[q] = pc[q] /\ askedAt'[q] = askedAt[q] /\ source'[q] = source[q]
             /\ replies'[q] = replies[q] /\ outcome'[q] = outcome[q],
         Sound(r)'
  PROVE  Inv'
<1>1. ASSUME NEW q \in Request \ {r} PROVE Sound(q)'
  BY Undisturbed DEF Inv, TypeOK, Waits
<1>2. CacheLatest' /\ SingleFlight'
  BY DEF Inv, CacheLatest, SingleFlight
<1> QED
  BY <1>1, <1>2, NextSoundness

\* A step of a fetch that runs: no request that has its catalog uses it yet.
LEMMA FetchStep ==
  ASSUME Inv, NEW f \in Request, fetch[f].status = "running",
         UNCHANGED <<setting, now, pc, askedAt, source, replies, outcome>>, TypeOK',
         \A g \in Request \ {f} : fetch'[g] = fetch[g],
         fetch'[f].status \in {"running", "loaded", "failed"},
         fetch'[f].status # "running" => fetch'[f].at = now,
         CacheLatest', SingleFlight'
  PROVE  Inv'
<1> USE NullAssumption
<1>1. ASSUME NEW q \in Request PROVE Sound(q)'
  <2>1. /\ fetch'[q].status # "none" => source[q] = q
        /\ askedAt[q] <= now /\ askedAt[q] \in Nat /\ now \in Nat
        /\ source[q] \in Request \cup {Null}
    <3>1. Waits(q) /\ Waits(f) /\ TypeOK
      BY DEF Inv
    <3>2. fetch'[q].status # "none" => source[q] = q
      <4>1. CASE q = f
        BY <3>1, <4>1 DEF Waits
      <4>2. CASE q # f
        BY <3>1, <4>2 DEF Waits
      <4> QED
        BY <4>1, <4>2
    <3> QED
      BY <3>1, <3>2 DEF TypeOK, Waits
  <2>2. CASE source[q] # f
    <3>1. source[q] # Null => fetch'[source[q]] = fetch[source[q]]
      BY <2>1, <2>2
    <3> QED
      BY <2>1, <3>1, Undisturbed
  <2>3. CASE source[q] = f
    <3>1. pc[q] = "loading" /\ outcome[q] = Fails(0) /\ replies[q] = <<>>
      BY <2>3 DEF Inv, TypeOK, Waits
    <3>2. Waits(q)'
      BY <2>1, <2>3, <3>1 DEF Waits
    <3>3. InTime(q)'
      BY <2>1, <2>3 DEF InTime
    <3>4. Justified(q)'
      BY <3>1 DEF Justified, Fails
    <3> QED
      BY <3>1, <3>2, <3>3, <3>4 DEF Sound, Fails
  <2> QED
    BY <2>2, <2>3
<1> QED
  BY <1>1, NextSoundness

LEMMA Reading ==
  ASSUME Inv, NEW f \in Request, NEW t \in Table, ReadTable(f, t)
  PROVE  Inv'
<1>1. /\ fetch[f] \in FetchState /\ fetch[f].status = "running" /\ active[t] \in SUBSET Row
      /\ fetch \in [Request -> FetchState]
  BY DEF Inv, TypeOK, ReadTable
<1>2. PICK state \in FetchState :
        /\ fetch' = [fetch EXCEPT ![f] = state]
        /\ state.status = "running" /\ state.at = fetch[f].at
  <2> DEFINE state == [fetch[f] EXCEPT !.read = @ \cup {t}, !.rows[t] = active[t]]
  <2>1. state \in FetchState /\ state.status = "running" /\ state.at = fetch[f].at
    BY <1>1 DEF FetchState
  <2>2. fetch' = [fetch EXCEPT ![f] = state]
    BY <1>1 DEF ReadTable
  <2> QED
    BY <2>1, <2>2
<1>3. TypeOK'
  <2>1. fetch' \in [Request -> FetchState]
    BY <1>1, <1>2
  <2> QED
    BY <2>1, NullAssumption DEF Inv, TypeOK, ReadTable
<1>4. CacheLatest' /\ SingleFlight'
  BY <1>1, <1>2 DEF Inv, TypeOK, ReadTable, CacheLatest, SingleFlight
<1> QED
  BY <1>1, <1>2, <1>3, <1>4, FetchStep DEF ReadTable

LEMMA Loading ==
  ASSUME Inv, NEW f \in Request, Loads(f)
  PROVE  Inv'
<1>1. /\ fetch[f] \in FetchState /\ fetch[f].status = "running" /\ fetch[f].read = Table
      /\ fetch \in [Request -> FetchState] /\ now \in Nat
  BY DEF Inv, TypeOK, Loads
<1>2. PICK state \in FetchState :
        /\ fetch' = [fetch EXCEPT ![f] = state]
        /\ state.status = "loaded" /\ state.at = now /\ state.read = Table
  <2> DEFINE state == [fetch[f] EXCEPT !.status = "loaded", !.at = now]
  <2>1. state \in FetchState /\ state.status = "loaded" /\ state.at = now /\ state.read = Table
    BY <1>1 DEF FetchState
  <2>2. fetch' = [fetch EXCEPT ![f] = state]
    BY <1>1 DEF Loads
  <2> QED
    BY <2>1, <2>2
<1>3. TypeOK'
  <2>1. fetch' \in [Request -> FetchState]
    BY <1>1, <1>2
  <2> QED
    BY <2>1, NullAssumption DEF Inv, TypeOK, Loads
<1>4. CacheLatest'
  <2>1. cached' = f /\ now' = now /\ fetch'[f].at = now /\ fetch'[f].status = "loaded" /\ f # Null
    BY <1>1, <1>2, NullAssumption DEF Loads
  <2>2. ASSUME NEW g \in Request
        PROVE  fetch'[g].at <= now /\ (fetch'[g].status = "loaded" => fetch'[g].read = Table)
    BY <1>1, <1>2 DEF Inv, CacheLatest
  <2> QED
    BY <2>1, <2>2 DEF CacheLatest
<1>5. SingleFlight'
  BY <1>1, <1>2, NullAssumption DEF Inv, SingleFlight, Loads
<1> QED
  BY <1>1, <1>2, <1>3, <1>4, <1>5, FetchStep DEF Loads

LEMMA Failing ==
  ASSUME Inv, NEW f \in Request, FetchFails(f)
  PROVE  Inv'
<1>1. /\ fetch[f] \in FetchState /\ fetch[f].status = "running"
      /\ fetch \in [Request -> FetchState] /\ now \in Nat
  BY DEF Inv, TypeOK, FetchFails
<1>2. PICK state \in FetchState :
        fetch' = [fetch EXCEPT ![f] = state] /\ state.status = "failed" /\ state.at = now
  <2> DEFINE state == [fetch[f] EXCEPT !.status = "failed", !.at = now]
  <2>1. state \in FetchState /\ state.status = "failed" /\ state.at = now
    BY <1>1 DEF FetchState
  <2>2. fetch' = [fetch EXCEPT ![f] = state]
    BY <1>1 DEF FetchFails
  <2> QED
    BY <2>1, <2>2
<1>3. TypeOK'
  <2>1. fetch' \in [Request -> FetchState]
    BY <1>1, <1>2
  <2> QED
    BY <2>1, NullAssumption DEF Inv, TypeOK, FetchFails
<1>4. CacheLatest'
  <2>1. cached # Null => cached # f
    BY <1>1 DEF Inv, CacheLatest
  <2> QED
    BY <1>1, <1>2, <2>1 DEF Inv, TypeOK, CacheLatest, FetchFails
<1>5. SingleFlight'
  BY <1>1, <1>2, NullAssumption DEF Inv, SingleFlight, FetchFails
<1> QED
  BY <1>1, <1>2, <1>3, <1>4, <1>5, FetchStep DEF FetchFails

-----------------------------------------------------------------------------
(* The steps of a request.                                                 *)

\* What a request does with the catalog it was given.
LEMMA Continuing ==
  ASSUME Inv, NEW r \in Request, NEW f \in Request, Continue(r, fetch[f].rows),
         UNCHANGED <<setting, now, fetch, replies>>, source'[r] = f,
         fetch[f].status = "loaded", outcome[r] = Fails(0), replies[r] = <<>>,
         askedAt'[r] <= now, InTime(r)', fetch[r].status # "none" => f = r
  PROVE  /\ Sound(r)'
         /\ pc' \in [Request -> {"idle", "loading", "asking", "done"}]
         /\ outcome' \in [Request -> Outcome]
         /\ \A q \in Request \ {r} : pc'[q] = pc[q] /\ outcome'[q] = outcome[q]
<1> USE NullAssumption
<1> DEFINE known == fetch[f].rows
<1>1. /\ pc \in [Request -> {"idle", "loading", "asking", "done"}]
      /\ outcome \in [Request -> Outcome] /\ setting.mode \in Mode
      /\ known \in [Table -> SUBSET Row] /\ replies'[r] = <<>>
  BY DEF Inv, TypeOK, FetchState
<1>2. CASE known["categories"] = {} /\ Answer(r, Fails(503))
  <2>1. pc' = [pc EXCEPT ![r] = "done"] /\ outcome' = [outcome EXCEPT ![r] = Fails(503)]
    BY <1>2 DEF Answer
  <2>2. Fails(503) \in Outcome
    BY DEF Fails, Outcome
  <2>3. Waits(r)'
    BY <1>1, <2>1 DEF Waits
  <2>4. Justified(r)' /\ outcome'[r].status = 503
    BY <1>1, <2>1 DEF Justified, Fails
  <2> QED
    BY <1>1, <2>1, <2>2, <2>3, <2>4 DEF Sound
<1>3. CASE setting.mode = "development" /\ AnswerFrom(r, known["categories"], known["regions"])
  <2>1. PICK c \in IdsOf(known["categories"]), g \in IdsOf(known["regions"]) :
          Answer(r, [status |-> 200, categories |-> c, regions |-> g])
    BY <1>3 DEF AnswerFrom
  <2> DEFINE out == [status |-> 200, categories |-> c, regions |-> g]
  <2>2. pc' = [pc EXCEPT ![r] = "done"] /\ outcome' = [outcome EXCEPT ![r] = out]
    BY <2>1 DEF Answer
  <2>3. c \in Id \cup {Null} /\ g \in Id \cup {Null}
    BY <1>1, <2>1 DEF IdsOf, Row, Table
  <2>4. out \in Outcome
    BY <2>3 DEF Outcome
  <2>5. Waits(r)'
    BY <1>1, <2>2 DEF Waits
  <2>6. Justified(r)'
    BY <1>1, <1>3, <2>2 DEF Justified
  <2>7. ASSUME NEW t \in Table PROVE Offered(r, t)'
    <3>1. outcome'[r] = out /\ setting'.mode = "development" /\ fetch'[source'[r]].rows = known
      BY <1>1, <1>3, <2>2
    <3>2. CASE t = "categories"
      BY <2>1, <3>1, <3>2 DEF Offered, IdsOf
    <3>3. CASE t = "regions"
      BY <2>1, <3>1, <3>3 DEF Offered, IdsOf
    <3> QED
      BY <3>2, <3>3 DEF Table
  <2> QED
    BY <1>1, <2>2, <2>4, <2>5, <2>6, <2>7 DEF Sound
<1>4. CASE setting.mode = "production" /\ pc' = [pc EXCEPT ![r] = "asking"] /\ outcome' = outcome
  <2>1. Waits(r)'
    BY <1>1, <1>4 DEF Waits
  <2>2. Justified(r)' /\ outcome'[r].status = 0
    BY <1>1, <1>4 DEF Justified, Fails
  <2> QED
    BY <1>1, <1>4, <2>1, <2>2 DEF Sound
<1> QED
  BY <1>2, <1>3, <1>4 DEF Continue

\* A request that has not called getCatalog began no fetch, and nobody waits for its own.
LEMMA Idle ==
  ASSUME Inv, NEW r \in Request, pc[r] = "idle"
  PROVE  /\ source[r] = Null /\ outcome[r] = Fails(0) /\ replies[r] = <<>>
         /\ fetch[r].status = "none" /\ \A q \in Request : source[q] # r
<1> USE NullAssumption
<1>1. source[r] = Null /\ outcome[r] = Fails(0) /\ replies[r] = <<>> /\ fetch[r].status = "none"
  BY DEF Inv, Waits
<1>2. ASSUME NEW q \in Request, source[q] = r PROVE FALSE
  <2>1. Waits(q) /\ pc[q] \in {"idle", "loading", "asking", "done"}
    BY DEF Inv, TypeOK
  <2> QED
    BY <1>1, <1>2, <2>1 DEF Waits
<1> QED
  BY <1>1, <1>2

LEMMA UsingCache ==
  ASSUME Inv, NEW r \in Request, UseCache(r)
  PROVE  Inv'
<1> USE NullAssumption
<1>1. /\ cached \in Request /\ fetch[cached].status = "loaded" /\ now \in Nat
      /\ setting.ttl > 0 /\ now < fetch[cached].at + setting.ttl
      /\ UNCHANGED <<active, edits, setting, now, fetch, inFlight, cached, replies>>
  <2>1. Fresh /\ UNCHANGED <<active, edits, setting, now, fetch, inFlight, cached, replies>>
    BY DEF UseCache, CalledBy
  <2> QED
    BY <2>1 DEF Inv, TypeOK, CacheLatest, Fresh
<1>2. /\ askedAt' = [askedAt EXCEPT ![r] = now] /\ source' = [source EXCEPT ![r] = cached]
      /\ pc[r] = "idle" /\ Continue(r, fetch[cached].rows)
  BY DEF UseCache, CalledBy
<1>3. askedAt'[r] = now /\ source'[r] = cached
      /\ askedAt' \in [Request -> Nat] /\ source' \in [Request -> Request \cup {Null}]
  BY <1>1, <1>2 DEF Inv, TypeOK
<1>4. InTime(r)'
  BY <1>1, <1>3 DEF InTime
<1>5. /\ Sound(r)'
      /\ pc' \in [Request -> {"idle", "loading", "asking", "done"}]
      /\ outcome' \in [Request -> Outcome]
      /\ \A q \in Request \ {r} : pc'[q] = pc[q] /\ outcome'[q] = outcome[q]
  BY <1>1, <1>2, <1>3, <1>4, Idle, Continuing
<1>6. TypeOK'
  BY <1>1, <1>3, <1>5 DEF Inv, TypeOK
<1>7. \A q \in Request \ {r} : askedAt'[q] = askedAt[q] /\ source'[q] = source[q]
  BY <1>2 DEF Inv, TypeOK
<1> QED
  BY <1>1, <1>5, <1>6, <1>7, RequestStep

LEMMA Joining ==
  ASSUME Inv, NEW r \in Request, JoinFetch(r)
  PROVE  Inv'
<1> USE NullAssumption
<1>1. /\ inFlight \in Request /\ fetch[inFlight].status = "running" /\ now \in Nat
      /\ UNCHANGED <<active, edits, setting, now, fetch, inFlight, cached, replies, outcome>>
      /\ askedAt' = [askedAt EXCEPT ![r] = now] /\ source' = [source EXCEPT ![r] = inFlight]
      /\ pc' = [pc EXCEPT ![r] = "loading"] /\ pc[r] = "idle"
  BY DEF Inv, TypeOK, SingleFlight, JoinFetch, CalledBy, Await
<1>2. TypeOK'
  BY <1>1 DEF Inv, TypeOK
<1>3. /\ pc'[r] = "loading" /\ source'[r] = inFlight /\ askedAt'[r] = now
      /\ outcome'[r] = Fails(0) /\ replies'[r] = <<>> /\ fetch'[r].status = "none"
  BY <1>1, Idle DEF Inv, TypeOK
<1>4. Waits(r)' /\ InTime(r)' /\ Justified(r)' /\ outcome'[r].status = 0
  BY <1>1, <1>3 DEF Waits, InTime, Justified, Fails
<1>5. Sound(r)'
  BY <1>4 DEF Sound
<1>6. \A q \in Request \ {r} :
        pc'[q] = pc[q] /\ askedAt'[q] = askedAt[q] /\ source'[q] = source[q]
  BY <1>1 DEF Inv, TypeOK
<1> QED
  BY <1>1, <1>2, <1>5, <1>6, RequestStep

LEMMA Starting ==
  ASSUME Inv, NEW r \in Request, StartFetch(r)
  PROVE  Inv'
<1> USE NullAssumption
<1>1. /\ inFlight = Null /\ inFlight' = r /\ now \in Nat
      /\ UNCHANGED <<active, edits, setting, now, cached, replies, outcome>>
      /\ askedAt' = [askedAt EXCEPT ![r] = now] /\ source' = [source EXCEPT ![r] = r]
      /\ pc' = [pc EXCEPT ![r] = "loading"] /\ pc[r] = "idle"
      /\ fetch' = [fetch EXCEPT ![r].status = "running"]
      /\ fetch \in [Request -> FetchState]
  BY DEF Inv, TypeOK, StartFetch, CalledBy, Await
<1>2. PICK state \in FetchState :
        /\ fetch' = [fetch EXCEPT ![r] = state]
        /\ state.status = "running" /\ state.at = fetch[r].at
  <2> DEFINE state == [fetch[r] EXCEPT !.status = "running"]
  <2>1. state \in FetchState /\ state.status = "running" /\ state.at = fetch[r].at
    BY <1>1 DEF FetchState
  <2>2. fetch' = [fetch EXCEPT ![r] = state]
    BY <1>1
  <2> QED
    BY <2>1, <2>2
<1>3. fetch' \in [Request -> FetchState] /\ fetch'[r] = state
      /\ \A g \in Request \ {r} : fetch'[g] = fetch[g]
  BY <1>1, <1>2
<1>4. TypeOK'
  BY <1>1, <1>3 DEF Inv, TypeOK
<1>5. /\ fetch[r].status = "none" /\ \A q \in Request : source[q] # r
      /\ outcome[r] = Fails(0) /\ replies[r] = <<>>
  BY <1>1, Idle
<1>6. CacheLatest'
  <2>1. cached # r
    BY <1>5 DEF Inv, CacheLatest
  <2> QED
    BY <1>1, <1>2, <1>3, <2>1 DEF Inv, TypeOK, CacheLatest
<1>7. SingleFlight'
  BY <1>1, <1>2, <1>3 DEF Inv, SingleFlight
<1>8. Sound(r)'
  <2>1. /\ pc'[r] = "loading" /\ source'[r] = r /\ askedAt'[r] = now
        /\ outcome'[r] = Fails(0) /\ replies'[r] = <<>>
    BY <1>1, <1>5 DEF Inv, TypeOK
  <2>2. Waits(r)' /\ InTime(r)' /\ Justified(r)' /\ outcome'[r].status = 0
    BY <1>1, <1>2, <1>3, <2>1 DEF Waits, InTime, Justified, Fails
  <2> QED
    BY <2>2 DEF Sound
<1>9. ASSUME NEW q \in Request \ {r} PROVE Sound(q)'
  <2>1. pc'[q] = pc[q] /\ askedAt'[q] = askedAt[q] /\ source'[q] = source[q]
    BY <1>1 DEF Inv, TypeOK
  <2>2. source[q] # Null => fetch'[source[q]] = fetch[source[q]]
    BY <1>3, <1>5 DEF Inv, TypeOK
  <2>3. fetch'[q].status # "none" => source[q] = q
    BY <1>3 DEF Inv, Waits
  <2> QED
    BY <1>1, <2>1, <2>2, <2>3, Undisturbed
<1> QED
  BY <1>4, <1>6, <1>7, <1>8, <1>9, NextSoundness

LEMMA Resuming ==
  ASSUME Inv, NEW r \in Request, Resume(r)
  PROVE  Inv'
<1> USE NullAssumption
<1>1. /\ pc[r] = "loading"
      /\ UNCHANGED <<active, edits, setting, now, fetch, inFlight, cached, askedAt, source, replies>>
  BY DEF Resume
<1>2. /\ source[r] \in Request /\ outcome[r] = Fails(0) /\ replies[r] = <<>>
      /\ askedAt[r] <= now /\ (fetch[r].status # "none" => source[r] = r)
  BY <1>1 DEF Inv, TypeOK, Waits
<1>3. InTime(r)'
  BY <1>1 DEF Inv, CatalogInTime, InTime
<1>4. /\ Sound(r)'
      /\ pc' \in [Request -> {"idle", "loading", "asking", "done"}]
      /\ outcome' \in [Request -> Outcome]
      /\ \A q \in Request \ {r} : pc'[q] = pc[q] /\ outcome'[q] = outcome[q]
  <2>1. CASE fetch[source[r]].status = "failed" /\ Answer(r, Fails(503))
    <3>1. pc' = [pc EXCEPT ![r] = "done"] /\ outcome' = [outcome EXCEPT ![r] = Fails(503)]
      BY <2>1 DEF Answer
    <3>2. Fails(503) \in Outcome
      BY DEF Fails, Outcome
    <3>3. pc \in [Request -> {"idle", "loading", "asking", "done"}] /\ outcome \in [Request -> Outcome]
      BY DEF Inv, TypeOK
    <3>4. Waits(r)'
      BY <1>1, <1>2, <2>1, <3>1, <3>3 DEF Waits
    <3>5. Justified(r)' /\ outcome'[r].status = 503
      BY <1>1, <1>2, <3>1, <3>3 DEF Justified, Fails
    <3> QED
      BY <1>3, <3>1, <3>2, <3>3, <3>4, <3>5 DEF Sound
  <2>2. CASE fetch[source[r]].status = "loaded" /\ Continue(r, fetch[source[r]].rows)
    BY <1>1, <1>2, <1>3, <2>2, Continuing
  <2> QED
    BY <2>1, <2>2 DEF Resume
<1>5. TypeOK'
  BY <1>1, <1>4 DEF Inv, TypeOK
<1> QED
  BY <1>1, <1>4, <1>5, RequestStep

\* A request that hears from the model, and what it has heard by then.
LEMMA Hearing ==
  ASSUME Inv, NEW r \in Request, NEW reply \in Heard, Receive(r, reply)
  PROVE  /\ pc[r] = "asking" /\ setting.mode = "production" /\ outcome[r] = Fails(0)
         /\ source[r] \in Request /\ fetch[source[r]].status = "loaded"
         /\ replies' \in [Request -> Seq(Reply)]
         /\ \A q \in Request \ {r} : replies'[q] = replies[q]
         /\ replies'[r] # <<>> /\ Last(r)' = reply
         /\ Len(replies'[r]) = IF replies[r] = <<>> THEN 1 ELSE 2
         /\ replies[r] # <<>> => replies'[r][1].kind = "invalid"
         /\ InTime(r)'
<1> USE NullAssumption, HeardAssumption
<1>1. /\ pc[r] = "asking" /\ replies' = [replies EXCEPT ![r] = Append(@, reply)]
      /\ UNCHANGED <<setting, fetch, source, askedAt>>
  BY DEF Receive
<1>2. /\ setting.mode = "production" /\ outcome[r] = Fails(0) /\ source[r] \in Request
      /\ fetch[source[r]].status = "loaded"
      /\ \A i \in DOMAIN replies[r] : replies[r][i].kind = "invalid"
      /\ Len(replies[r]) <= 1
      /\ replies \in [Request -> Seq(Reply)] /\ replies[r] \in Seq(Reply) /\ reply \in Reply
  BY <1>1 DEF Inv, TypeOK, Waits
<1>3. replies'[r] = Append(replies[r], reply) /\ \A q \in Request \ {r} : replies'[q] = replies[q]
  BY <1>1, <1>2
<1>4. /\ Append(replies[r], reply) \in Seq(Reply)
      /\ Len(Append(replies[r], reply)) = Len(replies[r]) + 1
      /\ Append(replies[r], reply)[Len(replies[r]) + 1] = reply
      /\ \A i \in 1..Len(replies[r]) : Append(replies[r], reply)[i] = replies[r][i]
  BY <1>2
<1>5. replies' \in [Request -> Seq(Reply)]
  BY <1>1, <1>2, <1>4
<1>6. replies'[r] # <<>> /\ Last(r)' = reply
  BY <1>2, <1>3, <1>4 DEF Last
<1>7. Len(replies[r]) = IF replies[r] = <<>> THEN 0 ELSE 1
  <2>1. Len(replies[r]) \in Nat /\ (Len(replies[r]) = 0 <=> replies[r] = <<>>)
    BY <1>2
  <2>2. Len(replies[r]) = 0 \/ Len(replies[r]) = 1
    <3>1. \A n \in Nat : n <= 1 => n = 0 \/ n = 1
      OBVIOUS
    <3> QED
      BY <1>2, <2>1, <3>1
  <2> QED
    BY <2>1, <2>2
<1>8. replies[r] # <<>> => replies'[r][1].kind = "invalid"
  BY <1>2, <1>3, <1>4, <1>7
<1>9. InTime(r)'
  BY <1>1 DEF Inv, CatalogInTime, InTime
<1> QED
  BY <1>1, <1>2, <1>3, <1>4, <1>5, <1>6, <1>7, <1>8, <1>9

LEMMA AskingAgain ==
  ASSUME Inv, NEW r \in Request, NEW reply \in Heard, AskAgain(r, reply)
  PROVE  Inv'
<1> USE NullAssumption
<1>1. /\ Receive(r, reply) /\ reply.kind = "invalid" /\ replies[r] = <<>>
      /\ UNCHANGED <<active, edits, now, setting, fetch, inFlight, cached, pc, askedAt, source, outcome>>
  BY DEF AskAgain, Receive, Retries
<1>2. /\ Len(replies'[r]) = 1 /\ Last(r)' = reply /\ replies' \in [Request -> Seq(Reply)]
      /\ pc[r] = "asking" /\ setting.mode = "production" /\ outcome[r] = Fails(0) /\ InTime(r)'
      /\ \A q \in Request \ {r} : replies'[q] = replies[q]
  BY <1>1, Hearing
<1>3. TypeOK'
  BY <1>1, <1>2 DEF Inv, TypeOK
<1>4. Waits(r)'
  <2>1. Waits(r) /\ replies'[r] \in Seq(Reply)
    BY <1>2 DEF Inv
  <2>2. \A i \in DOMAIN replies'[r] : replies'[r][i].kind = "invalid"
    BY <1>1, <1>2, <2>1 DEF Last
  <2> QED
    BY <1>1, <1>2, <2>1, <2>2 DEF Waits
<1>5. Justified(r)'
  BY <1>1, <1>2 DEF Justified, Fails
<1>6. Sound(r)'
  BY <1>1, <1>2, <1>4, <1>5 DEF Sound, Fails
<1> QED
  BY <1>1, <1>2, <1>3, <1>6, RequestStep

\* The ids an answer may give are those the word names best, or none.
LEMMA MeantIsNamed ==
  ASSUME NEW word \in Word, NEW known \in SUBSET Row, NEW id \in IdsOf(Meant(word, known))
  PROVE  /\ id \in Id \cup {Null}
         /\ \/ \E row \in known : row.id = id /\ Names(word, row, known)
            \/ id = Null /\ \A row \in known : ~Names(word, row, known)
<1>1. \A row : row \in Meant(word, known) <=> Names(word, row, known)
  BY DEF Meant, Names
<1>2. CASE Meant(word, known) = {}
  BY <1>1, <1>2 DEF IdsOf
<1>3. CASE Meant(word, known) # {}
  <2>1. PICK row \in Meant(word, known) : id = row.id
    BY <1>3 DEF IdsOf
  <2>2. row \in known /\ Names(word, row, known)
    BY <1>1, <2>1 DEF Names
  <2> QED
    BY <2>1, <2>2 DEF Row
<1> QED
  BY <1>2, <1>3

LEMMA Concluding ==
  ASSUME Inv, NEW r \in Request, NEW reply \in Heard, Conclude(r, reply)
  PROVE  Inv'
<1> USE NullAssumption, HeardAssumption
<1> DEFINE known == fetch[source[r]].rows
<1>1. /\ Receive(r, reply) /\ (reply.kind = "invalid" => replies[r] # <<>>)
      /\ UNCHANGED <<active, edits, now, setting, fetch, inFlight, cached, askedAt, source>>
  BY DEF Conclude, Receive, Retries
<1>2. /\ pc[r] = "asking" /\ setting.mode = "production" /\ source[r] \in Request
      /\ fetch[source[r]].status = "loaded"
      /\ replies' \in [Request -> Seq(Reply)]
      /\ \A q \in Request \ {r} : replies'[q] = replies[q]
      /\ replies'[r] # <<>> /\ Last(r)' = reply
      /\ Len(replies'[r]) = IF replies[r] = <<>> THEN 1 ELSE 2
      /\ replies[r] # <<>> => replies'[r][1].kind = "invalid"
      /\ InTime(r)'
  BY <1>1, Hearing
<1>3. /\ known \in [Table -> SUBSET Row] /\ reply \in Reply
      /\ pc \in [Request -> {"idle", "loading", "asking", "done"}]
      /\ outcome \in [Request -> Outcome]
  BY <1>2 DEF Inv, TypeOK, FetchState
<1>4. SUFFICES ASSUME NEW out \in Outcome, Answer(r, out), out.status \in {200, 500, 502, 504},
                      out.status = 200 => reply.kind = "valid",
                      out.status # 200 => out.status = ErrorOf(reply.kind),
                      out.status = 200 => \A t \in Table :
                        \/ \E row \in known[t] : row.id = out[t] /\ Names(reply[t], row, known[t])
                        \/ out[t] = Null /\ \A row \in known[t] : ~Names(reply[t], row, known[t])
               PROVE  Inv'
  <2>1. CASE reply.kind = "valid"
    <3>1. PICK c \in IdsOf(Meant(reply.categories, known["categories"])),
               g \in IdsOf(Meant(reply.regions, known["regions"])) :
            Answer(r, [status |-> 200, categories |-> c, regions |-> g])
      BY <2>1 DEF Conclude, AnswerFrom
    <3> DEFINE out == [status |-> 200, categories |-> c, regions |-> g]
    <3>2. /\ reply.categories \in Word /\ reply.regions \in Word
          /\ known["categories"] \in SUBSET Row /\ known["regions"] \in SUBSET Row
      BY <1>3 DEF Reply, Table
    <3>3. /\ c \in Id \cup {Null}
          /\ \/ \E row \in known["categories"] :
                    row.id = c /\ Names(reply.categories, row, known["categories"])
             \/ c = Null /\ \A row \in known["categories"] :
                    ~Names(reply.categories, row, known["categories"])
      BY <3>1, <3>2, MeantIsNamed
    <3>4. /\ g \in Id \cup {Null}
          /\ \/ \E row \in known["regions"] :
                    row.id = g /\ Names(reply.regions, row, known["regions"])
             \/ g = Null /\ \A row \in known["regions"] :
                    ~Names(reply.regions, row, known["regions"])
      BY <3>1, <3>2, MeantIsNamed
    <3>5. out \in Outcome
      BY <3>3, <3>4 DEF Outcome
    <3>6. ASSUME NEW t \in Table
          PROVE  \/ \E row \in known[t] : row.id = out[t] /\ Names(reply[t], row, known[t])
                 \/ out[t] = Null /\ \A row \in known[t] : ~Names(reply[t], row, known[t])
      <4>1. CASE t = "categories"
        BY <3>3, <4>1
      <4>2. CASE t = "regions"
        BY <3>4, <4>2
      <4> QED
        BY <4>1, <4>2 DEF Table
    <3> QED
      BY <2>1, <3>1, <3>5, <3>6, <1>4
  <2>2. CASE reply.kind # "valid"
    <3>1. Answer(r, Fails(ErrorOf(reply.kind)))
      BY <2>2 DEF Conclude
    <3>2. ErrorOf(reply.kind) \in {500, 502, 504}
      BY DEF ErrorOf
    <3>3. Fails(ErrorOf(reply.kind)) \in Outcome
          /\ Fails(ErrorOf(reply.kind)).status = ErrorOf(reply.kind)
      BY <3>2 DEF Fails, Outcome
    <3> QED
      BY <2>2, <3>1, <3>2, <3>3, <1>4
  <2> QED
    BY <2>1, <2>2
<1>5. pc' = [pc EXCEPT ![r] = "done"] /\ outcome' = [outcome EXCEPT ![r] = out]
  BY <1>4 DEF Answer
<1>6. /\ pc'[r] = "done" /\ outcome'[r] = out
      /\ \A q \in Request \ {r} : pc'[q] = pc[q] /\ outcome'[q] = outcome[q]
  BY <1>3, <1>5
<1>7. TypeOK'
  BY <1>1, <1>2, <1>3, <1>4, <1>5 DEF Inv, TypeOK
<1>8. Waits(r)'
  BY <1>1, <1>2, <1>6 DEF Inv, Waits
<1>9. Justified(r)'
  BY <1>1, <1>2, <1>4, <1>6 DEF Justified
<1>10. ASSUME outcome'[r].status = 200, NEW t \in Table PROVE Offered(r, t)'
  BY <1>1, <1>2, <1>4, <1>6, <1>10 DEF Offered
<1>11. Sound(r)'
  BY <1>2, <1>8, <1>9, <1>10 DEF Sound
<1> QED
  BY <1>1, <1>2, <1>6, <1>7, <1>11, RequestStep

-----------------------------------------------------------------------------

\* Every step keeps the invariant.
THEOREM Preserved == Inv /\ [Next]_vars => Inv'
<1> SUFFICES ASSUME Inv, [Next]_vars PROVE Inv'
  OBVIOUS
<1>1. CASE Tick
  BY <1>1, Ticking
<1>2. ASSUME NEW t \in Table, NEW row \in Row, SaveRow(t, row) \/ RetireRow(t, row) PROVE Inv'
  BY <1>2, Editing
<1>3. ASSUME NEW r \in Request, Ask(r) PROVE Inv'
  BY <1>3, UsingCache, Joining, Starting DEF Ask
<1>4. ASSUME NEW f \in Request, Settle(f) PROVE Inv'
  BY <1>4, Reading, Loading, Failing DEF Settle
<1>5. ASSUME NEW r \in Request, Resume(r) PROVE Inv'
  BY <1>5, Resuming
<1>6. ASSUME NEW r \in Request, Hear(r) PROVE Inv'
  BY <1>6, AskingAgain, Concluding DEF Hear
<1>7. CASE UNCHANGED vars
  BY <1>7, Outside DEF vars, Inv, TypeOK
<1> QED
  BY <1>1, <1>2, <1>3, <1>4, <1>5, <1>6, <1>7 DEF Next

\* The inductive invariant: what a request has agrees with the fetch it depends on, and the
\* cache with the fetches.
THEOREM Invariance == Spec => []Inv
BY Initially, Preserved, PTL DEF Spec

\* One fetch at a time, which is the loader's promise: calls that find none fresh share it.
THEOREM OneFetch == Spec => []SingleFlight
<1>1. Inv => SingleFlight
  BY DEF Inv
<1> QED
  BY Invariance, <1>1, PTL

\* No request works with a catalog older than the TTL, or is refused for an old failure.
THEOREM InTimeAlways == Spec => []CatalogInTime
<1>1. Inv => CatalogInTime
  BY DEF Inv
<1> QED
  BY Invariance, <1>1, PTL

\* Every id that is answered was in the catalog the model was shown, and is the row its
\* words name best.
THEOREM OfferedAlways == Spec => []AnswersOffered
<1>1. Inv => AnswersOffered
  BY DEF Inv
<1> QED
  BY Invariance, <1>1, PTL

\* At most one retry, and only of an invalid reply.
THEOREM OneRetry == Spec => []AttemptsJustified
<1>1. Inv => AttemptsJustified
  BY DEF Inv
<1> QED
  BY Invariance, <1>1, PTL
-----------------------------------------------------------------------------
(* Catalog.                                                                *)

\* A category with some of its columns set to values of a body is one, and of the name it had
\* unless the name is one of these columns.
LEMMA SetCategory ==
  ASSUME NEW row \in Category, NEW values, AreValues(values),
         NEW cols, cols \subseteq DOMAIN values
  PROVE  /\ Set(row, cols, values) \in Category
         /\ \A col \in Column : Set(row, cols, values)[col] =
                                   IF col \in cols THEN values[col] ELSE row[col]
<1>1. /\ row \in [Column -> CategoryName \cup BOOLEAN \cup Rest]
      /\ row["name"] \in CategoryName /\ row["active"] \in BOOLEAN /\ row["rest"] \in Rest
  BY DEF Category
<1>2. Set(row, cols, values) = [col \in Column |-> IF col \in cols THEN values[col] ELSE row[col]]
  BY <1>1 DEF Set
<1>3. ASSUME NEW col \in Column
      PROVE  (IF col \in cols THEN values[col] ELSE row[col]) \in CategoryName \cup BOOLEAN \cup Rest
  BY <1>1 DEF AreValues, Column
<1>4. Set(row, cols, values) \in [Column -> CategoryName \cup BOOLEAN \cup Rest]
  BY <1>2, <1>3
<1> QED
  BY <1>1, <1>2, <1>4 DEF AreValues, Category, Column

\* A row of the tables is of one kind.
LEMMA Kinds ==
  ASSUME CatalogTypeOK, NEW i \in RowId
  PROVE  /\ IsCategory(rows[i]) <=> rows[i] \in Category
         /\ IsHelpRequest(rows[i]) <=> rows[i] \in HelpRequest
         /\ ~(IsCategory(rows[i]) /\ IsHelpRequest(rows[i]))
<1>1. rows[i] \in Category \cup HelpRequest \cup {NoRow}
  BY DEF CatalogTypeOK
<1>2. \A r \in Category : DOMAIN r = Column /\ r # NoRow
  BY NoRowAssumption DEF Category
<1>3. \A r \in HelpRequest : DOMAIN r = {"status"} /\ r # NoRow
  BY NoRowAssumption DEF HelpRequest
<1>4. Column # {"status"}
  BY DEF Column
<1> QED
  BY <1>1, <1>2, <1>3, <1>4 DEF IsCategory, IsHelpRequest

THEOREM CatalogInitially == CatalogInit => CatalogInv
<1> SUFFICES ASSUME CatalogInit PROVE CatalogInv
  OBVIOUS
<1>1. CatalogTypeOK
  BY TableAssumption DEF CatalogInit, CatalogTypeOK
<1>2. OneName
  BY TableAssumption DEF CatalogInit, OneName
<1>3. ASSUME NEW c \in Call PROVE Fits(c)
  BY TableAssumption DEF CatalogInit, Fits
<1> QED
  BY <1>1, <1>2, <1>3 DEF CatalogInv

\* What a write puts in the place of the row i it read: a row of the same kind, with the
\* columns that were asked for and changed.
LEMMA Written ==
  ASSUME CatalogInv, NEW c \in Call, query[c] = "write"
  PROVE  LET i == body[c].id
             row == Set(rows[i], Changed(instance[c], Asked(c)), Asked(c))
         IN /\ i \in RowId
            /\ IsHelpRequest(rows[i]) => Is(c, {"resolve"}) /\ row \in HelpRequest
            /\ IsCategory(rows[i]) =>
                  /\ Is(c, {"update", "remove"}) /\ row \in Category
                  /\ row["active"] /\ ~rows[i]["active"] =>
                        /\ Is(c, {"update"}) /\ "active" \in DOMAIN body[c].values
                        /\ body[c].values["active"]
            /\ IsHelpRequest(rows[i]) \/ IsCategory(rows[i])
<1> DEFINE i == body[c].id
           cols == Changed(instance[c], Asked(c))
           row == Set(rows[i], cols, Asked(c))
<1>1. IsRequest(body[c]) /\ i \in RowId /\ CatalogTypeOK /\ Fits(c)
  BY RequestAssumption DEF CatalogInv, CatalogTypeOK, IsRequest
<1>2. cols \subseteq DOMAIN Asked(c)
  BY DEF Changed
<1>3. CASE Is(c, {"resolve"})
  <2>1. IsHelpRequest(rows[i]) /\ ~IsCategory(rows[i]) /\ rows[i] \in HelpRequest
    BY <1>1, <1>3, Kinds DEF Fits, Is
  <2>2. Asked(c) = [col \in {"status"} |-> "resolved"]
    BY <1>3 DEF Asked, Is
  <2>3. row = [col \in {"status"} |-> IF col \in cols THEN Asked(c)[col] ELSE rows[i][col]]
    BY <2>1 DEF Set, HelpRequest
  <2>4. (IF "status" \in cols THEN Asked(c)["status"] ELSE rows[i]["status"]) \in {"pending", "resolved"}
    BY <2>1, <2>2 DEF HelpRequest
  <2>5. row \in HelpRequest
    BY <2>3, <2>4 DEF HelpRequest
  <2> QED
    BY <1>1, <1>3, <2>1, <2>5
<1>4. CASE ~Is(c, {"resolve"})
  <2>1. /\ Is(c, {"update", "remove"}) /\ IsCategory(rows[i]) /\ ~IsHelpRequest(rows[i])
        /\ rows[i] \in Category
    BY <1>1, <1>4, Kinds DEF Fits
  <2>2. CASE Is(c, {"remove"})
    <3>1. Asked(c) = [col \in {"active"} |-> FALSE]
      BY <2>2 DEF Asked, Is
    <3>2. AreValues(Asked(c)) /\ "active" \in Column /\ Asked(c)["active"] = FALSE
      BY <3>1 DEF AreValues, Column
    <3>3. /\ row \in Category
          /\ row["active"] = IF "active" \in cols THEN Asked(c)["active"] ELSE rows[i]["active"]
      BY <1>2, <2>1, <3>2, SetCategory
    <3> QED
      BY <1>1, <2>1, <2>2, <3>2, <3>3
  <2>3. CASE Is(c, {"update"})
    <3>1. Asked(c) = body[c].values
      BY <2>3 DEF Asked, Is
    <3>2. /\ row \in Category
          /\ row["active"] = IF "active" \in cols THEN Asked(c)["active"] ELSE rows[i]["active"]
      BY <1>1, <1>2, <2>1, <3>1, SetCategory DEF IsRequest, Column
    <3> QED
      BY <1>1, <1>2, <2>1, <2>3, <3>1, <3>2
  <2> QED
    BY <2>1, <2>2, <2>3 DEF Is
<1> QED
  BY <1>3, <1>4

\* The row that a creation inserts.
LEMMA Inserted ==
  ASSUME CatalogInv, NEW c \in Call, query[c] = "insert"
  PROVE  /\ [col \in Column |-> IF col = "active" THEN TRUE ELSE body[c].values[col]] \in Category
         /\ rows[c] = NoRow
<1> DEFINE row == [col \in Column |-> IF col = "active" THEN TRUE ELSE body[c].values[col]]
<1>1. IsRequest(body[c]) /\ Fits(c) /\ Is(c, {"create"})
  BY RequestAssumption DEF CatalogInv, CatalogTypeOK, Fits
<1>2. /\ DOMAIN body[c].values = {"name", "rest"}
      /\ body[c].values["name"] \in CategoryName /\ body[c].values["rest"] \in Rest
  BY <1>1 DEF IsRequest, AreValues, Is
<1>3. row \in [Column -> CategoryName \cup BOOLEAN \cup Rest]
  BY <1>2 DEF Column
<1> QED
  BY <1>1, <1>2, <1>3 DEF Fits, Category, Column

\* What one step does to the tables: nothing; or it puts one row, for a call that may: a new
\* one, or one of the kind that was there.
Put(i, row) ==
    /\ rows' = [rows EXCEPT ![i] = row]
    /\ row \in Category \cup HelpRequest
    /\ IsCategory(rows[i]) => row \in Category
    /\ IsHelpRequest(rows[i]) => row \in HelpRequest

LEMMA StepPuts ==
  ASSUME CatalogInv, NEW c \in Call,
         \/ Insert(c) \/ Write(c) \/ CreateRequest(c)
  PROVE  \/ UNCHANGED rows
         \/ \E i \in RowId, row \in Category \cup HelpRequest :
               /\ Put(i, row) /\ OneEach(rows')
               /\ rows[i] = NoRow => i = c
<1>1. CatalogTypeOK /\ c \in RowId
  BY DEF CatalogInv, RowId
<1>2. CASE Insert(c)
  <2> DEFINE row == [col \in Column |-> IF col = "active" THEN TRUE ELSE body[c].values[col]]
  <2>1. row \in Category /\ rows[c] = NoRow
    BY <1>2, Inserted DEF Insert
  <2>2. UNCHANGED rows \/ (rows' = [rows EXCEPT ![c] = row] /\ OneEach(rows'))
    BY <1>2 DEF Insert, Store, IndexRefuses
  <2> QED
    BY <1>1, <2>1, <2>2 DEF Put, IsCategory, IsHelpRequest
<1>3. CASE Write(c)
  <2> DEFINE i == body[c].id
             row == Set(rows[i], Changed(instance[c], Asked(c)), Asked(c))
  <2>1. /\ i \in RowId
        /\ IsHelpRequest(rows[i]) => row \in HelpRequest
        /\ IsCategory(rows[i]) => row \in Category
        /\ IsHelpRequest(rows[i]) \/ IsCategory(rows[i])
    BY <1>3, Written DEF Write
  <2>2. UNCHANGED rows \/ (rows' = [rows EXCEPT ![i] = row] /\ OneEach(rows'))
    BY <1>1, <1>3, <2>1 DEF Write, Store, IndexRefuses, CatalogTypeOK
  <2> QED
    BY <2>1, <2>2 DEF Put, IsCategory, IsHelpRequest
<1>4. CASE CreateRequest(c)
  <2> DEFINE row == [col \in {"status"} |-> "pending"]
  <2>1. row \in HelpRequest /\ rows[c] = NoRow /\ rows' = [rows EXCEPT ![c] = row]
    BY <1>4 DEF CreateRequest, HelpRequest, CatalogInv, Fits
  <2>2. ~IsCategory(rows'[c])
    BY <1>1, <2>1 DEF IsCategory, Column, CatalogTypeOK
  <2>3. OneEach(rows')
    BY <1>1, <2>1, <2>2 DEF OneEach, CatalogInv, OneName, CatalogTypeOK
  <2> QED
    BY <1>1, <2>1, <2>3 DEF Put, IsCategory, IsHelpRequest
<1> QED
  BY <1>2, <1>3, <1>4

\* No row of a category or of a help request becomes anything else, and none is NoRow.
LEMMA PutKeeps ==
  ASSUME CatalogInv, NEW i \in RowId, NEW row \in Category \cup HelpRequest, Put(i, row)
  PROVE  /\ rows' \in [RowId -> Category \cup HelpRequest \cup {NoRow}]
         /\ \A j \in RowId : /\ IsCategory(rows[j]) => IsCategory(rows'[j])
                             /\ IsHelpRequest(rows[j]) => IsHelpRequest(rows'[j])
         /\ \A j \in RowId \ {i} : rows'[j] = rows[j]
<1>1. rows \in [RowId -> Category \cup HelpRequest \cup {NoRow}]
  BY DEF CatalogInv, CatalogTypeOK
<1>2. /\ rows' = [rows EXCEPT ![i] = row]
      /\ IsCategory(rows[i]) => row \in Category
      /\ IsHelpRequest(rows[i]) => row \in HelpRequest
  BY DEF Put
<1>3. /\ row \in Category => IsCategory(row)
      /\ row \in HelpRequest => IsHelpRequest(row)
  BY NoRowAssumption DEF Category, HelpRequest, IsCategory, IsHelpRequest
<1> QED
  BY <1>1, <1>2, <1>3

\* A call that waits keeps its place, whatever the step of another does to the tables.
LEMMA OthersFit ==
  ASSUME CatalogInv, NEW c \in Call, NEW d \in Call \ {c}, UNCHANGED body,
         query'[d] = query[d], instance'[d] = instance[d],
         \/ UNCHANGED rows
         \/ \E i \in RowId, row \in Category \cup HelpRequest :
               Put(i, row) /\ OneEach(rows') /\ (rows[i] = NoRow => i = c)
  PROVE  Fits(d)'
<1>1. Fits(d) /\ IsRequest(body[d]) /\ d \in RowId
  BY RequestAssumption DEF CatalogInv, CatalogTypeOK, RowId
<1>2. CASE UNCHANGED rows
  BY <1>1, <1>2 DEF Fits, Is
<1>3. ASSUME NEW i \in RowId, NEW row \in Category \cup HelpRequest,
             Put(i, row), rows[i] = NoRow => i = c
      PROVE  Fits(d)'
  <2>1. body[d].id \in RowId
    BY <1>1 DEF IsRequest
  <2>2. /\ IsCategory(rows[body[d].id]) => IsCategory(rows'[body[d].id])
        /\ IsHelpRequest(rows[body[d].id]) => IsHelpRequest(rows'[body[d].id])
    BY <1>3, <2>1, PutKeeps
  <2>3. rows[d] = NoRow => rows'[d] = NoRow
    BY <1>1, <1>3, PutKeeps
  <2> QED
    BY <1>1, <2>2, <2>3 DEF Fits, Is
<1> QED
  BY <1>2, <1>3

\* A step of a call leaves the queries, the answers and what was read of the others alone.
LEMMA Moves ==
  ASSUME CatalogTypeOK, NEW c \in Call, NEW label, NEW o,
         label \in {"find_name", "insert", "find", "write", "get", "list", "ask"},
         o \in {"ok", "not_found", "conflict", "error"}
  PROVE  /\ Goto(c, label) =>
               /\ query'[c] = label /\ \A d \in Call \ {c} : query'[d] = query[d]
               /\ query' \in [Call -> {"start", "find_name", "insert", "find", "write", "get", "list",
                                      "ask", "done"}]
               /\ answer' \in [Call -> {"none", "ok", "not_found", "conflict", "error"}]
         /\ Return(c, o) =>
               /\ query'[c] = "done" /\ \A d \in Call \ {c} : query'[d] = query[d]
               /\ query' \in [Call -> {"start", "find_name", "insert", "find", "write", "get", "list",
                                      "ask", "done"}]
               /\ answer' \in [Call -> {"none", "ok", "not_found", "conflict", "error"}]
               /\ answer'[c] = o
BY DEF CatalogTypeOK, Goto, Return

\* One step of a call: what it did to the tables, and where it waits now.
LEMMA CallSteps ==
  ASSUME CatalogInv, NEW c \in Call,
         UNCHANGED body, CatalogTypeOK',
         \A d \in Call \ {c} : query'[d] = query[d] /\ instance'[d] = instance[d],
         \/ UNCHANGED rows
         \/ \E i \in RowId, row \in Category \cup HelpRequest :
               Put(i, row) /\ OneEach(rows') /\ (rows[i] = NoRow => i = c),
         Fits(c)'
  PROVE  CatalogInv'
<1>1. \A d \in Call : Fits(d)'
  BY OthersFit
<1>2. OneName'
  BY DEF CatalogInv, OneName
<1> QED
  BY <1>1, <1>2 DEF CatalogInv

THEOREM CatalogInvariant == CatalogInv /\ [CatalogNext]_catalogVars => CatalogInv'
<1> SUFFICES ASSUME CatalogInv, [CatalogNext]_catalogVars PROVE CatalogInv'
  OBVIOUS
<1>1. CatalogTypeOK /\ \A c \in Call : Fits(c) /\ c \in RowId
  BY DEF CatalogInv, RowId
<1>2. \A c \in Call : IsRequest(body[c]) /\ body[c].id \in RowId /\ body[c].kind \in Kind
  BY <1>1, RequestAssumption DEF CatalogTypeOK, IsRequest
<1>3. ASSUME NEW c \in Call, Arrive(c) PROVE CatalogInv'
  <2> DEFINE label == CASE Is(c, {"create"})                  -> "find_name"
                        [] Is(c, {"update"}) /\ HasName(c)    -> "find_name"
                        [] Is(c, {"update"}) /\ ~HasName(c)   -> "find"
                        [] Is(c, {"remove", "resolve"})       -> "find"
                        [] Is(c, {"get", "list", "ask"})      -> body[c].kind
  <2>1. /\ label \in {"find_name", "find", "get", "list", "ask"}
        /\ label = "find_name" => Is(c, {"create", "update"})
        /\ label = "find" => Is(c, {"update", "remove", "resolve"})
        /\ label \in {"get", "list", "ask"} => Is(c, {label})
    BY <1>2 DEF Is, Kind
  <2>2. Goto(c, label) /\ query[c] = "start" /\ UNCHANGED <<rows, body, instance, shown, mail>>
    BY <1>3 DEF Arrive
  <2> HIDE DEF label
  <2>3. CatalogTypeOK' /\ query'[c] = label /\ \A d \in Call \ {c} : query'[d] = query[d]
    BY <1>1, <2>1, <2>2, Moves DEF CatalogTypeOK
  <2>4. Fits(c)'
    BY <1>1, <2>1, <2>2, <2>3 DEF Fits, Is
  <2> QED
    BY <2>2, <2>3, <2>4, CallSteps
<1>4. ASSUME NEW c \in Call, FindName(c) PROVE CatalogInv'
  <2>1. /\ query[c] = "find_name" /\ UNCHANGED <<rows, body, instance, shown, mail>>
        /\ Return(c, "conflict") \/ Goto(c, IF Is(c, {"create"}) THEN "insert" ELSE "find")
    BY <1>4 DEF FindName
  <2>2. /\ CatalogTypeOK' /\ \A d \in Call \ {c} : query'[d] = query[d]
        /\ query'[c] = "done" \/ query'[c] = IF Is(c, {"create"}) THEN "insert" ELSE "find"
    BY <1>1, <2>1, Moves DEF CatalogTypeOK
  <2>3. Fits(c)'
    BY <1>1, <2>1, <2>2 DEF Fits, Is
  <2> QED
    BY <2>1, <2>2, <2>3, CallSteps
<1>5. ASSUME NEW c \in Call, Find(c) PROVE CatalogInv'
  <2> DEFINE row == rows[body[c].id]
  <2>1. /\ query[c] = "find" /\ UNCHANGED <<rows, body, shown, mail>>
        /\ \/ Return(c, "not_found") /\ UNCHANGED instance
           \/ /\ Goto(c, "write") /\ instance' = [instance EXCEPT ![c] = row]
              /\ Is(c, {"resolve"}) => IsHelpRequest(row)
              /\ ~Is(c, {"resolve"}) => IsCategory(row)
    BY <1>5 DEF Find
  <2>2. row \in Category \cup HelpRequest \cup {NoRow}
    BY <1>1, <1>2 DEF CatalogTypeOK
  <2>3. row # NoRow => row \in Category \cup HelpRequest
    BY <2>2
  <2>4. /\ CatalogTypeOK' /\ \A d \in Call \ {c} : query'[d] = query[d] /\ instance'[d] = instance[d]
        /\ \/ query'[c] = "done"
           \/ /\ query'[c] = "write" /\ instance'[c] = row
              /\ Is(c, {"resolve"}) => IsHelpRequest(row)
              /\ ~Is(c, {"resolve"}) => IsCategory(row)
    BY <1>1, <2>1, <2>3, Moves DEF CatalogTypeOK, IsHelpRequest, IsCategory
  <2>5. Fits(c)'
    BY <1>1, <2>1, <2>4 DEF Fits, Is
  <2> QED
    BY <2>1, <2>4, <2>5, CallSteps
<1>6. ASSUME NEW c \in Call, Insert(c) \/ Write(c) \/ CreateRequest(c) PROVE CatalogInv'
  <2>1. \/ UNCHANGED rows
        \/ \E i \in RowId, row \in Category \cup HelpRequest :
              Put(i, row) /\ OneEach(rows') /\ (rows[i] = NoRow => i = c)
    BY <1>6, StepPuts
  <2>2. rows' \in [RowId -> Category \cup HelpRequest \cup {NoRow}]
    BY <1>1, <2>1, PutKeeps DEF CatalogTypeOK
  <2>3. /\ UNCHANGED <<body, instance, shown>>
        /\ Return(c, "ok") \/ Return(c, "error")
        /\ UNCHANGED mail \/ mail' = [mail EXCEPT ![c] = "sending"]
    BY <1>6 DEF Insert, Write, CreateRequest, Store
  <2>4. CatalogTypeOK' /\ query'[c] = "done" /\ \A d \in Call \ {c} : query'[d] = query[d]
    BY <1>1, <2>2, <2>3, Moves DEF CatalogTypeOK
  <2>5. Fits(c)'
    BY <2>4 DEF Fits
  <2> QED
    BY <2>1, <2>3, <2>4, <2>5, CallSteps
<1>7. ASSUME NEW c \in Call, Get(c) \/ List(c) \/ QueryFails(c) PROVE CatalogInv'
  <2>1. /\ UNCHANGED <<rows, body, instance, mail>>
        /\ Return(c, "ok") \/ Return(c, "not_found") \/ Return(c, "error")
        /\ UNCHANGED shown \/ shown' = [shown EXCEPT ![c] = Active]
    BY <1>7 DEF Get, List, QueryFails
  <2>2. Active \subseteq RowId
    BY DEF Active
  <2>3. CatalogTypeOK' /\ query'[c] = "done" /\ \A d \in Call \ {c} : query'[d] = query[d]
    BY <1>1, <2>1, <2>2, Moves DEF CatalogTypeOK
  <2>4. Fits(c)'
    BY <2>3 DEF Fits
  <2> QED
    BY <2>1, <2>3, <2>4, CallSteps
<1>8. ASSUME NEW c \in Call, MailEnds(c) PROVE CatalogInv'
  <2>1. CatalogTypeOK'
    BY <1>1, <1>8 DEF MailEnds, CatalogTypeOK
  <2>2. \A d \in Call : Fits(d)'
    BY <1>1, <1>8 DEF MailEnds, Fits, Is
  <2> QED
    BY <1>8, <2>1, <2>2 DEF MailEnds, CatalogInv, OneName
<1>9. CASE UNCHANGED catalogVars
  <2>1. CatalogTypeOK' /\ \A d \in Call : Fits(d)'
    BY <1>1, <1>9 DEF catalogVars, CatalogTypeOK, Fits, Is
  <2> QED
    BY <1>9, <2>1 DEF catalogVars, CatalogInv, OneName
<1> QED
  BY <1>3, <1>4, <1>5, <1>6, <1>7, <1>8, <1>9 DEF CatalogNext

\* Types, unique names, the kinds of the rows and the queries of the calls hold in every state.
THEOREM CatalogCorrect == CatalogSpec => []CatalogInv
BY CatalogInitially, CatalogInvariant, PTL DEF CatalogSpec

\* However creations and renamings that all found a name free interleave, no two categories
\* come to have one name.
THEOREM NamesUnique == CatalogSpec => []OneName
<1>1. CatalogInv => OneName
  BY DEF CatalogInv
<1> QED
  BY <1>1, CatalogCorrect, PTL

\* The write of a call is the only step that makes an inactive category active.
LEMMA Revives ==
  ASSUME CatalogInv, [CatalogNext]_catalogVars, NEW i \in RowId,
         IsCategory(rows[i]), i \notin Active, i \in Active'
  PROVE  \E c \in Call : /\ Is(c, {"update"}) /\ body[c].id = i
                         /\ "active" \in DOMAIN body[c].values /\ body[c].values["active"]
                         /\ query[c] = "write" /\ answer'[c] = "ok"
<1>1. rows'[i] # rows[i] /\ IsCategory(rows'[i]) /\ rows'[i]["active"] /\ ~rows[i]["active"]
  BY DEF Active
<1>2. PICK c \in Call : Insert(c) \/ Write(c) \/ CreateRequest(c)
  <2>1. ASSUME NEW c \in Call,
               \/ Arrive(c) \/ FindName(c) \/ Find(c) \/ Get(c) \/ List(c) \/ MailEnds(c)
               \/ QueryFails(c)
        PROVE  FALSE
    <3>1. UNCHANGED rows
      BY <2>1 DEF Arrive, FindName, Find, Get, List, MailEnds, QueryFails
    <3> QED
      BY <1>1, <3>1
  <2>2. CatalogNext
    BY <1>1 DEF catalogVars
  <2> QED
    BY <2>1, <2>2 DEF CatalogNext
<1>3. CatalogTypeOK /\ Fits(c) /\ c \in RowId
  BY DEF CatalogInv, RowId
<1>4. rows[i] # NoRow
  BY DEF IsCategory
<1>5. CASE Insert(c) \/ CreateRequest(c)
  <2>1. rows[c] = NoRow /\ c # i
    BY <1>3, <1>4, <1>5 DEF Insert, CreateRequest, Fits
  <2>2. rows'[i] = rows[i]
    BY <1>3, <1>5, <2>1 DEF Insert, CreateRequest, Store, CatalogTypeOK
  <2> QED
    BY <1>1, <2>2
<1>6. CASE Write(c)
  <2> DEFINE row == Set(rows[body[c].id], Changed(instance[c], Asked(c)), Asked(c))
  <2>1. /\ query[c] = "write" /\ Return(c, "ok")
        /\ rows' = [rows EXCEPT ![body[c].id] = row]
    <3>1. rows[body[c].id] = rows[body[c].id] /\ body[c].id \in RowId
      BY <1>6, Written DEF Write
    <3> QED
      BY <1>1, <1>3, <1>6, <3>1 DEF Write, Store, CatalogTypeOK
  <2>2. body[c].id = i /\ rows'[i] = row
    BY <1>1, <1>3, <2>1 DEF CatalogTypeOK
  <2>3. /\ Is(c, {"update"}) /\ "active" \in DOMAIN body[c].values
        /\ body[c].values["active"]
    BY <1>1, <2>1, <2>2, Written
  <2>4. answer'[c] = "ok"
    BY <1>3, <2>1 DEF Return, CatalogTypeOK
  <2> QED
    BY <2>1, <2>2, <2>3, <2>4
<1> QED
  BY <1>2, <1>5, <1>6

\* A category that was removed comes back only by the write of a call that asks for it: not by
\* a renaming that read it before it was removed, and not by a failed one.
THEOREM RevivedIfAsked == CatalogSpec => ActiveIfAsked
<1>1. CatalogInv /\ [CatalogNext]_catalogVars =>
        [ \A i \in RowId : IsCategory(rows[i]) /\ i \notin Active /\ i \in Active' =>
            \E c \in Call : /\ Is(c, {"update"}) /\ body[c].id = i
                            /\ "active" \in DOMAIN body[c].values /\ body[c].values["active"]
                            /\ query[c] = "write" /\ answer'[c] = "ok" ]_catalogVars
  BY Revives
<1> QED
  BY <1>1, CatalogCorrect, PTL DEF CatalogSpec, ActiveIfAsked
-----------------------------------------------------------------------------
(* What the classifier reads of the catalog.                               *)

\* The rows with is_active, under the lower-cased names that the loader makes of theirs.
LoadedRows(Lower) == {[id |-> i, name |-> Lower[rows[i]["name"]]] : i \in Active}

\* A step of the catalog lets one active row come, get another name or go.
LEMMA OneRowAtATime ==
  ASSUME NEW Lower, CatalogInv, [CatalogNext]_catalogVars
  PROVE  \/ UNCHANGED LoadedRows(Lower)
         \/ \E row \in LoadedRows(Lower)' : LoadedRows(Lower)' = WithRow(LoadedRows(Lower), row)
         \/ \E row \in LoadedRows(Lower) : LoadedRows(Lower)' = LoadedRows(Lower) \ {row}
<1> DEFINE Read(i) == [id |-> i, name |-> Lower[rows[i]["name"]]]
<1>1. CatalogTypeOK
  BY DEF CatalogInv
<1>2. CASE UNCHANGED rows
  <2>1. UNCHANGED Active
    BY <1>2 DEF Active
  <2> QED
    BY <1>2, <2>1 DEF LoadedRows
<1>3. ASSUME NEW i \in RowId, NEW row \in Category \cup HelpRequest, Put(i, row)
      PROVE  \/ UNCHANGED LoadedRows(Lower)
             \/ /\ Read(i)' \in LoadedRows(Lower)'
                /\ LoadedRows(Lower)' = WithRow(LoadedRows(Lower), Read(i)')
             \/ Read(i) \in LoadedRows(Lower) /\ LoadedRows(Lower)' = LoadedRows(Lower) \ {Read(i)}
  <2>1. \A j \in RowId \ {i} : rows'[j] = rows[j] /\ (j \in Active' <=> j \in Active)
    BY <1>3, PutKeeps DEF Active
  <2>2. \A j \in RowId \ {i} : Read(j)' = Read(j)
    BY <2>1
  <2>3. \A j \in Active \cup Active' : j \in RowId
    BY DEF Active
  <2>4. CASE i \in Active'
    <3>1. LoadedRows(Lower)' = WithRow(LoadedRows(Lower), Read(i)')
      BY <2>1, <2>2, <2>3, <2>4 DEF LoadedRows, WithRow
    <3>2. Read(i)' \in LoadedRows(Lower)'
      BY <2>4 DEF LoadedRows
    <3> QED
      BY <3>1, <3>2
  <2>5. CASE i \notin Active' /\ i \in Active
    <3>1. LoadedRows(Lower)' = LoadedRows(Lower) \ {Read(i)}
      BY <2>1, <2>2, <2>3, <2>5 DEF LoadedRows
    <3> QED
      BY <2>5, <3>1 DEF LoadedRows
  <2>6. CASE i \notin Active' /\ i \notin Active
    BY <2>1, <2>2, <2>3, <2>6 DEF LoadedRows
  <2> QED
    BY <2>4, <2>5, <2>6
<1>4. ASSUME NEW c \in Call, Insert(c) \/ Write(c) \/ CreateRequest(c)
      PROVE  \/ UNCHANGED rows
             \/ \E i \in RowId, row \in Category \cup HelpRequest : Put(i, row)
  BY <1>4, StepPuts
<1>5. ASSUME NEW c \in Call,
             \/ Arrive(c) \/ FindName(c) \/ Find(c) \/ Get(c) \/ List(c) \/ MailEnds(c)
             \/ QueryFails(c)
      PROVE  UNCHANGED rows
  BY <1>5 DEF Arrive, FindName, Find, Get, List, MailEnds, QueryFails
<1>6. \/ UNCHANGED rows
      \/ \E i \in RowId, row \in Category \cup HelpRequest : Put(i, row)
  BY <1>4, <1>5 DEF CatalogNext, catalogVars
<1> QED
  BY <1>2, <1>3, <1>6

\* A call of the catalog changes what the classifier can read in no way but that of its SaveRow
\* or its RetireRow, whichever way calls that act on what they read before interleave: the
\* environment that Classifier assumes of its tables is the component that keeps them.
THEOREM CatalogIsEnvironment ==
  ASSUME NEW t \in Table, NEW Lower \in [CategoryName -> Name], RowId \subseteq Id,
         CatalogInv, CatalogNext, LoadedRows(Lower)' # LoadedRows(Lower),
         active \in [Table -> SUBSET Row], active[t] = LoadedRows(Lower),
         active' = [active EXCEPT ![t] = LoadedRows(Lower)'], Edited
  PROVE  \E row \in Row : SaveRow(t, row) \/ RetireRow(t, row)
<1>1. LoadedRows(Lower) \subseteq Row
  OBVIOUS
<1>2. LoadedRows(Lower)' \subseteq Row
  <2>1. CatalogInv'
    BY CatalogInvariant
  <2>2. \A i \in Active' : i \in RowId /\ rows'[i]["name"] \in CategoryName
    <3>1. \A i \in RowId : rows'[i] \in Category \cup HelpRequest \cup {NoRow}
      BY <2>1 DEF CatalogInv, CatalogTypeOK
    <3>2. \A row \in Category \cup HelpRequest \cup {NoRow} :
            IsCategory(row) => row["name"] \in CategoryName
      BY DEF IsCategory, Category, HelpRequest, Column
    <3> QED
      BY <3>1, <3>2 DEF Active
  <2> QED
    BY <2>2 DEF LoadedRows, Row
<1>3. CASE \E row \in LoadedRows(Lower)' : LoadedRows(Lower)' = WithRow(LoadedRows(Lower), row)
  BY <1>2, <1>3 DEF SaveRow
<1>4. CASE \E row \in LoadedRows(Lower) : LoadedRows(Lower)' = LoadedRows(Lower) \ {row}
  BY <1>1, <1>4 DEF RetireRow
<1> QED
  BY <1>3, <1>4, OneRowAtATime
-----------------------------------------------------------------------------
(* Paging.                                                                 *)

\* The newer rows of a finite set are fewer than the set.
LEMMA NewerIsLess ==
  ASSUME stamp \in [Item -> Time], NEW items, IsFiniteSet(items), NEW i \in Item
  PROVE  /\ IsFiniteSet(Newer(i, items)) /\ Cardinality(Newer(i, items)) \in Nat
         /\ i \in items => Cardinality(Newer(i, items)) < Cardinality(items)
<1>1. stamp[i] \in Int
  BY ItemAssumption
<1>2. Newer(i, items) \in SUBSET items /\ i \notin Newer(i, items)
  BY <1>1 DEF Newer
<1>3. /\ IsFiniteSet(Newer(i, items)) /\ Cardinality(Newer(i, items)) <= Cardinality(items)
      /\ Cardinality(items) = Cardinality(Newer(i, items)) => items = Newer(i, items)
  BY <1>2, FS_Subset
<1>4. Cardinality(Newer(i, items)) \in Nat /\ Cardinality(items) \in Nat
  BY <1>3, FS_CardinalityType
<1> QED
  BY <1>2, <1>3, <1>4

LEMMA ListedFinite ==
  ASSUME PagingTypeOK
  PROVE  /\ Listed \subseteq present /\ Listed \subseteq Item /\ IsFiniteSet(Listed)
         /\ Cardinality(Listed) \in Nat
<1>1. Listed \in SUBSET present /\ present \subseteq Item /\ IsFiniteSet(present)
  BY DEF Listed, PagingTypeOK
<1>2. IsFiniteSet(Listed)
  BY <1>1, FS_Subset
<1> QED
  BY <1>1, <1>2, FS_CardinalityType

\* The join has a row at least of every row of the list: its count is never too low.
LEMMA JoinCountsAll ==
  ASSUME PagingTypeOK
  PROVE  Cardinality(JoinedRows) \in Nat /\ Cardinality(Listed) <= Cardinality(JoinedRows)
<1> DEFINE Block(i) == {i} \X (1 .. Joined[i])
           Blocks == {Block(i) : i \in Listed}
           block == [i \in Listed |-> Block(i)]
           first == [i \in Listed |-> <<i, 1>>]
<1>1. Listed \subseteq Item /\ IsFiniteSet(Listed)
  BY ListedFinite
<1>2. IsFiniteSet(Blocks)
  <2>1. block \in Surjection(Listed, Blocks)
    BY DEF Surjection
  <2> QED
    BY <1>1, <2>1, FS_Surjection
<1>3. ASSUME NEW T \in Blocks PROVE IsFiniteSet(T)
  <2>1. PICK i \in Listed : T = Block(i)
    BY <1>3
  <2>2. Joined[i] \in Int
    BY <1>1, ItemAssumption
  <2>3. IsFiniteSet({i})
    BY FS_Singleton
  <2>4. IsFiniteSet(1 .. Joined[i])
    BY <2>2, 1 \in Int, FS_Interval
  <2> QED
    BY <2>1, <2>3, <2>4, FS_Product
<1>4. IsFiniteSet(JoinedRows)
  <2>1. JoinedRows = UNION Blocks
    BY DEF JoinedRows
  <2> QED
    BY <1>2, <1>3, <2>1, FS_UNION
<1>5. first \in Injection(Listed, JoinedRows)
  <2>1. ASSUME NEW i \in Listed PROVE <<i, 1>> \in JoinedRows
    <3>1. 1 \in 1 .. Joined[i]
      BY <1>1, ItemAssumption
    <3> QED
      BY <3>1 DEF JoinedRows
  <2>2. first \in [Listed -> JoinedRows]
    BY <2>1
  <2>3. \A i, j \in Listed : first[i] = first[j] => i = j
    OBVIOUS
  <2> QED
    BY <2>2, <2>3 DEF Injection, IsInjective
<1> QED
  BY <1>4, <1>5, FS_Injection, FS_CardinalityType

\* What hasNextPage does not announce is on the pages up to this one.
LEMMA LastPageHolds ==
  ASSUME NEW count \in Nat, page \in Nat \ {0}, limit \in Nat \ {0}, ~HasNextPage(count)
  PROVE  count <= page * limit
<1> DEFINE q == (count + limit - 1) \div limit
           r == (count + limit - 1) % limit
<1>1. q \in Int /\ r \in 0 .. limit - 1 /\ count + limit - 1 = limit * q + r
  OBVIOUS
<1>2. q <= page
  BY <1>1 DEF HasNextPage, TotalPages
<1> HIDE DEF q, r
<1>3. limit * q <= limit * page
  BY <1>1, <1>2
<1> QED
  BY <1>1, <1>3

\* The rows that a step neither changes nor moves to another filter stay in the list.
LEMMA MatchesSame ==
  ASSUME NEW i, UNCHANGED <<list, filter>>, status'[i] = status[i]
  PROVE  Matches(i)' = Matches(i)
BY DEF Matches, Users, AllProfiles, AllReviews, HelpDesk, Approved, ApprovedReviews, MyReviews,
       Favourites, Conversations, Messages, StatusAsked, TextAsked

\* The limit newest rows of a set: all rows, if there are no more; newer than every other row;
\* and not none, if the set has any.
LEMMA Newest ==
  ASSUME stamp \in [Item -> Time], NEW items \in SUBSET Item, IsFiniteSet(items),
         InOrder(items, stamp), limit \in Nat \ {0}
  PROVE  LET taken == {i \in items : Cardinality(Newer(i, items)) < limit}
         IN /\ Cardinality(items) <= limit => taken = items
            /\ \A i \in items \ taken, j \in taken : stamp[i] < stamp[j]
            /\ items # {} => taken # {}
<1> DEFINE taken == {i \in items : Cardinality(Newer(i, items)) < limit}
<1>1. \A i \in items : /\ stamp[i] \in Int /\ IsFiniteSet(Newer(i, items))
                       /\ Cardinality(Newer(i, items)) \in Nat
                       /\ Cardinality(Newer(i, items)) < Cardinality(items)
  BY NewerIsLess, ItemAssumption
<1>2. Cardinality(items) \in Nat /\ \A k \in items : stamp[k] \in Int
  BY <1>1, FS_CardinalityType
<1>3. Cardinality(items) <= limit => taken = items
  BY <1>1, <1>2
<1>4. ASSUME NEW i \in items \ taken, NEW j \in taken PROVE stamp[i] < stamp[j]
  <2>1. stamp[i] \in Int /\ stamp[j] \in Int /\ stamp[i] # stamp[j]
    BY <1>1 DEF InOrder
  <2>2. ASSUME stamp[i] > stamp[j] PROVE FALSE
    <3>1. Newer(i, items) \in SUBSET Newer(j, items)
      BY <1>2, <2>1, <2>2 DEF Newer
    <3>2. Cardinality(Newer(i, items)) <= Cardinality(Newer(j, items))
      BY <1>1, <3>1, FS_Subset
    <3> QED
      BY <1>1, <3>2
  <2> QED
    BY <2>1, <2>2
<1>5. ASSUME items # {} PROVE taken # {}
  <2> DEFINE Above == {Newer(i, items) : i \in items}
  <2>1. Above \subseteq FiniteSubsetsOf(items) /\ Above # {}
    BY <1>1, <1>5 DEF FiniteSubsetsOf, Newer
  <2>2. IsWellFoundedOn(StrictSubsetOrdering(items), FiniteSubsetsOf(items))
    BY FS_StrictSubsetOrderingWellFounded
  <2>3. \E x \in Above : \A y \in Above : ~(<<y, x>> \in StrictSubsetOrdering(items))
    BY <2>1, <2>2, WFMin
  <2>4. PICK i \in items : \A j \in items :
            ~(<<Newer(j, items), Newer(i, items)>> \in StrictSubsetOrdering(items))
    BY <2>3
  <2>5. ASSUME NEW j \in Newer(i, items) PROVE FALSE
    <3>1. j \in items /\ stamp[j] > stamp[i]
      BY <2>5 DEF Newer
    <3>2. /\ Newer(j, items) \subseteq Newer(i, items) /\ j \notin Newer(j, items)
          /\ Newer(i, items) \subseteq items
      BY <1>2, <3>1 DEF Newer
    <3>3. <<Newer(j, items), Newer(i, items)>> \in StrictSubsetOrdering(items)
      BY <2>5, <3>2 DEF StrictSubsetOrdering
    <3> QED
      BY <2>4, <3>1, <3>3
  <2>6. Cardinality(Newer(i, items)) = 0
    BY <2>5, FS_EmptySet
  <2> QED
    BY <2>6
<1> QED
  BY <1>3, <1>4, <1>5

\* A list that loses no row and turns none back only puts more rows before the ones that stay
\* where they are.
LEMMA NewerGrows ==
  ASSUME PagingTypeOK, PagingTypeOK', NEW i \in Listed, stamp'[i] = stamp[i],
         Listed \subseteq Listed', \A j \in Listed : stamp[j] <= stamp'[j]
  PROVE  /\ Cardinality(Newer(i, Listed)) \in Nat /\ Cardinality(Newer(i, Listed)') \in Nat
         /\ Cardinality(Newer(i, Listed)) <= Cardinality(Newer(i, Listed)')
<1>1. /\ Listed \subseteq Item /\ IsFiniteSet(Listed) /\ stamp \in [Item -> Time]
      /\ Cardinality(Newer(i, Listed)) \in Nat
  BY ListedFinite, NewerIsLess DEF PagingTypeOK
<1>2. /\ Listed' \subseteq Item /\ IsFiniteSet(Listed') /\ stamp' \in [Item -> Time]
  <2>1. Listed' \in SUBSET present' /\ present' \subseteq Item /\ IsFiniteSet(present')
    BY DEF Listed, PagingTypeOK
  <2> QED
    BY <2>1, FS_Subset DEF PagingTypeOK
<1>3. Newer(i, Listed)' \in SUBSET Listed'
  BY DEF Newer
<1>4. IsFiniteSet(Newer(i, Listed)')
  BY <1>2, <1>3, FS_Subset
<1>5. Newer(i, Listed) \in SUBSET Newer(i, Listed)'
  <2>1. ASSUME NEW j \in Listed, stamp[j] > stamp[i] PROVE stamp'[j] > stamp'[i]
    <3>1. stamp[j] \in Int /\ stamp[i] \in Int /\ stamp'[j] \in Int
      BY <1>1, <1>2, ItemAssumption
    <3> QED
      BY <2>1, <3>1
  <2> QED
    BY <2>1 DEF Newer
<1>6. Cardinality(Newer(i, Listed)) <= Cardinality(Newer(i, Listed)')
  BY <1>4, <1>5, FS_Subset
<1> QED
  BY <1>1, <1>4, <1>6, FS_CardinalityType

THEOREM PagingInitially == PagingInit => PagingInv
<1> SUFFICES ASSUME PagingInit PROVE PagingInv
  OBVIOUS
<1>1. limit \in 1 .. MAX_LIMIT
  BY ReaderAssumption DEF PagingInit, ParseLimit, Least, Most
<1>2. PagingTypeOK
  <2>1. pages \in Seq(SUBSET Item) /\ kept \subseteq Listed
    BY DEF PagingInit
  <2>2. /\ present \subseteq Item /\ IsFiniteSet(present)
        /\ stamp \in [Item -> Time] /\ InOrder(present, stamp) /\ status \in [Item -> Status]
    BY ItemAssumption DEF PagingInit
  <2>3. /\ writes \in 0 .. MaxWrites /\ page \in Nat \ {0} /\ total \in Nat
        /\ stage \in {"ask", "wait", "done"} /\ list \in ListName /\ filter \in Filter
        /\ unborn \subseteq Item \ present
    BY ReaderAssumption DEF PagingInit
  <2>4. answered \subseteq {"count", "rows"} /\ found \subseteq Item
    BY DEF PagingInit
  <2>5. shifted \in BOOLEAN /\ torn \in BOOLEAN
    BY DEF PagingInit
  <2> QED
    BY <1>1, <2>1, <2>2, <2>3, <2>4, <2>5 DEF PagingTypeOK
<1>3. OffsetComplete /\ CursorExact
  BY DEF PagingInit, OffsetComplete, CursorExact
<1>4. OffsetInv
  <2>1. ASSUME NEW i \in Missing PROVE (page - 1) * limit <= Cardinality(Newer(i, Listed))
    <3>1. i \in Item
      BY <1>2 DEF Missing, PagingTypeOK, Listed
    <3>2. Cardinality(Newer(i, Listed)) \in Nat
      BY <1>2, <3>1, ListedFinite, NewerIsLess DEF PagingTypeOK
    <3>3. page = 1 /\ limit \in Int
      BY <1>1, ReaderAssumption DEF PagingInit
    <3> QED
      BY <3>2, <3>3
  <2> QED
    BY <2>1 DEF OffsetInv, PagingInit
<1>5. CursorInv
  BY DEF PagingInit, CursorInv, Older, Missing
<1> QED
  BY <1>2, <1>3, <1>4, <1>5 DEF PagingInv

\* What every write does, as far as the reader's invariants go.
WriteEffect ==
    /\ stage # "done" /\ UNCHANGED reader /\ PagingTypeOK'
    /\ kept' \subseteq kept /\ \A i \in kept' : stamp'[i] = stamp[i]
    /\ ~shifted' => ~shifted /\ Listed \subseteq Listed' /\ \A i \in Listed : stamp[i] <= stamp'[i]
    /\ ~torn' => ~torn /\ (answered = {"count"} => Listed' \subseteq Listed)
    /\ list = "messages" => Listed \subseteq Listed' /\ \A i \in Listed : stamp'[i] = stamp[i]

\* The history that a write keeps.
LEMMA NotedSays ==
  ASSUME Noted
  PROVE  /\ kept' \subseteq kept /\ kept' \subseteq Listed'
         /\ ~shifted' => ~shifted /\ Listed \subseteq Listed'
         /\ ~torn' => ~torn /\ (answered = {"count"} => Listed' \subseteq Listed)
         /\ shifted' \in BOOLEAN /\ torn' \in BOOLEAN
BY DEF Noted

LEMMA Inserting ==
  ASSUME PagingTypeOK, NEW i \in Item, NEW t \in Time, InsertItem(i, t)
  PROVE  WriteEffect
<1>1. /\ i \notin present /\ present' = present \cup {i} /\ stamp' = [stamp EXCEPT ![i] = t]
      /\ stage # "done" /\ UNCHANGED <<status, reader>> /\ Noted /\ Unused(t)
  BY DEF InsertItem, PagingTypeOK, Writes
<1>2. \A j \in present : stamp'[j] = stamp[j] /\ stamp[j] \in Int
  BY <1>1, ItemAssumption DEF PagingTypeOK
<1>3. Listed \subseteq Listed'
  <2>1. \A j \in present : Matches(j)' = Matches(j)
    BY <1>1, MatchesSame DEF reader
  <2> QED
    BY <1>1, <2>1 DEF Listed
<1>4. PagingTypeOK'
  <2>1. present' \subseteq Item /\ IsFiniteSet(present') /\ unborn' \subseteq Item \ present'
    BY <1>1, FS_AddElement DEF PagingTypeOK, InsertItem
  <2>2. stamp' \in [Item -> Time] /\ InOrder(present', stamp')
    BY <1>1, <1>2 DEF PagingTypeOK, InOrder, Unused
  <2>3. writes' \in 0 .. MaxWrites
    BY ReaderAssumption DEF InsertItem, Writes, PagingTypeOK
  <2>4. kept' \subseteq Listed' /\ shifted' \in BOOLEAN /\ torn' \in BOOLEAN
    BY <1>1, NotedSays
  <2> QED
    BY <1>1, <2>1, <2>2, <2>3, <2>4 DEF PagingTypeOK, reader
<1>5. /\ \A j \in kept' : stamp'[j] = stamp[j]
      /\ \A j \in Listed : stamp'[j] = stamp[j] /\ stamp[j] <= stamp'[j]
  BY <1>1, <1>2, NotedSays DEF Listed, PagingTypeOK
<1> QED
  BY <1>1, <1>3, <1>4, <1>5, NotedSays DEF WriteEffect

LEMMA Deleting ==
  ASSUME PagingTypeOK, NEW i \in Item, DeleteItem(i)
  PROVE  WriteEffect
<1>1. /\ i \in present /\ present' = present \ {i} /\ list # "messages"
      /\ stage # "done" /\ UNCHANGED <<stamp, status, unborn, reader>> /\ Noted
  BY DEF DeleteItem, Writes
<1>2. \A j \in present : stamp[j] \in Int
  BY ItemAssumption DEF PagingTypeOK
<1>3. PagingTypeOK'
  <2>1. present' \subseteq Item /\ IsFiniteSet(present') /\ unborn' \subseteq Item \ present'
    BY <1>1, FS_RemoveElement DEF PagingTypeOK
  <2>2. stamp' \in [Item -> Time] /\ InOrder(present', stamp')
    BY <1>1 DEF PagingTypeOK, InOrder
  <2>3. writes' \in 0 .. MaxWrites
    BY ReaderAssumption DEF DeleteItem, Writes, PagingTypeOK
  <2>4. kept' \subseteq Listed' /\ shifted' \in BOOLEAN /\ torn' \in BOOLEAN
    BY <1>1, NotedSays
  <2> QED
    BY <1>1, <2>1, <2>2, <2>3, <2>4 DEF PagingTypeOK, reader
<1>4. /\ \A j \in kept' : stamp'[j] = stamp[j]
      /\ \A j \in Listed : stamp'[j] = stamp[j] /\ stamp[j] <= stamp'[j]
  BY <1>1, <1>2, NotedSays DEF Listed, PagingTypeOK
<1> QED
  BY <1>1, <1>3, <1>4, NotedSays DEF WriteEffect

LEMMA Deciding ==
  ASSUME PagingTypeOK, NEW i \in Item, NEW s \in Status, Decide(i, s)
  PROVE  WriteEffect
<1>1. /\ status' = [status EXCEPT ![i] = s] /\ list # "messages"
      /\ stage # "done" /\ UNCHANGED <<present, stamp, unborn, reader>> /\ Noted
  BY DEF Decide, Writes
<1>2. \A j \in present : stamp[j] \in Int
  BY ItemAssumption DEF PagingTypeOK
<1>3. PagingTypeOK'
  <2>1. status' \in [Item -> Status] /\ InOrder(present', stamp')
    BY <1>1 DEF PagingTypeOK, InOrder
  <2>2. writes' \in 0 .. MaxWrites
    BY ReaderAssumption DEF Decide, Writes, PagingTypeOK
  <2>3. kept' \subseteq Listed' /\ shifted' \in BOOLEAN /\ torn' \in BOOLEAN
    BY <1>1, NotedSays
  <2> QED
    BY <1>1, <2>1, <2>2, <2>3 DEF PagingTypeOK, reader
<1>4. /\ \A j \in kept' : stamp'[j] = stamp[j]
      /\ \A j \in Listed : stamp'[j] = stamp[j] /\ stamp[j] <= stamp'[j]
  BY <1>1, <1>2, NotedSays DEF Listed, PagingTypeOK
<1> QED
  BY <1>1, <1>3, <1>4, NotedSays DEF WriteEffect

LEMMA Touching ==
  ASSUME PagingTypeOK, NEW i \in Item, NEW t \in Time, Touch(i, t)
  PROVE  WriteEffect
<1>1. /\ i \in present /\ stamp' = [stamp EXCEPT ![i] = t] /\ list # "messages" /\ Unused(t)
      /\ kept' = kept \ {i} /\ shifted' = (shifted \/ (i \in Listed /\ t < stamp[i]))
      /\ stage # "done" /\ UNCHANGED <<present, status, unborn, reader, torn>>
  BY DEF Touch, Writes
<1>2. t \in Int /\ \A j \in Item : stamp[j] \in Int
  BY ItemAssumption DEF PagingTypeOK
<1>3. Listed' = Listed
  <2>1. \A j \in present : Matches(j)' = Matches(j)
    BY <1>1, MatchesSame DEF reader
  <2> QED
    BY <1>1, <2>1 DEF Listed
<1>4. PagingTypeOK'
  <2>1. stamp' \in [Item -> Time] /\ InOrder(present', stamp')
    BY <1>1 DEF PagingTypeOK, InOrder, Unused
  <2>2. writes' \in 0 .. MaxWrites
    BY ReaderAssumption DEF Touch, Writes, PagingTypeOK
  <2> QED
    BY <1>1, <1>3, <2>1, <2>2 DEF PagingTypeOK, reader
<1>5. /\ ~shifted' => ~shifted
      /\ ~shifted' => \A j \in Listed : stamp[j] <= stamp'[j]
  <2>1. ~shifted' => ~shifted /\ ~(i \in Listed /\ t < stamp[i])
    BY <1>1
  <2>2. Listed \subseteq Item
    BY ListedFinite
  <2>3. \A j \in Listed : IF j = i THEN stamp'[j] = t ELSE stamp'[j] = stamp[j]
    BY <1>1, <2>2 DEF PagingTypeOK
  <2> QED
    BY <1>2, <2>1, <2>2, <2>3
<1>6. \A j \in kept' : stamp'[j] = stamp[j]
  BY <1>1, ListedFinite DEF PagingTypeOK
<1> QED
  BY <1>1, <1>3, <1>4, <1>5, <1>6 DEF WriteEffect

\* No write makes the reader miss a row.
LEMMA Writing == PagingInv /\ WriteEffect => PagingInv'
<1> SUFFICES ASSUME PagingInv, WriteEffect PROVE PagingInv'
  OBVIOUS
<1>1. PagingTypeOK /\ PagingTypeOK' /\ stage # "done" /\ kept' \subseteq kept
  BY DEF PagingInv, WriteEffect
<1>2. UNCHANGED <<list, filter, limit, page, stage, answered, total, found, pages>>
  BY DEF WriteEffect, reader
<1>3. Got' = Got /\ Missing' \subseteq Missing /\ Missing' \subseteq kept'
  BY <1>1, <1>2 DEF Got, Missing
<1>4. Missing \subseteq Listed /\ Listed \subseteq Item
  BY <1>1, ListedFinite DEF Missing, PagingTypeOK
<1>5. OffsetInv'
  <2> SUFFICES ASSUME list # "messages", ~shifted' PROVE OffsetInv'
    BY <1>2 DEF OffsetInv
  <2>1. ~shifted /\ Listed \subseteq Listed' /\ \A j \in Listed : stamp[j] <= stamp'[j]
    BY DEF WriteEffect
  <2>2. /\ \A i \in Missing : (page - 1) * limit <= Cardinality(Newer(i, Listed))
        /\ stage = "wait" /\ "rows" \in answered =>
              \A i \in Missing \ found : page * limit <= Cardinality(Newer(i, Listed))
        /\ stage = "wait" /\ answered = {"count"} /\ ~torn => Cardinality(Listed) <= total
        /\ stage = "wait" /\ answered = {"count", "rows"} /\ ~torn =>
              Missing \subseteq found \/ page * limit < total
        /\ list = "conversations" => answered # {"count"}
    BY <2>1 DEF PagingInv, OffsetInv
  <2>3. limit \in Int /\ page \in Int /\ (page - 1) * limit \in Int /\ page * limit \in Int
    BY <1>1 DEF PagingTypeOK
  <2>4. ASSUME NEW i \in Missing'
        PROVE  /\ Cardinality(Newer(i, Listed)) \in Nat /\ Cardinality(Newer(i, Listed)') \in Nat
               /\ Cardinality(Newer(i, Listed)) <= Cardinality(Newer(i, Listed)')
    <3>1. i \in Listed /\ stamp'[i] = stamp[i]
      BY <1>3, <1>4 DEF WriteEffect
    <3> QED
      BY <1>1, <2>1, <3>1, NewerGrows
  <2>5. ASSUME NEW i \in Missing' PROVE (page - 1) * limit <= Cardinality(Newer(i, Listed)')
    BY <1>3, <2>2, <2>3, <2>4
  <2>6. ASSUME stage = "wait", "rows" \in answered, NEW i \in Missing' \ found
        PROVE  page * limit <= Cardinality(Newer(i, Listed)')
    BY <1>3, <2>2, <2>3, <2>4, <2>6
  <2>7. ASSUME stage = "wait", answered = {"count"}, ~torn'
        PROVE  Cardinality(Listed') <= total
    <3>1. ~torn /\ Listed' \in SUBSET Listed
      BY <2>7 DEF WriteEffect
    <3>2. IsFiniteSet(Listed) /\ Cardinality(Listed) \in Nat
      BY <1>1, ListedFinite
    <3>3. IsFiniteSet(Listed') /\ Cardinality(Listed') <= Cardinality(Listed)
      BY <3>1, <3>2, FS_Subset
    <3>4. Cardinality(Listed') \in Nat
      BY <3>3, FS_CardinalityType
    <3> QED
      BY <1>1, <2>2, <2>7, <3>1, <3>2, <3>3, <3>4 DEF PagingTypeOK
  <2>8. ASSUME stage = "wait", answered = {"count", "rows"}, ~torn'
        PROVE  Missing' \subseteq found \/ page * limit < total
    <3>1. ~torn
      BY <2>8 DEF WriteEffect
    <3> QED
      BY <1>3, <2>2, <2>8, <3>1
  <2> QED
    BY <1>2, <2>2, <2>5, <2>6, <2>7, <2>8 DEF OffsetInv
<1>6. CursorInv' /\ CursorExact'
  <2> SUFFICES ASSUME list = "messages" PROVE CursorInv' /\ CursorExact'
    BY <1>2 DEF CursorInv, CursorExact
  <2>1. Listed \subseteq Listed' /\ \A i \in Listed : stamp'[i] = stamp[i]
    BY DEF WriteEffect
  <2>2. /\ answered = {} /\ \A n \in DOMAIN pages : pages[n] \subseteq Listed
        /\ Missing \subseteq Older /\ \A n \in DOMAIN pages : pages[n] # {}
    BY <1>1 DEF PagingInv, CursorInv
  <2>3. Missing' \subseteq Older'
    <3>1. pages # << >> => pages[Len(pages)] \subseteq Listed
      <4>1. pages # << >> => Len(pages) \in DOMAIN pages
        BY <1>1 DEF PagingTypeOK
      <4> QED
        BY <2>2, <4>1
    <3>2. \A i \in Missing' : i \in Older /\ i \in Listed
      BY <1>3, <1>4, <2>2
    <3> QED
      BY <1>2, <2>1, <3>1, <3>2 DEF Older
  <2>4. CursorInv'
    BY <1>2, <2>1, <2>2, <2>3 DEF CursorInv
  <2>5. CursorExact'
    <3>1. \A m, n \in DOMAIN pages : m < n =>
            \A i \in pages[m], j \in pages[n] : stamp[j] < stamp[i]
      BY DEF PagingInv, CursorExact
    <3>2. \A m, n \in DOMAIN pages : m < n =>
            \A i \in pages[m], j \in pages[n] : stamp'[j] < stamp'[i]
      BY <2>1, <2>2, <3>1
    <3> QED
      BY <1>1, <1>2, <3>2 DEF CursorExact
  <2> QED
    BY <2>4, <2>5
<1>7. OffsetComplete'
  BY <1>1, <1>2 DEF OffsetComplete
<1> QED
  BY <1>1, <1>5, <1>6, <1>7 DEF PagingInv

\* A step of the reader changes neither the list nor what is kept of it.
LEMMA ReaderOnly ==
  ASSUME PagingTypeOK, UNCHANGED <<table, list, filter, kept>>
  PROVE  /\ Listed' = Listed /\ \A i : Newer(i, Listed)' = Newer(i, Listed)
         /\ JoinedRows' = JoinedRows
<1>1. \A i \in present : Matches(i)' = Matches(i)
  BY MatchesSame DEF table
<1>2. Listed' = Listed
  BY <1>1 DEF Listed, table
<1>3. \A i : Newer(i, Listed)' = Newer(i, Listed)
  BY <1>2 DEF Newer, table
<1> QED
  BY <1>2, <1>3 DEF JoinedRows

LEMMA AskingPage == PagingInv /\ AskPage => PagingInv'
<1> SUFFICES ASSUME PagingInv, AskPage PROVE PagingInv'
  OBVIOUS
<1>1. /\ stage = "ask" /\ stage' = "wait" /\ answered' = {} /\ total' = 0 /\ found' = {} /\ ~torn'
      /\ UNCHANGED <<table, list, filter, limit, page, pages, kept, shifted>>
      /\ torn' \in BOOLEAN
  BY DEF AskPage
<1>2. PagingTypeOK /\ Listed' = Listed /\ \A i : Newer(i, Listed)' = Newer(i, Listed)
  BY <1>1, ReaderOnly DEF PagingInv
<1>3. Got' = Got /\ Missing' = Missing /\ Older' = Older
  BY <1>1, <1>2 DEF Got, Missing, Older, table
<1>4. PagingTypeOK'
  BY <1>1, <1>2 DEF PagingTypeOK, table
<1>5. OffsetInv'
  BY <1>1, <1>2, <1>3 DEF PagingInv, OffsetInv
<1>6. CursorInv' /\ CursorExact'
  BY <1>1, <1>2, <1>3 DEF PagingInv, CursorInv, CursorExact, table
<1> QED
  BY <1>1, <1>4, <1>5, <1>6 DEF PagingInv, OffsetComplete

LEMMA CountingPage == PagingInv /\ CountRows => PagingInv'
<1> SUFFICES ASSUME PagingInv, CountRows PROVE PagingInv'
  OBVIOUS
<1>1. /\ stage = "wait" /\ list # "messages" /\ "count" \notin answered
      /\ list = "conversations" => "rows" \in answered
      /\ total' = Cardinality(IF list = "favourites" THEN JoinedRows ELSE Listed)
      /\ answered' = answered \cup {"count"}
      /\ UNCHANGED <<table, list, filter, limit, page, stage, found, pages, kept, shifted, torn>>
  BY DEF CountRows
<1>2. PagingTypeOK /\ Listed' = Listed /\ \A i : Newer(i, Listed)' = Newer(i, Listed)
  BY <1>1, ReaderOnly DEF PagingInv
<1>3. Got' = Got /\ Missing' = Missing
  BY <1>1 DEF Got, Missing
<1>4. total' \in Nat /\ Cardinality(Listed) <= total' /\ Cardinality(Listed) \in Nat
  BY <1>1, <1>2, JoinCountsAll, ListedFinite
<1>5. PagingTypeOK'
  BY <1>1, <1>2, <1>4 DEF PagingTypeOK, table
<1>6. OffsetInv'
  <2> SUFFICES ASSUME ~shifted PROVE OffsetInv'
    BY <1>1 DEF OffsetInv
  <2>1. /\ \A i \in Missing : (page - 1) * limit <= Cardinality(Newer(i, Listed))
        /\ "rows" \in answered =>
              \A i \in Missing \ found : page * limit <= Cardinality(Newer(i, Listed))
    BY <1>1 DEF PagingInv, OffsetInv
  <2>2. ASSUME "rows" \in answered, NEW i \in Missing \ found PROVE page * limit < total'
    <3>1. i \in Listed /\ i \in Item
      BY <1>2, ListedFinite DEF Missing, PagingTypeOK
    <3>2. /\ Cardinality(Newer(i, Listed)) \in Nat
          /\ Cardinality(Newer(i, Listed)) < Cardinality(Listed)
      BY <1>2, <3>1, ListedFinite, NewerIsLess DEF PagingTypeOK
    <3>3. page * limit \in Int
      BY <1>2 DEF PagingTypeOK
    <3> QED
      BY <1>4, <2>1, <2>2, <3>2, <3>3
  <2>3. answered' = {"count"} => "rows" \notin answered
    BY <1>1
  <2>4. "rows" \in answered' => "rows" \in answered
    BY <1>1
  <2>5. /\ \A i \in Missing' : (page' - 1) * limit' <= Cardinality(Newer(i, Listed)')
        /\ "rows" \in answered' =>
              \A i \in Missing' \ found' : page' * limit' <= Cardinality(Newer(i, Listed)')
    BY <1>1, <1>2, <1>3, <2>1, <2>4
  <2>6. Cardinality(Listed') <= total'
    BY <1>2, <1>4
  <2>7. answered' = {"count", "rows"} => Missing' \subseteq found' \/ page' * limit' < total'
    BY <1>1, <1>3, <2>2, <2>4
  <2>8. list' = "conversations" => answered' # {"count"}
    BY <1>1, <2>3
  <2> QED
    BY <2>5, <2>6, <2>7, <2>8 DEF OffsetInv
<1>7. CursorInv' /\ CursorExact' /\ OffsetComplete'
  BY <1>1 DEF CursorInv, CursorExact, OffsetComplete
<1> QED
  BY <1>5, <1>6, <1>7 DEF PagingInv

LEMMA ReadingPage == PagingInv /\ ReadRows => PagingInv'
<1> SUFFICES ASSUME PagingInv, ReadRows PROVE PagingInv'
  OBVIOUS
<1>1. /\ stage = "wait" /\ list # "messages" /\ "rows" \notin answered
      /\ found' = {i \in Listed : Cardinality(Newer(i, Listed)) \in
                                    (page - 1) * limit .. (page - 1) * limit + limit - 1}
      /\ answered' = answered \cup {"rows"}
      /\ UNCHANGED <<table, list, filter, limit, page, stage, total, pages, kept, shifted, torn>>
  BY DEF ReadRows
<1>2. PagingTypeOK /\ Listed' = Listed /\ \A i : Newer(i, Listed)' = Newer(i, Listed)
  BY <1>1, ReaderOnly DEF PagingInv
<1>3. Got' = Got /\ Missing' = Missing
  BY <1>1 DEF Got, Missing
<1>4. Listed \subseteq Item /\ Cardinality(Listed) \in Nat
  BY <1>2, ListedFinite
<1>5. PagingTypeOK'
  <2>1. found' \subseteq Item /\ answered' \subseteq {"count", "rows"}
    BY <1>1, <1>2, <1>4 DEF PagingTypeOK
  <2> QED
    BY <1>1, <1>2, <2>1 DEF PagingTypeOK, table
<1>6. OffsetInv'
  <2> SUFFICES ASSUME ~shifted PROVE OffsetInv'
    BY <1>1 DEF OffsetInv
  <2>1. /\ \A i \in Missing : (page - 1) * limit <= Cardinality(Newer(i, Listed))
        /\ answered = {"count"} /\ ~torn => Cardinality(Listed) <= total
        /\ list = "conversations" => answered # {"count"}
    BY <1>1 DEF PagingInv, OffsetInv
  <2>2. /\ limit \in Int /\ page \in Int /\ total \in Int
        /\ (page - 1) * limit \in Int /\ page * limit = (page - 1) * limit + limit
    BY <1>2 DEF PagingTypeOK
  <2>3. ASSUME NEW i \in Missing
        PROVE  /\ i \in Listed /\ Cardinality(Newer(i, Listed)) \in Nat
               /\ Cardinality(Newer(i, Listed)) < Cardinality(Listed)
    <3>1. i \in Listed /\ i \in Item
      BY <1>2, <1>4 DEF Missing, PagingTypeOK
    <3> QED
      BY <1>2, <3>1, ListedFinite, NewerIsLess DEF PagingTypeOK
  <2>4. ASSUME NEW i \in Missing \ found' PROVE page * limit <= Cardinality(Newer(i, Listed))
    <3>1. (page - 1) * limit <= Cardinality(Newer(i, Listed)) /\ i \in Listed
      BY <2>1, <2>3
    <3>2. Cardinality(Newer(i, Listed)) \notin (page - 1) * limit .. (page - 1) * limit + limit - 1
      BY <1>1, <3>1, <2>4
    <3>3. Cardinality(Newer(i, Listed)) \in Nat
      BY <2>3
    <3> QED
      BY <2>2, <3>1, <3>2, <3>3
  <2>5. ASSUME answered' = {"count", "rows"}, ~torn
        PROVE  Missing \subseteq found' \/ page * limit < total
    <3>1. answered = {"count"}
      BY <1>1, <1>2, <2>5 DEF PagingTypeOK
    <3>2. Cardinality(Listed) <= total
      BY <2>1, <2>5, <3>1
    <3> QED
      BY <1>4, <2>2, <2>3, <2>4, <3>2
  <2> QED
    BY <1>1, <1>2, <1>3, <2>1, <2>4, <2>5 DEF OffsetInv
<1>7. CursorInv' /\ CursorExact' /\ OffsetComplete'
  BY <1>1 DEF CursorInv, CursorExact, OffsetComplete
<1> QED
  BY <1>5, <1>6, <1>7 DEF PagingInv

\* One more page.
LEMMA Appended ==
  ASSUME pages \in Seq(SUBSET Item), NEW items \in SUBSET Item, pages' = Append(pages, items)
  PROVE  /\ pages' \in Seq(SUBSET Item) /\ Len(pages') = Len(pages) + 1 /\ Len(pages) \in Nat
         /\ DOMAIN pages = 1 .. Len(pages) /\ DOMAIN pages' = 1 .. Len(pages')
         /\ \A n \in DOMAIN pages : pages'[n] = pages[n]
         /\ pages'[Len(pages')] = items
         /\ Got' = Got \cup items
<1>1. /\ pages' \in Seq(SUBSET Item) /\ Len(pages') = Len(pages) + 1 /\ Len(pages) \in Nat
      /\ DOMAIN pages = 1 .. Len(pages) /\ DOMAIN pages' = 1 .. Len(pages')
      /\ \A n \in DOMAIN pages : pages'[n] = pages[n]
      /\ pages'[Len(pages')] = items
  OBVIOUS
<1>2. DOMAIN pages' = DOMAIN pages \cup {Len(pages')}
  BY <1>1
<1>3. Got' = UNION {pages'[n] : n \in DOMAIN pages'}
  BY DEF Got
<1>4. ASSUME NEW i PROVE i \in Got' <=> i \in Got \/ i \in items
  <2>1. i \in Got' <=> \E n \in DOMAIN pages' : i \in pages'[n]
    BY <1>3
  <2>2. i \in Got <=> \E n \in DOMAIN pages : i \in pages[n]
    BY DEF Got
  <2> QED
    BY <1>1, <1>2, <2>1, <2>2
<1> QED
  BY <1>1, <1>4

LEMMA TakingPage == PagingInv /\ TakePage => PagingInv'
<1> SUFFICES ASSUME PagingInv, TakePage PROVE PagingInv'
  OBVIOUS
<1>1. /\ stage = "wait" /\ answered = {"count", "rows"} /\ pages' = Append(pages, found)
      /\ UNCHANGED <<table, list, filter, limit, answered, total, found, kept, shifted, torn>>
  BY DEF TakePage
<1>2. PagingTypeOK /\ Listed' = Listed /\ \A i : Newer(i, Listed)' = Newer(i, Listed)
  BY <1>1, ReaderOnly DEF PagingInv
<1>3. list # "messages"
  BY <1>1 DEF PagingInv, CursorInv
<1>4. pages' \in Seq(SUBSET Item) /\ Got' = Got \cup found /\ Missing' = Missing \ found
  <2>1. pages' \in Seq(SUBSET Item) /\ Got' = Got \cup found
    BY <1>1, <1>2, Appended DEF PagingTypeOK
  <2> QED
    BY <1>1, <2>1 DEF Missing
<1>5. \/ HasNextPage(total) /\ stage' = "ask" /\ page' = page + 1
      \/ ~HasNextPage(total) /\ stage' = "done" /\ page' = page
  BY DEF TakePage
<1>6. PagingTypeOK'
  <2>1. page' \in Nat \ {0} /\ stage' \in {"ask", "wait", "done"}
    BY <1>2, <1>5 DEF PagingTypeOK
  <2> QED
    BY <1>1, <1>2, <1>4, <2>1 DEF PagingTypeOK, table
<1>7. ASSUME ~shifted
      PROVE  /\ \A i \in Missing : (page - 1) * limit <= Cardinality(Newer(i, Listed))
             /\ \A i \in Missing \ found : page * limit <= Cardinality(Newer(i, Listed))
             /\ ~torn => Missing \subseteq found \/ page * limit < total
             /\ list = "conversations" => answered # {"count"}
  BY <1>1, <1>3, <1>7 DEF PagingInv, OffsetInv
<1>8. OffsetInv'
  <2> SUFFICES ASSUME ~shifted PROVE OffsetInv'
    BY <1>1 DEF OffsetInv
  <2>1. page \in Int /\ (page + 1) - 1 = page
    BY <1>2 DEF PagingTypeOK
  <2>2. \A i \in Missing' : (page' - 1) * limit <= Cardinality(Newer(i, Listed))
    BY <1>4, <1>5, <1>7, <2>1
  <2>3. stage' # "wait"
    BY <1>5
  <2> QED
    BY <1>1, <1>2, <1>7, <2>2, <2>3 DEF OffsetInv
<1>9. OffsetComplete'
  <2> SUFFICES ASSUME stage' = "done", ~shifted, ~torn PROVE kept \subseteq Got'
    BY <1>1 DEF OffsetComplete
  <2>1. ~HasNextPage(total)
    BY <1>5
  <2>2. limit \in Nat \ {0} /\ page \in Nat \ {0} /\ total \in Nat /\ page * limit \in Int
    BY <1>2, ReaderAssumption DEF PagingTypeOK
  <2>3. total <= page * limit
    BY <2>1, <2>2, LastPageHolds
  <2>4. Missing \subseteq found
    BY <1>7, <2>2, <2>3
  <2> QED
    BY <1>4, <2>4 DEF Missing
<1>10. CursorInv' /\ CursorExact'
  BY <1>1, <1>3 DEF CursorInv, CursorExact
<1> QED
  BY <1>6, <1>8, <1>9, <1>10 DEF PagingInv

LEMMA ScrollingPage == PagingInv /\ CursorPage => PagingInv'
<1> SUFFICES ASSUME PagingInv, CursorPage PROVE PagingInv'
  OBVIOUS
<1> DEFINE taken == {i \in Older : Cardinality(Newer(i, Older)) < limit}
<1>1. /\ stage = "wait" /\ list = "messages" /\ pages' = Append(pages, taken)
      /\ stage' = IF Cardinality(Older) > limit THEN "ask" ELSE "done"
      /\ UNCHANGED <<table, list, filter, limit, page, answered, total, found, kept, shifted, torn>>
  BY DEF CursorPage
<1>2. PagingTypeOK /\ Listed' = Listed
  BY <1>1, ReaderOnly DEF PagingInv
<1>3. /\ Older \in SUBSET Listed /\ Older \in SUBSET Item /\ IsFiniteSet(Older)
      /\ Cardinality(Older) \in Nat /\ InOrder(Older, stamp)
  <2>1. Older \in SUBSET Listed /\ Listed \subseteq present /\ Listed \subseteq Item /\ IsFiniteSet(Listed)
    BY <1>2, ListedFinite DEF Older
  <2>2. IsFiniteSet(Older)
    BY <2>1, FS_Subset
  <2>3. InOrder(Older, stamp)
    BY <1>2, <2>1 DEF PagingTypeOK, InOrder
  <2> QED
    BY <2>1, <2>2, <2>3, FS_CardinalityType
<1>4. limit \in Nat \ {0} /\ stamp \in [Item -> Time]
  BY <1>2, ReaderAssumption DEF PagingTypeOK
<1>5. /\ Cardinality(Older) <= limit => taken = Older
      /\ \A i \in Older \ taken, j \in taken : stamp[i] < stamp[j]
      /\ Older # {} => taken # {}
  BY <1>3, <1>4, Newest
<1>6. taken \in SUBSET Item /\ taken \subseteq Older /\ taken \subseteq Listed
  BY <1>3
<1> HIDE DEF taken
<1>7. /\ pages' \in Seq(SUBSET Item) /\ Len(pages') = Len(pages) + 1 /\ Len(pages) \in Nat
      /\ DOMAIN pages = 1 .. Len(pages) /\ DOMAIN pages' = 1 .. Len(pages')
      /\ \A n \in DOMAIN pages : pages'[n] = pages[n]
      /\ pages'[Len(pages')] = taken
      /\ Got' = Got \cup taken
  BY <1>1, <1>2, <1>6, Appended DEF PagingTypeOK
<1>8. /\ answered = {} /\ \A n \in DOMAIN pages : pages[n] \subseteq Listed
      /\ Missing \subseteq Older /\ \A n \in DOMAIN pages : pages[n] # {}
  BY <1>1 DEF PagingInv, CursorInv
<1>9. PagingTypeOK'
  BY <1>1, <1>2, <1>7 DEF PagingTypeOK, table
<1>10. Missing' = Missing \ taken
  BY <1>1, <1>7 DEF Missing
<1>11. \A m \in DOMAIN pages : \A i \in pages[m], j \in taken : stamp[j] < stamp[i]
  <2> TAKE m \in DOMAIN pages
  <2> TAKE i \in pages[m], j \in taken
  <2>1. pages # << >> /\ Len(pages) \in DOMAIN pages
    BY <1>7
  <2>2. \A k \in pages[Len(pages)] : stamp[j] < stamp[k]
    BY <1>6, <2>1 DEF Older
  <2>3. CASE m = Len(pages)
    BY <2>2, <2>3
  <2>4. CASE m < Len(pages)
    <3>1. PICK k \in pages[Len(pages)] : TRUE
      BY <1>8, <2>1
    <3>2. stamp[k] < stamp[i]
      BY <1>1, <2>1, <2>4 DEF PagingInv, CursorExact
    <3>3. stamp[j] \in Int /\ stamp[k] \in Int /\ stamp[i] \in Int
      <4>1. i \in Item /\ j \in Item /\ k \in Item
        BY <1>6, <1>8, <2>1, <1>2, ListedFinite
      <4> QED
        BY <1>4, <4>1, ItemAssumption
    <3> QED
      BY <2>2, <3>2, <3>3
  <2> QED
    BY <1>7, <2>3, <2>4
<1>12. CursorExact'
  <2>1. ASSUME NEW m \in DOMAIN pages', NEW n \in DOMAIN pages', m < n,
               NEW i \in pages'[m], NEW j \in pages'[n]
        PROVE  stamp'[j] < stamp'[i]
    <3>1. m \in DOMAIN pages /\ stamp' = stamp
      BY <1>1, <1>7, <2>1 DEF table
    <3>2. CASE n \in DOMAIN pages
      BY <1>1, <1>7, <2>1, <3>1, <3>2 DEF PagingInv, CursorExact
    <3>3. CASE n = Len(pages')
      BY <1>7, <1>11, <2>1, <3>1, <3>3
    <3> QED
      BY <1>7, <3>2, <3>3
  <2>2. stage' = "done" => kept' \subseteq Got'
    <3>1. stage' = "done" => taken = Older
      BY <1>1, <1>3, <1>4, <1>5
    <3> QED
      BY <1>1, <1>7, <1>8, <3>1 DEF Missing
  <2> QED
    BY <2>1, <2>2 DEF CursorExact
<1>13. CursorInv'
  <2>1. ASSUME NEW n \in DOMAIN pages' PROVE pages'[n] \subseteq Listed'
    BY <1>2, <1>6, <1>7, <1>8
  <2>2. ASSUME stage' # "done" PROVE Missing' \subseteq Older' /\ \A n \in DOMAIN pages' : pages'[n] # {}
    <3>1. Older # {}
      BY <1>1, <1>3, <1>4, <2>2, FS_EmptySet
    <3>2. taken # {}
      BY <1>5, <3>1
    <3>3. \A i \in Missing' : \A j \in taken : stamp[i] < stamp[j]
      BY <1>5, <1>8, <1>10
    <3>4. Missing' \subseteq Older'
      BY <1>1, <1>2, <1>3, <1>7, <1>8, <1>10, <3>3 DEF Older, table
    <3> QED
      BY <1>7, <1>8, <3>2, <3>4
  <2> QED
    BY <1>1, <1>8, <2>1, <2>2 DEF CursorInv
<1>14. OffsetInv' /\ OffsetComplete'
  BY <1>1 DEF OffsetInv, OffsetComplete
<1> QED
  BY <1>9, <1>12, <1>13, <1>14 DEF PagingInv

THEOREM PagingInvariant == PagingInv /\ [PagingNext]_pagingVars => PagingInv'
<1> SUFFICES ASSUME PagingInv, [PagingNext]_pagingVars PROVE PagingInv'
  OBVIOUS
<1>1. PagingTypeOK
  BY DEF PagingInv
<1>2. CASE AskPage \/ CountRows \/ ReadRows \/ TakePage \/ CursorPage
  BY <1>2, AskingPage, CountingPage, ReadingPage, TakingPage, ScrollingPage
<1>3. ASSUME NEW i \in Item, DeleteItem(i) PROVE PagingInv'
  BY <1>1, <1>3, Deleting, Writing
<1>4. ASSUME NEW i \in Item, NEW s \in Status, Decide(i, s) PROVE PagingInv'
  BY <1>1, <1>4, Deciding, Writing
<1>5. ASSUME NEW i \in Item, NEW t \in Time, InsertItem(i, t) \/ Touch(i, t) PROVE PagingInv'
  BY <1>1, <1>5, Inserting, Touching, Writing
<1>6. CASE UNCHANGED pagingVars
  <2>1. /\ UNCHANGED <<table, reader, kept, shifted, torn>>
        /\ UNCHANGED <<present, stamp, status, unborn, writes>>
        /\ UNCHANGED <<list, filter, limit, page, stage, answered, total, found, pages>>
    BY <1>6 DEF pagingVars, table, reader
  <2>2. Listed' = Listed /\ (\A i : Newer(i, Listed)' = Newer(i, Listed)) /\ Got' = Got
    BY <1>1, <2>1, ReaderOnly DEF Got
  <2>3. Missing' = Missing /\ Older' = Older
    BY <2>1, <2>2 DEF Missing, Older
  <2>4. PagingTypeOK'
    BY <1>1, <2>1, <2>2 DEF PagingTypeOK
  <2>5. OffsetInv' /\ OffsetComplete'
    BY <2>1, <2>2, <2>3 DEF PagingInv, OffsetInv, OffsetComplete
  <2>6. CursorInv' /\ CursorExact'
    BY <2>1, <2>2, <2>3 DEF PagingInv, CursorInv, CursorExact
  <2> QED
    BY <2>4, <2>5, <2>6 DEF PagingInv
<1> QED
  BY <1>2, <1>3, <1>4, <1>5, <1>6 DEF PagingNext

\* Types, the place of what the reader still misses, and the order of the pages hold in every
\* state.
THEOREM PagingCorrect == PagingSpec => []PagingInv
BY PagingInitially, PagingInvariant, PTL DEF PagingSpec

\* Nobody is skipped by an offset, however many rows are inserted between the pages.
THEOREM NobodySkipped == PagingSpec => []OffsetComplete
<1>1. PagingInv => OffsetComplete
  BY DEF PagingInv
<1> QED
  BY <1>1, PagingCorrect, PTL

\* The cursor leaves out no message and gives none twice.
THEOREM CursorCorrect == PagingSpec => []CursorExact
<1>1. PagingInv => CursorExact
  BY DEF PagingInv
<1> QED
  BY <1>1, PagingCorrect, PTL
=============================================================================
