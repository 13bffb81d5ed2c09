------------------------------ MODULE Classifier ------------------------------
(***************************************************************************)
(* AiClassifierService.classify over the catalog loader and the client of  *)
(* the model (src/src/modules/ai-classifier), in one process.              *)
(*                                                                         *)
(* A fetch of the catalog is named by the request whose call began it.     *)
(* When its promise settles, `.then`, `.finally` and the waiting calls run *)
(* in one turn of the event loop, before any new request is looked at: the *)
(* cache and inFlight change in one step.  A name is the lower-cased name  *)
(* of a row; what JSON the model wrapped it in is left out.                *)
(***************************************************************************)
EXTENDS Naturals, FiniteSets, Sequences

CONSTANTS Request,   \* the calls of POST /classify-service
          Id, Name,  \* of categories and of regions
          Stripped,  \* a name without hyphens, underscores, spaces and dots
          Null,      \* what the model or the answer says of no match; no fetch
          Stocked,   \* what the tables may hold when the process is started
          Heard,     \* the replies of the model
          TTL,       \* values of AI_CLASSIFIER_CATALOG_CACHE_TTL_MS
          MaxTime,   \* bound on the clock
          MaxEdits   \* bound on the changes of the catalog

Table == {"categories", "regions"}
Row   == [id : Id, name : Name]
Mode  == {"development", "production"}

Word == Name \cup {Null}

\* Invalid: text that is not an object with string or null under both keys.
Reply == [kind : {"valid", "invalid", "timeout", "api_error", "unknown"},
          categories : Word, regions : Word]

ASSUME BoundAssumption == TTL \subseteq Nat /\ MaxTime \in Nat /\ MaxEdits \in Nat
ASSUME HeardAssumption == Heard \subseteq Reply
ASSUME NullAssumption == Null \notin Request \cup Id \cup Name
ASSUME NameAssumption == DOMAIN Stripped = Name
ASSUME StockAssumption == Stocked \subseteq [Table -> SUBSET Row]

VARIABLES
    active,    \* the rows of categories and regions with is_active
    edits,     \* how many changes the admins have made
    now,       \* Date.now()
    setting,   \* the environment the process was started with
    fetch,     \* the fetch each request began
    inFlight,  \* the loader's promise
    cached,    \* the fetch whose snapshot the loader keeps
    pc,        \* what each request waits for
    askedAt,   \* when it called getCatalog
    source,    \* the fetch its catalog comes from
    replies,   \* what the model answered it
    outcome    \* what it answered

vars == <<active, edits, now, setting, fetch, inFlight, cached, pc, askedAt, source, replies, outcome>>

FetchState == [status : {"none", "running", "loaded", "failed"}, read : SUBSET Table,
               rows : [Table -> SUBSET Row], at : Nat]

Outcome == [status : {0, 200, 500, 502, 503, 504},
            categories : Id \cup {Null}, regions : Id \cup {Null}]

TypeOK ==
    /\ active \in [Table -> SUBSET Row]
    /\ edits \in Nat /\ now \in Nat
    /\ setting \in [ttl : TTL, mode : Mode]
    /\ fetch \in [Request -> FetchState]
    /\ inFlight \in Request \cup {Null} /\ cached \in Request \cup {Null}
    /\ pc \in [Request -> {"idle", "loading", "asking", "done"}]
    /\ askedAt \in [Request -> Nat]
    /\ source \in [Request -> Request \cup {Null}]
    /\ replies \in [Request -> Seq(Reply)]
    /\ outcome \in [Request -> Outcome]

NoFetch == [status |-> "none", read |-> {}, rows |-> [t \in Table |-> {}], at |-> 0]

Fails(status) == [status |-> status, categories |-> Null, regions |-> Null]

Init ==
    /\ active \in Stocked
    /\ edits = 0 /\ now = 0
    /\ setting \in [ttl : TTL, mode : Mode]
    /\ fetch = [r \in Request |-> NoFetch]
    /\ inFlight = Null /\ cached = Null
    /\ pc = [r \in Request |-> "idle"]
    /\ askedAt = [r \in Request |-> 0]
    /\ source = [r \in Request |-> Null]
    /\ replies = [r \in Request |-> <<>>]
    /\ outcome = [r \in Request |-> Fails(0)]
-----------------------------------------------------------------------------
(* The catalog and the clock.                                              *)

Edited == edits < MaxEdits /\ edits' = edits + 1
          /\ UNCHANGED <<now, setting, fetch, inFlight, cached, pc, askedAt, source, replies, outcome>>

\* A row comes to be active, or is active and gets another name.
WithRow(rows, row) == { x \in rows : x.id # row.id } \cup {row}

\* The unique index tells apart names that differ in their capitals, which are one name here.
SaveRow(t, row) ==
    /\ Edited
    /\ active' = [active EXCEPT ![t] = WithRow(@, row)]

RetireRow(t, row) ==
    /\ Edited
    /\ row \in active[t]
    /\ active' = [active EXCEPT ![t] = @ \ {row}]

Tick ==
    /\ now < MaxTime
    /\ now' = now + 1
    /\ UNCHANGED <<active, edits, setting, fetch, inFlight, cached, pc, askedAt, source, replies, outcome>>
-----------------------------------------------------------------------------
(* The answers.                                                            *)

\* The rows a word of the model stands for: those of that name, or else those that differ
\* from it in punctuation only.
Meant(word, rows) ==
    LET exact == { x \in rows : x.name = word }
    IN IF word = Null THEN {}
       ELSE IF exact # {} THEN exact
       ELSE { x \in rows : Stripped[x.name] = Stripped[word] }

IdsOf(rows) == IF rows = {} THEN {Null} ELSE { x.id : x \in rows }

Answer(r, out) ==
    /\ pc' = [pc EXCEPT ![r] = "done"]
    /\ outcome' = [outcome EXCEPT ![r] = out]

\* One of the rows of each table, where the table has one.
AnswerFrom(r, categories, regions) ==
    \E c \in IdsOf(categories), g \in IdsOf(regions) :
        Answer(r, [status |-> 200, categories |-> c, regions |-> g])

\* What follows getCatalog: no categories, an answer at random, or the prompt and its call.
Continue(r, rows) ==
    \/ rows["categories"] = {} /\ Answer(r, Fails(503))
    \/ /\ rows["categories"] # {} /\ setting.mode = "development"
       /\ AnswerFrom(r, rows["categories"], rows["regions"])
    \/ /\ rows["categories"] # {} /\ setting.mode = "production"
       /\ pc' = [pc EXCEPT ![r] = "asking"]
       /\ UNCHANGED outcome
-----------------------------------------------------------------------------
(* getCatalog.                                                             *)

Fresh == cached # Null /\ setting.ttl > 0 /\ now < fetch[cached].at + setting.ttl

CalledBy(r) ==
    /\ pc[r] = "idle"
    /\ askedAt' = [askedAt EXCEPT ![r] = now]
    /\ UNCHANGED <<active, edits, now, setting, cached, replies>>

Await(r, f) ==
    /\ pc' = [pc EXCEPT ![r] = "loading"]
    /\ source' = [source EXCEPT ![r] = f]
    /\ UNCHANGED outcome

UseCache(r) ==
    /\ CalledBy(r) /\ Fresh
    /\ source' = [source EXCEPT ![r] = cached]
    /\ Continue(r, fetch[cached].rows)
    /\ UNCHANGED <<fetch, inFlight>>

JoinFetch(r) ==
    /\ CalledBy(r) /\ ~Fresh /\ inFlight # Null
    /\ Await(r, inFlight)
    /\ UNCHANGED <<fetch, inFlight>>

\* Faulty variant, for testing SingleFlight: the fetch in flight is not looked for.
StartAnyway(r) ==
    /\ CalledBy(r) /\ ~Fresh
    /\ Await(r, r)
    /\ fetch' = [fetch EXCEPT ![r].status = "running"]
    /\ inFlight' = r

StartFetch(r) ==
    /\ CalledBy(r) /\ ~Fresh /\ inFlight = Null
    /\ Await(r, r)
    /\ fetch' = [fetch EXCEPT ![r].status = "running"]
    /\ inFlight' = r

ReadTable(f, t) ==
    /\ fetch[f].status = "running" /\ t \notin fetch[f].read
    /\ fetch' = [fetch EXCEPT ![f].read = @ \cup {t}, ![f].rows[t] = active[t]]
    /\ UNCHANGED <<active, edits, now, setting, inFlight, cached, pc, askedAt, source, replies, outcome>>

Loads(f) ==
    /\ fetch[f].status = "running" /\ fetch[f].read = Table
    /\ fetch' = [fetch EXCEPT ![f].status = "loaded", ![f].at = now]
    /\ cached' = f /\ inFlight' = Null
    /\ UNCHANGED <<active, edits, now, setting, pc, askedAt, source, replies, outcome>>

\* Faulty variant, for testing CatalogInTime: inFlight is cleared after a success only.
FailsInFlight(f) ==
    /\ fetch[f].status = "running" /\ fetch[f].read # Table
    /\ fetch' = [fetch EXCEPT ![f].status = "failed", ![f].at = now]
    /\ UNCHANGED <<active, edits, now, setting, inFlight, cached, pc, askedAt, source, replies, outcome>>

\* One query rejects, and the fetch with it; the other one's rows are no longer looked at.
FetchFails(f) ==
    /\ fetch[f].status = "running" /\ fetch[f].read # Table
    /\ fetch' = [fetch EXCEPT ![f].status = "failed", ![f].at = now]
    /\ inFlight' = Null
    /\ UNCHANGED <<active, edits, now, setting, cached, pc, askedAt, source, replies, outcome>>

\* Faulty variant, for testing EveryRequestAnswered: only the call that began the fetch
\* learns of its end.
ResumeStarter(r) ==
    /\ pc[r] = "loading" /\ source[r] = r
    /\ \/ fetch[r].status = "failed" /\ Answer(r, Fails(503))
       \/ fetch[r].status = "loaded" /\ Continue(r, fetch[r].rows)
    /\ UNCHANGED <<active, edits, now, setting, fetch, inFlight, cached, askedAt, source, replies>>

Resume(r) ==
    /\ pc[r] = "loading"
    /\ \/ fetch[source[r]].status = "failed" /\ Answer(r, Fails(503))
       \/ fetch[source[r]].status = "loaded" /\ Continue(r, fetch[source[r]].rows)
    /\ UNCHANGED <<active, edits, now, setting, fetch, inFlight, cached, askedAt, source, replies>>
-----------------------------------------------------------------------------
(* The call of the model, and the one retry.                               *)

ErrorOf(kind) == CASE kind = "timeout" -> 504
                   [] kind \in {"api_error", "invalid"} -> 502
                   [] OTHER -> 500

\* Faulty variant, for testing AttemptsJustified: an error of the provider is retried too.
RetriesErrors(r, reply) == reply.kind # "valid" /\ replies[r] = <<>>

Retries(r, reply) == reply.kind = "invalid" /\ replies[r] = <<>>

Receive(r, reply) ==
    /\ pc[r] = "asking"
    /\ replies' = [replies EXCEPT ![r] = Append(@, reply)]
    /\ UNCHANGED <<active, edits, now, setting, fetch, inFlight, cached, askedAt, source>>

AskAgain(r, reply) ==
    /\ Receive(r, reply) /\ Retries(r, reply)
    /\ UNCHANGED <<pc, outcome>>

\* Faulty variant, for testing AnswersOffered: the words are looked up in the cache.
ConcludeOnCache(r, reply) ==
    /\ Receive(r, reply) /\ ~Retries(r, reply)
    /\ LET rows == fetch[cached].rows
       IN IF reply.kind = "valid"
          THEN AnswerFrom(r, Meant(reply.categories, rows["categories"]),
                             Meant(reply.regions, rows["regions"]))
          ELSE Answer(r, Fails(ErrorOf(reply.kind)))

Conclude(r, reply) ==
    /\ Receive(r, reply) /\ ~Retries(r, reply)
    /\ LET rows == fetch[source[r]].rows
       IN IF reply.kind = "valid"
          THEN AnswerFrom(r, Meant(reply.categories, rows["categories"]),
                             Meant(reply.regions, rows["regions"]))
          ELSE Answer(r, Fails(ErrorOf(reply.kind)))

Ask(r) == UseCache(r) \/ JoinFetch(r) \/ StartFetch(r)

Settle(f) == (\E t \in Table : ReadTable(f, t)) \/ Loads(f) \/ FetchFails(f)

Hear(r) == \E reply \in Heard : AskAgain(r, reply) \/ Conclude(r, reply)

Next ==
    \/ Tick
    \/ \E t \in Table, row \in Row : SaveRow(t, row) \/ RetireRow(t, row)
    \/ \E r \in Request : Ask(r) \/ Settle(r) \/ Resume(r) \/ Hear(r)

\* The queries and the call of the model end, by an error if not by an answer, and the
\* event loop comes back to every promise that has settled.
Fairness == \A r \in Request : WF_vars(Settle(r)) /\ WF_vars(Resume(r)) /\ WF_vars(Hear(r))

Spec == Init /\ [][Next]_vars
FairSpec == Spec /\ Fairness
-----------------------------------------------------------------------------
(* Properties.                                                             *)

\* The loader's promise is the one fetch that runs, however many calls wait: a fetch that
\* has ended, well or not, is never in flight (getCatalog, fetchFresh).
SingleFlight == \A f \in Request : fetch[f].status = "running" <=> inFlight = f

InTime(r) ==
    LET f == fetch[source[r]]
    IN source[r] # Null /\ f.status # "running" =>
           \/ askedAt[r] <= f.at
           \/ f.status = "loaded" /\ setting.ttl > 0 /\ askedAt[r] < f.at + setting.ttl

\* A request works with a catalog that was loaded after it asked, or less than the TTL
\* before; with a TTL of 0 only the first; and it is never refused for a fetch that had
\* failed before it asked (getCatalog).
CatalogInTime == \A r \in Request : InTime(r)

Last(r) == replies[r][Len(replies[r])]

\* A row of the table is what the word names best.
Names(word, row, rows) ==
    /\ row \in rows /\ word # Null
    /\ Stripped[row.name] = Stripped[word]
    /\ row.name = word \/ \A x \in rows : x.name # word

\* What the answer to r says of a table, when it was drawn and when the model was asked.
Offered(r, t) ==
    LET rows == fetch[source[r]].rows[t]
        id   == outcome[r][t]
    IN IF setting.mode = "development"
       THEN IF rows = {} THEN id = Null ELSE \E row \in rows : row.id = id
       ELSE \/ \E row \in rows : row.id = id /\ Names(Last(r)[t], row, rows)
            \/ id = Null /\ \A row \in rows : ~Names(Last(r)[t], row, rows)

\* What a successful answer says of a table was in the catalog that the prompt showed the
\* model, even if the cache was refreshed meanwhile, and is the row the model's words name
\* best; null stands only for words that name none (parseAndValidateModelResponse).
AnswersOffered ==
    \A r \in Request : outcome[r].status = 200 => \A t \in Table : Offered(r, t)

Justified(r) ==
    /\ Len(replies[r]) <= 2
    /\ Len(replies[r]) = 2 => replies[r][1].kind = "invalid"
    /\ setting.mode = "development" \/ outcome[r].status = 503 => replies[r] = <<>>
    /\ outcome[r].status = 200 /\ setting.mode = "production" =>
           replies[r] # <<>> /\ Last(r).kind = "valid"
    /\ outcome[r].status \in {500, 502, 504} =>
           /\ replies[r] # <<>> /\ outcome[r].status = ErrorOf(Last(r).kind)
           /\ Last(r).kind = "invalid" => Len(replies[r]) = 2

\* The model is called at most twice, a second time only after an invalid reply, and not
\* at all in development or without a catalog; the answer is that of the last call, and an
\* invalid one counts only when the retry has been spent (classify).
AttemptsJustified == \A r \in Request : Justified(r)

\* Every request that is made is answered, whoever began the fetch it waits for and however
\* that fetch and the model fare (classify).
EveryRequestAnswered == \A r \in Request : pc[r] # "idle" ~> pc[r] = "done"

\* Where a request stands agrees with the fetch it depends on.
Waits(r) ==
    /\ pc[r] = "idle" <=> source[r] = Null
    /\ pc[r] \in {"idle", "loading", "asking"} => outcome[r] = Fails(0)
    /\ pc[r] = "loading" => fetch[source[r]].status # "none"
    /\ pc[r] \in {"idle", "loading"} => replies[r] = <<>>
    /\ pc[r] = "asking" =>
           /\ fetch[source[r]].status = "loaded" /\ setting.mode = "production"
           /\ \A i \in DOMAIN replies[r] : replies[r][i].kind = "invalid"
           /\ Len(replies[r]) <= 1
    /\ pc[r] = "done" => fetch[source[r]].status \in {"loaded", "failed"}
    /\ askedAt[r] <= now
    /\ fetch[r].status # "none" => source[r] = r

\* The cache holds the latest snapshot that was loaded, and a snapshot both of its tables.
CacheLatest ==
    /\ cached # Null => fetch[cached].status = "loaded"
    /\ \A f \in Request :
           /\ fetch[f].at <= now
           /\ fetch[f].status = "loaded" =>
                  fetch[f].read = Table /\ cached # Null /\ fetch[f].at <= fetch[cached].at

\* The inductive invariant.
Inv ==
    /\ TypeOK /\ (\A r \in Request : Waits(r)) /\ CacheLatest
    /\ SingleFlight /\ CatalogInTime /\ AnswersOffered /\ AttemptsJustified
=============================================================================
