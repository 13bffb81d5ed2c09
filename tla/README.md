# LocalLoom backend: specifications

TLA+ specifications of the LocalLoom backend (`src/`), the model-checking
configurations that check them on small instances with TLC, and proofs of their
main theorems for every instance with TLAPS.

The backend is a Node.js/TypeScript server (Express and Socket.IO) over PostgreSQL
through Sequelize. It connects customers with tradies (tradespeople): login by
one-time codes, tradie profiles with moderation, reviews and favourites, chat, an AI
classifier that maps a request to catalog categories, and an admin side. One process
runs every handler on one event loop. Handlers interleave only at their awaits, and
almost every await is a query. Few handlers use a transaction. So the hard questions
are the same everywhere: what other calls, a failed query or a deleted account may do
*between two queries of one handler*, and which unique index, row lock or order of
statements the outcome then hangs on. The specifications have exactly that grain: **one
action per query**, with everything the handler does up to its next await.

The repository has no tests. What the code is held against are its own designs
(`src/.kiro/specs/*`), its API documentation (`src/development-docs/*`) and the
comments in the code.

## 1. Inventory

Paths are below `src/src/` unless they start with `src/`.

| Component | State it keeps | Operations | Meets | Status |
|---|---|---|---|---|
| Conversations (`modules/chat`) | `conversations` with unique `(from, to)` and `from < to` | get-or-create, list, get | messages, sockets, accounts | modelled: `ConversationStart` |
| Messages (`modules/chat`) | `messages`, `last_message_id`, two read dates per conversation | send (REST and socket), markRead, page | conversations, sockets, accounts | modelled: `ChatMessages` |
| Sockets (`socket/`) | open sockets, user and conversation rooms, online map, typing buckets | connect, disconnect, join, leave, typing | chat service, server | modelled: `ChatSockets` |
| Server (`server.ts`, `config/database.ts`) | listening, shutdown timer | connect with retries, start, graceful shutdown | sockets | partly: `ChatSockets`, a crash in `ChatMessages` |
| OTP login (`modules/auth`) | `users`, `otp_codes` | signup, login, resend, verify | SMS and e-mail providers | modelled: `OtpLogin` |
| Sessions (`modules/auth`, `modules/admin-auth`) | refresh token column, JWTs | verify, refresh, logout, becomeTradie, password login and change | users, profiles | modelled: `Accounts` |
| Users (`modules/user`, `modules/admin-users`) | the columns of `users` | update me, avatar, delete me, erase | all | modelled: `Accounts`; the rows an erasure deletes: `Moderation` |
| Tradie profiles (`modules/tradie`) | `tradie_profiles`, `tradie_services`, `tradie_regions`, `tradie_work_photos` | set up, add and delete photos, search | moderation, accounts | modelled: `TradieProfile` |
| Moderation (`modules/admin-tradies`, `modules/admin-reviews`) | profile status and reason; review status, reason, admin, date | approve, reject, in bulk | profiles, reviews | modelled: `Moderation` |
| Reviews, favourites, contacts, visits | `reviews`, `favourites`, `contact_logs`, `profile_visits` | create, add and remove, record | profiles, erasure | modelled: `Moderation` |
| Catalog (`modules/category`, `modules/region`, admin) | `categories`, `regions` | CRUD | profiles, classifier | modelled: `Catalog` |
| Help desk | `help_desk_requests` | ask, resolve | e-mail | modelled: `Catalog` |
| Lists (`common/utils/pagination.ts` and the repositories) | none | ten paginated lists | all tables | modelled: `Paging` |
| AI classifier (`modules/ai-classifier`) | catalog cache with TTL and the fetch in flight | load catalog, classify with one retry | catalog, Anthropic API | modelled: `Classifier` |
| External services (`services/`) | none | SMS, e-mail, ABN look-up, uploads | | as calls that may fail |
| Database (`database/`) | schema | | all | indexes, foreign keys, locks and written columns as the calls meet them |
| Chat rate limits, unrouted auth methods, HTTP shell | | | | not modelled, section 5 |

How they interact: REST controllers and socket handlers call the same services;
services call repositories (one query each) and, after their last query, emit socket
events through `chat.realtime.ts`. Components share state only through tables. The
deletion of an account (`deleteMe`, or `deleteUser` by an admin) reaches all of them: it
sets `users.status`, and most chat queries join on it.

What makes each component correct:

* **Conversations**: one row per unordered pair; every racing caller gets that row; one
  caller is told 201 and announces it to both users.
* **Messages**: message and preview commit together; events only for committed
  messages and only to the participants; the answer agrees with the database; read
  dates only advance, and only by their user; no call is left waiting for a lock.
* **Sockets**: what a client was told of a user is so; a socket is in the rooms of its
  user's conversations, less those it left; the typing throttle holds its rate.
* **Server**: the start ends, with a listener or with an exit; the shutdown ends although
  sockets stay open.
* **OTP login**: one account per phone and e-mail; every wrong code counts; tokens only
  for a row that is spent by it; a renewal supersedes what was there; a dead row stays dead.
* **Users, sessions**: no two accounts share a phone or an e-mail; what a call answered is
  in the row until somebody else writes that column; the role of a tradie is earned, and
  once given it is in all later tokens; the deleted stay deleted.
* **Tradie profiles**: lists are replaced as a whole although by several statements;
  photo limit; images are not lost.
* **Moderation, reviews**: a decision nobody raced is stored whole; bulk goes on after a
  failure and counts truly; one review and one favourite per customer and profile; nothing
  is left that refers to an erased profile.
* **Catalog**: no two categories of one name; what was removed comes back only if asked.
* **Lists**: a client that reads to the last page has missed nothing that stayed in place.
* **Classifier**: one fetch in flight, shared; failures are not cached; no catalog older
  than its TTL; answers only what the model was shown; at most two model calls; everyone
  is answered.

`PROJECT.json` lists the hazards of this code by line, with the properties that cover
each, what those leave open (mostly a race whose outcome the code does not prevent), or why
none does.

## 2. Modules

    PairDirectory          abstract: at most one conversation per pair
      ^ implemented by
    ConversationStart      getOrCreateConversation              MCConversationStart, ConversationStartProofs

    ConversationLog        abstract: append-only log with preview and read dates
      ^ implemented by
    ChatMessages           sendMessage, markRead, broadcasts     MCChatMessages, ChatMessagesProofs
      ^ its step GetOrCreate is implemented by
    ConversationStart

    ChatSockets            presence, rooms, typing, shutdown     MCChatSockets, ChatSocketsProofs

    OtpLogin               signup, login, resend, verify         MCOtpLogin, OtpLoginProofs

    TradieProfile          set-up, photos, erasure               MCTradieProfile, TradieProfileProofs

    SequelizeRow           which columns an instance writes
      ^ extended by
      |- Accounts          sessions, users, admins               MCAccounts, AccountsProofs
      |- Moderation        decisions, reviews, erasure           MCModeration, ModerationProofs
      `- Catalog           categories, regions, help desk        MCCatalog, ReadersProofs

    Classifier             classify, catalog cache, one retry    MCClassifier, ReadersProofs

    Paging                 a client that reads a list            MCPaging, ReadersProofs

`ReadersProofs` holds the proofs of the catalog and of the two components that read what
others write, the classifier and the lists. It extends all three modules, because one of
its theorems relates two of them: `CatalogIsEnvironment`, that what `Catalog` does to a
table is what `Classifier` lets happen to it. That is why the names of `Catalog` and
`Paging` carry a prefix where they would be the same.

Conventions used in all of them:

* A call is named by a member of a constant set (`Call`, `Send`, `Mark`); `pc` (or
  `step`) is the query it waits for; `outcome` (or `reply`) is what it answered. A row is
  named by the call that inserts it, or by an id from a set.
* An action takes a query with all that the handler does before its next await; its name
  is the code's. `Goto` moves a call on, `Return` answers it.
* `Fails`, `QueryFails`, `SendFails`, `MarkFails`: any query may reject, and the call
  ends with an error; what was committed stays.
* A definition called a *faulty variant* is not part of `Next`. It is what a plausible
  bug would make of the definition below it, and exists to show that the property it
  names notices the bug.
* History variables are marked as such (`before`, `touched`, `earned`, `kept`, `due`,
  `left`, `out` and others); no action reads them.

### ConversationStart (chat.service.ts:124-199, chat.repository.ts:169-251, 372-397)

`CheckUsers` validates and looks up the other user; `LookUp` is the query by pair;
`Insert` runs against the unique index and the CHECK; `Reread` loads the new row through
the joins that hide deleted accounts, announces and answers 201; `Recover` is the catch
branch, which reads the winner's row or rethrows. `DeleteUser` may come between any two.
Users are numbers because the code orders UUIDs. `PairDirectory` is what it promises: a
call is answered once, with the entry of its pair, and one call is told "created". The
mapping reads the directory off the rows and the answers off the replies. `OneStep` is the
other refinement: seen as sends with a recipient, the calls take all their queries together
the one step `GetOrCreate` of `ChatMessages`. A send has not begun until a query decides
(the look-up that finds a row, the INSERT, the look-up after a conflict, a refusal or a
failure), and is past it when a row of its pair was inserted or found. All accounts are
active at first; `DeleteUser` may delete any before the calls begin.

### ChatMessages (chat.service.ts:237-391, chat.repository.ts:337-426, chat.realtime.ts:111-148)

A send resolves its conversation by id (`ResolveById`) or by recipient (`GetOrCreate`,
then `LoadPair`), then runs its transaction: `InsertMessage`, `UpdateConversation` (which
waits for and takes the row lock), `ReloadConversation` (which throws, and so rolls back,
if the row is hidden by a deletion), `Commit`, and `Broadcast`. A markRead loads the
conversation, picks a date (`PickCandidate`), runs the `GREATEST` update (`Bump`, which
waits for the row lock) and counts, emits `chat:read` and returns. `Crash` ends every call
in flight and rolls its transaction back. Read dates and stamps are small numbers.
`getOrCreateConversation` is the single step `GetOrCreate`: it refuses, or leaves a row of
the pair and goes on to `LoadPair`, also when an account was deleted between its queries
and nobody will see that row. That this is all its queries can do is `OneStep` above.
`ConversationLog` is what both promise together: a message enters the log and becomes the
preview in one step, is announced once and after that, and read dates only advance. The
commit maps to `Post`, the broadcast to `Tell`, the update to `MarkRead`, and every other
step to a stutter.

### ChatSockets (socket/, chat.realtime.ts:19-50, server.ts, config/database.ts)

The process connects the database (`Listen`, `ConnectFails`), listens, and shuts down by
`Signal`, then `Drained` or `Forced`: `io.close` stands in the callback of
`httpServer.close`, so open websockets keep the first waiting and the timer of 30 seconds
decides. A socket is refused or connected (`Connect` tells everybody, fills the bucket and
starts the auto-subscription) and disconnects. `ListMine` and `JoinMine` are the two sides
of the await of the auto-subscription, `CheckJoin` and `EndJoin` those of `chat:join`;
between them a `Leave`, a `Disconnect`, a new conversation or a failed query fits. The
bucket counts parts of a token, which the code keeps as fractions. What Socket.IO and Node
do by themselves is said in the module's comment and marked external.

### OtpLogin (auth.service.ts:60-354, auth.repository.ts)

One account with a phone and perhaps an e-mail, and the rows of `otp_codes`. A sign-up
checks phone and e-mail and inserts under unique indexes; a login invalidates and inserts
for both channels in turn; a resend does so for one and delivers; a verification reads the
newest valid row, judges the copy it read, and then increments, or marks it used, finds
the user and stores tokens. None of this is in a transaction. The bypass outside
production is modelled as it is.

### SequelizeRow, Accounts (auth.service.ts:324-431, 557-619, admin-auth/, user/, admin-users.repository.ts:114-128)

Code that reads an instance and later calls `update` or `save` on it writes *the columns
that differ from what it read*: `Changed` says which, `Set` writes them. That one rule
decides most races of this code, and three modules share it. In `Accounts` every call
keeps its copy of the row (`instance`); `Find` fills it, `Update` and `Promote` write by
it, `ClearToken`, `VerifyPhone` and `StoreToken` write given columns whatever was read.
`touched` remembers which columns others wrote since, `earned` who had an approved
profile. The access token is judged by its signature alone, so calls for a deleted account
may start at any time. A sign-in is the part of `userVerifyOtp` after its code is spent.

### Moderation (admin-tradies/, admin-reviews/, review/, favourite/, tradie.service.ts:168-179, admin-users.repository.ts:87-131)

Profiles, and the rows of four tables that refer to them. A review, a favourite or a contact looks up
the profile, looks for one of its own and inserts (`FindProfile`, `FindOwn`, `Insert`); the
unique indexes stand for reviews and favourites, not for contacts. A decision reads the
row and updates it (`ReadItem`, `WriteItem`), in bulk item by item, going on after
`ItemFails`. The erasure of a user is, on these tables, nine DELETEs in one transaction (`FindErased`,
`Delete`, `Commit`): rows it has deleted are locked (`Free`), an INSERT that depends on
them waits, and of two that wait for each other one is broken off.

### TradieProfile (tradie.service.ts:192-313, tradie.repository.ts:48-187, admin-users.repository.ts:91-103)

The profile of one tradie with its categories, regions, business images and photos. A
set-up validates, reads the profile, creates or updates it, and replaces the two lists by
`DELETE` and `INSERT` (`ClearRows`, `InsertRows`), each of which may fail and leave the
work half done. An upload counts and then inserts photo by photo. `EraseUser` is the
admin's deletion, which removes everything in one transaction while calls run; the access
token of the erased tradie stays valid, so calls may also begin after it.

### Catalog (admin-categories/, admin-regions/, category/, region/, help-desk/, admin-help-desk/)

`FindName` looks for another row of the name, `Insert` and `Write` store under the unique
index, whose violation `errorHandler` answers with a 500. `Write` is an instance update
again. Regions are kept by the same code under other names, so the module is of either
table. A help request (`CreateRequest`) is answered before its mail is out (`MailEnds`).

### Paging (pagination.ts and the queries of the lists)

A client picks a list, a filter and a limit and reads page after page. For nine lists the
count and the rows are two statements (`CountRows`, `ReadRows`) in either order, except for
the conversations, which count second; `favourites` counts the rows of a join. The messages
are read by a cursor (`CursorPage`). `InsertItem`, `DeleteItem`, `Decide` and `Touch` are
what others do to the table meanwhile, each where the code does it. `Matches` has one WHERE
per list. A list is a set of rows with the stamps it is ordered by, so a row stands where
as many rows are newer as stand before it (`Newer`). An inserted row may be older than rows
that are there: its time is taken before its INSERT is committed. So may a conversation
that is touched: Sequelize takes `updated_at` when it sends the statement, and of two
senders the one that waited for the other's row lock stores its time last.

### Classifier (ai-classifier.service.ts:32-207, catalog-loader.ts, response-parser.ts, anthropic-client.ts)

A request asks the loader for the catalog: it uses the cached snapshot (`UseCache`), waits
for the fetch in flight (`JoinFetch`) or begins one (`StartFetch`). A fetch is two queries
in either order (`ReadTable`), between which admins may edit the tables (`SaveRow`,
`RetireRow`; names that differ in their capitals are two names for the unique index of the
tables and one for the classifier, so two rows of one name may be active). When the second
arrives it is stamped and cached (`Loads`); when one rejects it is over (`FetchFails`). The
waiting calls are resumed one by one (`Resume`), then guard against an empty catalog, answer
at random in development, or call the model. `AskAgain` is the one retry; `Conclude`
resolves the words of a valid reply, first by name and then without punctuation, or maps the
error to its status. Where several rows share a name the code takes the last, or the first
without punctuation; the model takes any. A fetch is named by the request that began it,
which is why a set of requests needs no other bound. The SDK's own retries of transport
errors happen inside one call here.

## 3. What the runs check

| Run | Instance | Shows |
|---|---|---|
| `conversation_start` | 3 calls, 3 users, 3 ids; all requests, any account deleted at any time | `OnePerPair`, `AnnouncedOnce`: one row per pair, one announcement; implements `PairDirectory`, and the step `GetOrCreate` of `ChatMessages` (`OneStep`; so a unique violation is answered only after a deletion) |
| `chat_messages` | 2 sends, 2 markReads, 2 users, clock 2, crash | `PreviewCommitted`, `DeliveredCommitted`, `AnswerHonest`, `MarksOnlyAdvance`, no deadlock; implements `ConversationLog` |
| `chat_liveness` | 2 sends, 1 markRead, 3 users, with fairness | `NoPostAfterDeletion`: no message stored by a send that starts after a deletion; `EveryCallReturns` |
| `otp_login` | 3 calls, 2 codes, phone and e-mail, 1 wrong code, expiry 1 of clock 3 | `WrongCounted`, `TokensSpendARow`, `RenewalSupersedes`, `RowsOnlyWear` |
| `tradie_profile` | 3 calls of 9 kinds of request, 2 listed ids, 2 photos | `SetupReplaces`, `LimitInSequence`, `ImageLostOnlyInRace` |
| `classifier` | 2 requests in either mode, TTL 0 or 2 of clock 2, 1 edit, 2 rows of 2 names that differ in a hyphen, every kind of reply | `SingleFlight`, `CatalogInTime`, `AnswersOffered`, `AttemptsJustified`, `EveryRequestAnswered` |
| `accounts` | 3 calls of 18 kinds of request on 2 users who want one e-mail and phone and an admin; the account active or suspended, its profile pending or approved | `OneOwner`, `AnswerSticks`, `RoleEarned`, `RoleFollows`, `DeletedStaysDeleted` |
| `moderation` | 3 calls of 13 kinds of request on one profile, an old review, a customer and 2 admins; one bulk list with an item twice, one with an item that is missing | `ContactOnce`, `LastDecisionStands`, `BulkCounts`, `ErasedGone` |
| `chat_sockets` | 2 sockets of one user, a conversation begun meanwhile, bucket of 2, 2 attempts to connect, 3 events, clock 1 | `ToldTheTruth`, `RoomsAsAsked`, `ThrottleBound`, `ServerEnds` |
| `catalog` | 3 calls of 14 kinds of request on an active and a removed category and a help request, 3 names | `OneName`, `ActiveIfAsked` |
| `paging` | 10 lists, 3 filters, pages of 1 and 2, 4 rows, 7 instants, 3 writes of others | `OffsetComplete`, `CursorExact` |
| `partner_still_sees` | the instance of `chat_messages` with a deletion | the first difference of section 6 |

Why these bounds are enough for what they are to show:

* The hazards are races of two calls, and a third that comes before, between or after
  them: three calls show a winner, a loser and a late one. In chat two senders and two
  readers show every pair of them; there the third party is the crash, the deletion or
  the failing query.
* Two or three users are a pair and an outsider; three give two pairs with a common user.
* A clock of two or three instants gives stamps that are equal, earlier and later, and
  codes that are fresh and expired. `MaxTime` bounds only `Tick`.
* Two photos and two categories are at the limit with one item less and beyond it with
  one more; the limits of 20 and 6 are parameters.
* Two requests show a shared fetch, one after a failed one and a cache refreshed while the
  other waits for the model; the theorems say the rest for any number.
* The requests of `accounts`, `moderation` and `catalog` are chosen so that each pair of
  calls can meet on one row: two who want the same value, one who undoes the other, one who
  writes another column. `MaxEvents`, `MaxWrites` and `MaxEdits` bound what clients do.
* `chat_sockets` has two sockets of one user: presence of one user with several sockets,
  a subscription against a leave, a disconnect and a shutdown all fit. Three sockets have
  too many states to run; that the end of another user's last socket is told truly
  therefore rests on the theorem `ToldTruly`, which is for any sockets and users.
* Four rows in pages of one and two make up to four pages, the last of them full and not
  full; three writes move a row over a border, back and forth. Seven instants leave one
  before, between and after any rows.
* `SYMMETRY` is used where properties do not tell calls apart, and not in runs with
  temporal properties beyond a step.

The largest runs are `paging` (7.0 million distinct states), `chat_messages` (5.3 million)
and `chat_liveness`; each ends within three minutes on two workers.

`CHECK_DEADLOCK FALSE` stands where all calls have returned and nothing is left to do
(all modules but `ChatMessages`), or the process has exited (`ChatSockets`).
`ChatMessages`, which has locks, has an explicit `Finished` step, and its runs check
deadlock.

**Fairness.** `FairSpec` of `ChatMessages` assumes weak fairness of `SendStep` and
`MarkStep`: PostgreSQL answers a query that is not blocked, and the event loop runs the
continuation. A step that waits for a row lock is not enabled while the lock is held, so
the assumption says nothing about waiting; that locks are released is what the run
shows. `FairSpec` of `Classifier` assumes it of the fetches (a query
answers or rejects), of the calls that wait for a settled promise, and of the model's
replies: the client is built with a timeout (`anthropic-client.ts:46-63`), so a reply or
an error comes. `FairSpec` of `ChatSockets` assumes it of the two ends of an attempt to
connect taken together (`Listen \/ ConnectFails`: `authenticate` resolves or rejects, and
the pause between attempts is a timer) and of `Forced`, the timer of the shutdown. It is
not assumed that clients close their sockets. Nothing obliges a client to call, a query to
fail, the server to crash, an account to be deleted or the clock to tick.

## 4. What is proved

For all values of the constants, under the assumptions named in the modules
(`UserAssumption`: ids are ordered; `NoneAssumption`, `ConvIdAssumption`, `NoOtpAssumption`,
`NoProfileAssumption`, `NullAssumption`, `NoRowAssumption`: an absent value is none of the
others; `RequestAssumption`: requests have the shape the validators let through;
`TableAssumption`, `ItemAssumption`: the first rows satisfy the constraints of the schema,
and those of a list are finitely many; `ReaderAssumption`: the default page is not larger
than the largest; the others are types of numbers and functions). Each proof has the same
shape: an inductive invariant `Inv`, `InitInv`, one lemma per conjunct or group of actions,
`InvStep`, and the properties as consequences of `Inv`, or of a step under `Inv`.

* **ConversationStartProofs.** `OnePerPair` alone is not inductive: it needs that rows are
  canonical and have keys of their own (`RowsOk`), that a recovering call has a row of its
  pair to find (`CallsOk`, which makes `ConflictOnlyAfterDeletion` and `SameAnswer` go
  through), and who owns which row (`OwnersOk`). All its properties are proved, and two
  refinements: of `PairDirectory`, and of the one step that `ChatMessages` takes for a call
  (`CallsAreOneStep`, one lemma per query). The second is why `GetOrCreate` may leave a row
  that nobody sees, and fail on the unique index because of one: without either, TLC and the
  proof both refute it.
* **ChatMessagesProofs.** `Inv` ties each send to its place: committed exactly from its
  `Commit` on, announced exactly once it answered (`SendOk`, `DeliveredOk`), and each
  markRead to the row it has raised (`MarkOk`). Proved are the state properties, the
  action properties and the refinement of `ConversationLog`. `NoPostAfterDeletion` speaks of
  all that follows a moment, so no invariant states it: `Barred` says for one send and one
  deleted user that the send has stored nothing and has not begun or has ended, or that its
  conversation is without the user. It holds when the send begins and is kept by every step
  (theorem `NoLatePost`).
* **OtpLoginProofs.** `Inv` says for every label which rows a call has yet to insert
  (`RowsToCome`), what it knows of the row it read although that changed since
  (`ReadARow`, `Judged`), and what a renewal has already superseded (`Renewed`).
* **TradieProfileProofs.** The key is that a profile never comes back: it is named by the
  set-up that created it (`Named`), so a call that lost its profile cannot get it again
  (`CurrentKept`), and a call that starts after another ended has the same profile or
  none of its rows (`Ordered`, `Owned`). On that rest `Replaced` (how far a set-up has
  emptied and filled a table), `Kept` (where an image is, also in the copies others have
  read) and `Bounded` (what an upload has counted bounds what was there before).
* **ReadersProofs, classifier.** `CatalogInTime` and `AnswersOffered` need to know where every
  request stands (`Waits`: what waits for which fetch, and that a fetch some answer came
  from has ended and so stays as it was) and what the cache holds (`CacheLatest`). A
  request is then `Sound` by itself: `Undisturbed` says that it stays so while its own
  columns and its fetch do, and each step disturbs one request or one fetch.
* **ReadersProofs, catalog.** `Fits` says what a call knows of the row it read: a category
  and a help request stay what they are, and a category that a call would write is still of
  the shape it was. The unique index does the rest for `OneName`; `ActiveIfAsked` rests on an
  instance's writing only the columns its request names. `CatalogIsEnvironment` reads the
  classifier's rows off either table (`LoadedRows`), for any folding of capitals: a step
  leaves them as they are, or is a `SaveRow` or a `RetireRow`. It is what licenses the
  classifier's model to let the tables change by these two actions only.
* **ReadersProofs, lists.** For the nine lists by offset, `OffsetInv`: as long as no row left
  or was turned back, a kept row that the client has not got stands behind the pages it has
  got, whatever is inserted (`NewerGrows`); once the rows of a page are read, what it lacks
  stands behind it too; and a page whose count came first and did not grow since leaves
  nobody behind if it is the last (`LastPageHolds`; the favourites' count is never too
  small, `JoinCountsAll`). For the cursor, `CursorInv`: what the client has not got is older
  than the last page; a page that is not the last is full and so has a message to continue
  from (`Newest`, by well-founded induction over the finite set of what is left).
* **AccountsProofs.** `Copied` says of every copy that it agrees with the row but for the
  columns that others wrote since; that is why writing only what differs undoes nobody
  (`Sticking`, from which `AnswerSticks`). `Following` traces the new role of
  `becomeTradie` from the row into the copies of all calls that begin later and from there
  into their tokens. `OneOwner` and `DeletedStaysDeleted` follow from what a step writes.
* **ModerationProofs.** `Deciding` says that the copy of a decision nobody races is still
  the row, so the columns left unwritten are the wanted ones; `Logging` that no returned
  contact was there; `Erasing` how far an erasure has come: whatever refers to a doomed
  profile is doomed too, and what its statements have left are rows of calls that had not
  returned. That a row is never inserted next to a doomed one is the foreign key's work
  (`Inserts`).
* **ChatSocketsProofs.** `Members` says which rooms a subscription under way may still
  bring, `Bucket` that what was relayed since any event, with what is left in the bucket,
  was in a full one or has been refilled since. `ToldTheTruth` is inductive by itself.

**Only proved, not run:** type correctness of the modules with proofs and their inductive
invariants; `ConflictOnlyAfterDeletion` (which `OneStep` implies), `SameAnswer` and
`CreatedOnce` of `ConversationStart`; `ReadStaysRead`, `PreviewMovesToNew` and
`MarksAreOnesOwn` of `ChatMessages`; `OneAccount` and `SpentStaysSpent` of `OtpLogin`;
`OnePerPair` of `Moderation` (theorem `OneReview`); `CatalogIsEnvironment`. TLC found no
counterexample to any of the invariants and properties on the instances above before they
were proved.

**Only model-checked:** `EveryCallReturns`, `EveryRequestAnswered` and `ServerEnds`, since
liveness under fairness is beyond the prover. Every other property of a passing run is also
a theorem.

## 5. What is left out, and why

* In the modelled components: message shapes and attachments (`valid` stands for them),
  texts and formats, the ratings, names and photos that a list shows, `getStats`,
  `getTradieDetails` and `getConversation` (one query each, no write), files on disk.
* Chat rate limits: their call in `sendMessage` is commented out (`chat.service.ts:242-244`),
  and so are their middlewares (`chat.routes.ts:56`, `:64`). The rate limiter of the
  classifier is not mounted (`ai-classifier.routes.ts:12`).
* `sendOtp`, `verifyOtp`, `emailRegister` and `emailLogin`: no route leads to them.
* Reports, notifications and device tokens: tables that the erasure empties and nothing
  fills. `sendNotificationToUser` has no caller.
* HTTP shell, swagger, seeders, migrations as such, ABN look-up, uploads: stateless, pure
  I/O, or run before the server does. What validation lets through is what the models take
  as input.
* Lists: the order of rows of one millisecond is left to PostgreSQL by all lists but those
  of the chat, so `Paging` has no two rows of one time. `page` and `limit` of the admin's
  help desk pass no validation; `ParseLimit` is what bounds them.
* Two database properties are assumed, not modelled: statements are atomic, and READ
  COMMITTED lets a statement see what was committed before it.
* One server process; the code keeps sockets and caches in the memory of one.
* What happens to a request that the shutdown cuts off is the crash of `ChatMessages`.

## 6. Differences between documents and code

Shown by a run:

* `partner_still_sees`: deleting an account hides its conversations from the partner
  (`chat.repository.ts:198`, the comment at `admin-users.repository.ts:81`).

Seen while reading, without a run:

* The list item pushed after a message has `unreadCount` 0 for its receiver
  (`chat.repository.ts:506`, `src/.kiro/specs/chat-module/requirements.md:124` and `:55`).
* Two logins at once leave two unused codes (`auth.service.ts:165`,
  `src/.kiro/specs/customer-auth/design.md:302`). `RenewalSupersedes` says what does hold.
* Two uploads at once pass the limit of photos (`tradie.service.ts:293`,
  `src/development-docs/api-tradies-documentation.md:740`). `LimitInSequence` says what holds.
* A refresh token stays good after a logout: `refreshToken` never compares it with the
  stored one (`auth.service.ts:399-424`, `src/development-docs/api-auth-documentation.md:619`).
* Sockets, against `src/.kiro/specs/chat-module/requirements.md`: a bucket of 5 that
  refills while it is used lets 10 typing events through in a second (`:193`); a leave may be undone
  by an older subscription (`:186`); every connection is announced, not only the first of a
  user (`:208`); an oversized payload without a callback is dropped in silence (`:196`);
  `markRead` pushes no `chat:conversation-updated` to the reader (`:161`).
* `io.close` stands in the callback of `httpServer.close`, which waits for the sockets that
  it would close (`server.ts:34`): with one client left the shutdown is always the forced one.
* `deleteUser` reads the user outside its transaction (`admin-users.repository.ts:88`); an
  update that commits before the erasure writes is not in its copy, and where a column was
  already as the erasure wants it, the update's value survives "personal fields are
  anonymized" (`admin-users.repository.ts:84`).
* The count of the favourites counts the rows of a join, so there may be empty last pages
  (`favourite.repository.ts:35`).
* An expired code is answered as an invalid one, since the query already leaves expired
  rows out (`auth.repository.ts:71`, customer-auth `design.md:374`).
* `clientMessageId` is echoed and not used to recognise a repeated send
  (`src/development-docs/api-chat-documentation.md:352`).
* The classifier answers `categoryId` and `regionId` where its requirements 6.4 and 6.5
  have the names, and its rate limiter and authentication are not mounted
  (`ai-classifier.routes.ts:10-15`, requirements 7.1 and 9.4).
* Without `ANTHROPIC_API_KEY` the classifier is to log at load and answer 503
  (`src/.kiro/specs/ai-service-classifier/design.md:363-369`). No such check exists: the key
  defaults to the empty string (`config/env.ts:77`), the controller passes it on
  (`ai-classifier.controller.ts:18`) and the model is called with it.

## 7. Plan

Done: the chat, login, profile, classifier, account, moderation, socket, catalog and list
modules above. Left, in this order:

1. **Composition** of `ChatMessages` with `ChatSockets`: which open socket a committed
   message reaches.
2. **Three sockets of two users** in `ChatSockets`, with rooms and typing in an instance of
   their own.
3. **Shutdown and crash in the other modules**: a server that dies between two statements of
   a set-up, a bulk decision or a becomeTradie, and the retry by the client.
