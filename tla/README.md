# AR-Reshare, specified in TLA+

AR-Reshare is the server of a marketplace where people give things away: accounts offer
listings, other accounts ask for them in conversations, and the contributor closes the listing
with a receiver. It is a Node/Express program over PostgreSQL, with Cloudinary for media. These
modules specify the part of it that is hard to test: what concurrent requests, failing queries,
breaking connections, expiring tokens and late callbacks can do to the database and to the
answers that clients get, and whether the hand-written templates of the endpoints fit together.

1. [Inventory](#inventory)
2. [Modules](#modules), and how they correspond to the code
3. [Runs](#runs), bounds and fairness
4. [Proofs](#proofs)
5. [Findings](#findings)
6. [Abstractions, and what is not modelled](#abstractions-and-what-is-not-modelled)
7. [Plan](#plan)

`PROJECT.json` lists components, runs, mutants, the map from definitions to source lines,
findings, hazards and theorems.

## Inventory

| Component | Source (under `src/`) | State | Operations |
|---|---|---|---|
| Pipelines | `pipeline.js`, `classes/pipeline.js` | per request: account, validated input, results, error | `Execute` = SecurityValidate, DataValidate, MediaHandle, Store, APIRespond |
| SecuritySchema, AuthenticationHandler | `classes/securityvalidation.js`, `schemas/security-schemas.js` | the key file; tokens are with the clients | `process`, `verifyAuthentication`, `isUserPasswordValid`, `accountLogin`, `regenerateToken` |
| RequestTemplate | `classes/requesttemplate.js`, `schemas/request-schemas.js` | none | `process` |
| MediaHandle | `classes/pipeline.js` | per request: the `out` array and a promise | `upload` and its callbacks |
| SQLTemplate | `classes/sqltemplate.js`, `schemas/sql-templates.js` | none | the constructor's checks, `build`, `prepareResults` |
| Database | `classes/database.js` | a pool of clients; per call a chain of promises | `simpleQuery`, `complexQuery` |
| Tables | `db/database-init.pgsql` | the rows | constraints, `is_address_owned_by` |
| ResponseTemplate, errors | `classes/responsetemplate.js`, `schemas/response-schemas.js`, `classes/errors.js` | none | `getStatus`, `getResponse` |
| EmailRespond | `classes/email.js` | template and transport | `setup`, `process`; no endpoint uses it |
| PushRespond | `classes/pipeline.js` | none | resolves and does nothing |
| App | `app.js`, `index.js` | none | routing; `testConnection` before it listens |
| Scripts | `scripts/`, `db/` | roles and databases, `secrets/dbconnection.json`, the key file | set-up and teardown, by hand and around the tests |

**How they interact.** `app.js` makes one pipeline object per endpoint and shares one `Database`
and one media handler among them. `Execute` is a chain of promises: the token is verified (and,
for `close-account` and `modify-account`, the password is checked with a query), the input is
validated, media are uploaded, `Store` builds a list of statements and hands it to `Database`,
and `finally` sends an answer whose status depends on the class of the error, if there was one.
`complexQuery` takes a client of the pool, runs BEGIN, the statements one after another (a later
one may use a column of an earlier one's first row, a *backreference*), and COMMIT or ROLLBACK.
A list of one statement goes to `simpleQuery`, which PostgreSQL commits by itself.

Requests meet in three places only: the rows of the database, the clients of the pool, and the
Node process, whose end ends them all.

**What is hard**, and which properties make each component right:

* *Writing requests.* Every template decides with `WHERE ... ClosedDate IS NULL` in its own
  snapshot, and other requests commit in between. A request is right if it happens entirely or
  changes nothing (`RefusedLeavesNoTrace`, `AcceptedIsComplete`, `ModificationIsWhole`, which name
  the requests of which the code does not keep this), if what
  is closed stays as it was closed (`ClosedIsFinal`, `OneReceiver`), if closures reach what
  hangs on them (`ClosureReachesListings`, `ClosureReachesConversations`), and if the rows agree
  with each other (`MediaAreWhole`, `EmailUnique`, `PartiesAgree`). Requests lock each other out
  and can deadlock: each must be answered all the same (`EveryRequestAnswered`). COMMIT can fail,
  and its acknowledgement can be lost. For the members all this must amount to requests that each
  happen at one instant and are answered as they happened (`RefinesExchange`).
* *Reading requests.* A view is a transaction of up to three SELECTs, and at READ COMMITTED each
  reads its own moment: the answer is put together from different states of the database. Its
  parts must belong together (`PartsBelongTogether`), its media must be whole and not older than
  its texts (`MediaShownAreWhole`, `NoMediumIsOlder`), and it must not claim that something is
  missing that was there all the time, nor the reverse (`AnswersAreCurrent`).
* *Database.* Queries, COMMIT and ROLLBACK are rejected at any point, and connections break
  between the effect of a COMMIT and its acknowledgement. Calls must be atomic, tell the truth,
  and give clean clients back (`AllOrNothing`, `AnswersAreTrue`, `ReleasedClientsAreClean`,
  `EveryCallAnswered`, `RefinesAtomicCalls`).
* *Tokens.* The server remembers no token. What a request may do rests on a chain of renewals,
  an expiry, and a password that is read at one moment and compared at a later one
  (`EverybodyLoggedIn`, `BadTokensAreRefused`, `CredentialsWereCurrent`).
* *MediaHandle.* Uploads are called back in any order, mixed with those of other requests
  (`AcceptedMediaInOrder`, `StoredMediaAreHosted`, `NoUploadOutlivesMediaHandle`,
  `EveryRequestAnswered`).
* *The templates.* They keep no state, but each endpoint is three data structures in three files
  that refer to each other by name and position: the parameters that DataValidate lets through,
  the conditions, backreferences and dropped results of the statements, the fields of the answer.
  What is validated must be possible to build and send (`StatementsAreComplete`), and a field of
  the answer must not depend on which query comes last (`AnswersComeFromOneQuery`).
* *Scripts.* psql goes on after a statement that fails, a script can end between the database and
  the file, or in the middle of the file, and the server's and the tests' entries share it. What
  is set up must be possible to connect to (`FreshSetupWorks`), a teardown must leave nothing
  behind (`TeardownLeavesNothing`), and neither may touch the other's credentials
  (`OtherEntryIsKept`).

## Modules

| Module | What it is |
|---|---|
| `MarketplaceSchema` | the tables and the writing SQL templates as pure operators |
| `Marketplace` | the writing requests, run concurrently against one database |
| `Exchange` | abstract: what the writing requests amount to for the members |
| `Reading` | the reading requests, next to those of `Marketplace` |
| `RequestTemplate` | `RequestTemplate.process` and the predicates of the request schemas |
| `SQLTemplate` | the checks of the constructor, `build` and `prepareResults`, for any template |
| `ResponseTemplate` | the error classes, `getStatus`, `getResponse` |
| `Endpoints` | the templates of the 21 endpoints, as data for these three |
| `GeneralPipe` | `Execute` of one request to any endpoint, over `Endpoints` |
| `MarketplaceSafetyProofs` | lemmas about the operators of `MarketplaceSchema`, the types and row locks of `Marketplace`, and what its transactions never do to each other's rows |
| `MarketplaceOutcomeProofs` | what its answers promise about the database, and that it implements `Exchange` |
| `MarketplaceChangeProofs` | what changes of listings, of their media and of profiles leave |
| `ReadingProofs` | what readers next to those writers are shown |
| `AtomicCalls` | abstract: what `Pipeline.Store` relies on from `Database` |
| `Database` | `classes/database.js` over a pool whose connections break |
| `DatabaseProofs` | its invariants, and that it implements `AtomicCalls` |
| `Tokens` | login, renewal, expiry and use of tokens while accounts change |
| `TokensProofs` | its invariants |
| `MediaHandle` | the uploads of requests in one Node process |
| `MediaHandleProofs` | its invariants |
| `Setup` | the set-up and teardown scripts, the databases and the credentials file |
| `SetupProofs` | its properties |
| `MC*` | instances for TLC |

The modules cut the program along its interfaces. `Database` treats a statement as one opaque
row and shows that a call is atomic; `Marketplace` relies on that (a transaction there is its
writes until `Commit` or `Rollback`) and models what the statements mean to each other. `Tokens`
and `MediaHandle` are the stages before `Store`; they reduce `Store` to what it does to an
account, or to the urls. `GeneralPipe` is one request from end to end with the templates as they
are and a database that answers anything; `Marketplace` is many requests with a real database and
a short form of the templates. `SchemaAgrees` ties the two: for every endpoint that writes, the
short form has the same statements in the same order, the same empty responses and the same
statuses as the general classes applied to the real templates.

**MarketplaceSchema.** A database is a function from the keys of the rows that exist to the rows.
A key is built from the columns of a unique constraint, so that `DOMAIN` is the unique index.
Serial ids are the names of the sessions that insert the rows: every request inserts at most one
account, address, listing or message. A column that no statement reads back (title, description,
a picture's url) holds a *stamp*, the session that wrote it, so that a mixture of two requests'
values is visible. `Build` is `SQLTemplate.build` on the template of the request;
`SelectsSource` and `Selects` are the WHERE clauses; `StillSelects` is the part of them that
READ COMMITTED evaluates again on the latest version of a row; `Inserted` and `Updated` are what
the statements write; `Violation` is the constraint they break, by the names of `Store`'s
`prepAndReject`; `PrepareResults` and `GetStatus` lead to the status of the answer.

**Marketplace.** One session is one call of `GeneralPipe.Execute`. Its `pc` goes from `idle`
through `password` (the query of `isUserPasswordValid`), `store`, and then, inside the
transaction, alternates between `query` (`nextQueryHandler` sends a statement, which chooses its
rows in a fresh snapshot) and `rows` (the statement visits these rows one at a time, in any
order), to `commit` or `rollback` and `done`. `writes[s]` holds the rows the open transaction has
written, and so has locked. A row that somebody else has written is waited for (`WaitsFor`); so
is an email that somebody else is changing. `LockRow` is UPDATE's row lock, taken before a unique
index makes the statement wait. `DeadlockDetected` is PostgreSQL's answer to a cycle of waiting
transactions, and `QueryFails` any other failure: of a statement or of COMMIT, which leads to
ROLLBACK, or of what comes before them, the query for the password, the connection to the pool and
BEGIN, where nothing is to be undone. A COMMIT that takes
effect and is not acknowledged is `CommitUnacknowledged`: `complexQuery` is told of an error, and
the request is answered 500 (`Unacknowledged` stands for this QueryExecutionError; the code cannot
tell it from others, and no action reads the difference). Every writing operation of `GeneralPipe` is in
the menu: create, modify and close account; create, modify and close listing; create and close
savedListing; create and close conversation; create message.

**Exchange.** What remains of all this for the members: who has an account that is open, who offers
which listing, who received it, and who was answered what. A request is `Ask` and, at one instant,
`Answer` together with what it does (`Register`, `Offer`, `Give`, `CloseAccount`, or nothing that
shows here). A request that is accepted did it, one that is refused did not, and of an answer that
is `unheard` nobody knows. There are no statements, rows, locks or transactions. `Marketplace` maps
its committed rows to `account` and `listing` (`AccountsOf`, `ListingsOf`) and its errors to
answers (`Outcomes`); everything before a COMMIT is a stutter. Two of its definitions say what one
would not expect. `CloseAccount` closes all listings that were there at first, but of those that
other requests of the account have offered since only some: `close_listings` reaches those that are
in its snapshot. And `CloseAgain`: a second close-account, whose `close_account` finds the account
closed, is refused, but the transaction commits, and closes what has been offered meanwhile.

**Reading.** Extends `Marketplace` with readers. `Ask` is a request that comes in, `NextSelect` one
SELECT in a snapshot of its own (or the backreference that fails because the SELECT before it
found nothing), `SelectFails` a failing one, `Answer` the end: COMMIT, `prepareResults` and the
status. `found` holds the rows of each SELECT; `before` and `order` are history variables, what
was committed when the reader asked and in which order the writers committed.

**RequestTemplate, SQLTemplate, ResponseTemplate.** A value that a client sends is reduced to its
*kind*, which is what it is to the predicates: `digits` passes `IsPosInt`, `place` passes
`IsLocation`, `video` makes `IsImage` throw. A query of an SQL template keeps its condition, its
times, its value constructors (`FromInput`, `FromQuery` and the callables) and the columns it
returns, but no text. A row in an answer keeps its columns and the statement it comes from.

**Endpoints.** The dictionaries of `schemas/`, one definition per template, under the names of the
source.

**GeneralPipe.** The client gives or omits one parameter after the other (`GiveParameter`); then
`SecurityValidate`, `DataValidate`, `MediaHandle`, `Store` (`build`), `NextQuery` for each
statement, `Prepare` and `APIRespond` follow the promises of `Execute`. Statements return any
number of rows up to `MaxRows`, or one of the errors of `prepAndReject`.

**Database.** One call is one chain of promises, and `pc` names the promise it is waiting for.
Each action is one reaction of the code: to a connection, to a query's result, to a rejection.
`Disconnect`, `CommitUnacknowledged` and `Crash` are the environment. `Rollback` on a broken
connection is rejected too: the client is released and the caller answered all the same, but the
chain ends rejected with nobody listening (`unhandled`).

**Tokens.** A session is a connection that sends one request after another: `login`,
`regenerate-token`, and requests of the three auth modes (`NA`, `AA_TO`, `AA_TAP`). The actions
follow the awaits of `securityvalidation.js`: `VerifyToken` (read the key, `jwt.verify`, and the
synchronous part of `verifyAuthentication`), `GetHash` (the query), `Compare` (bcrypt), `Sign`.
An `AA_TAP` request then changes the email or the password of its account, or closes it. Tokens
from elsewhere are tampered with, malformed, or such that `jwt.verify` throws an error the
`switch` does not list. `since`, `matched` and `loggedIn` are history variables: no guard reads
them.

**MediaHandle.** `StartUploads` is the `forEach`, which no callback can interrupt. Each callback
is an action, `UploadSucceeds` or `UploadFails`. The second rejects the promise and goes on to
`result.secure_url`, where `result` is undefined: the TypeError ends the process, which is
`alive' = FALSE`. Nothing happens after that; a restart of the server is a new behaviour.

**Setup.** A script is the sequence of its `Steps`, and `step` says where it is. `role` and
`database` are PostgreSQL's, `file` is `secrets/dbconnection.json`: a function from its entries
to passwords, or `Unreadable`. A password is named by the run of a script that generated it; by
hand an old one can be typed again. `Interrupt` ends a script anywhere, `PsqlFails` ends psql with
an error code, `Decline` stands for all the exits before the first step. `Connect` is the start of
the server or of the tests. `fresh` and `alone` are history variables. Scripts do not overlap:
they are run by hand, or one after another by npm.

## Runs

| Run | Instance | Shows |
|---|---|---|
| `listings` | 3 requests out of 11 about the listings of two accounts, pool of 3 | a closed listing stays as it was and is given away once; media are never a mixture; closures reach listings and conversations; nobody converses with himself; what is refused changes nothing, but for a second close-account |
| `accounts` | 3 requests out of 14 about two accounts and a listing, pool of 2 | emails stay unique, accepted requests are complete, profile changes are whole; refinement of `Exchange`, and so refused requests that do nothing to accounts and listings |
| `trading_live` | 3 account closures, pool of 2, no symmetry | deadlocks and a full pool included, every request is answered |
| `reading` | 1 reader out of 15 requests, 2 writers out of 8, pool of 3 | answers put together from different moments: their parts belong together, media are whole and not older than texts, answers are current |
| `endpoints` | 1 request to any of 21 endpoints, up to 6 values per parameter, up to 2 rows per statement | the templates fit together and agree with `MarketplaceSchema` |
| `database` | 2 calls of 2 queries, 1 of 1, 2 clients | atomicity, truth, clean clients, refinement of `AtomicCalls`, every call answered |
| `tokens` | 2 connections, 2 accounts, 10 requests, lifetime 1, clock 0..1 | whoever is let in had the right credentials; a login is behind every token; a bad token lets nobody in, but for one that cannot be read where none is needed |
| `media` | 2 requests with 0 to 3 media each | order, completeness and hosting of media; an answer unless the process dies |
| `setup` | 4 runs of 5 scripts, 2 databases | fresh set-ups work, teardowns leave nothing, databases do not disturb each other |
| `moving`, `closing`, `upload` | the smallest that shows each | the [findings](#findings) |

**Bounds.** All are constants of the `.cfg` files.

* *Three sessions* in `Marketplace`: two that conflict and a third that commits between two
  statements of the first. The deadlocks of closures need two, and a third that waits for the
  pool needs `PoolSize = 2`. A session makes one request; what earlier requests left behind is
  the initial database of the MC module (in `MCListings` two listings, one with a medium, that
  two accounts ask each other for in conversations).
* *One reader and two writers* in `Reading`: readers change nothing, so more of them add nothing;
  a view has three SELECTs, and so two gaps for a writer to commit in.
* *The menus* name the requests that can conflict: each statement of each template that can be
  lost to another request is there with that other request. Requests about unrelated rows do
  not meet and would add interleavings only.
* *`MaxMedia = 2`*: replacing one medium by two and two by one covers the insert, update and
  drop paths of `change_media` and `drop_extra_media`. Three in `MediaHandle`, where orders of
  callbacks matter.
* *Calls of one and two queries* cover "first", "next" and "last" in `nextQueryHandler`; three
  calls on two clients make one wait.
* *Values of the endpoints' parameters.* For each parameter a value of every kind its conditions
  tell apart that the templates behind them could tell apart too: an id or an object for a
  location, lists of no, one and two media, media that a condition rejects and media that make it
  throw, in both orders. `MaxRows = 2` is no row, one, and more than the one that is used.
* *`Lifetime = 1`, `MaxTime = 1`*: a token is valid, then expired, and one issued at time 1 is
  newer than one issued at 0. Renewals at the same time are not bounded. A connection serves any
  number of requests.

* *`MaxRuns = 4`* in `Setup`: a set-up, a teardown that is interrupted, another set-up, and one
  script for the other database.

Symmetry under permutations of sessions is used in the safety runs only; sessions are named by
no constant of the menus.

**Fairness.** `Marketplace`: weak fairness of every session's own steps (Node serves a completed
promise, PostgreSQL serves a statement that can run, and its deadlock timer fires), none of the
arrival of requests or of `QueryFails`; whether a COMMIT is acknowledged is left open. `Database`: weak fairness of every call's steps, by the
same argument and because pg-pool hands a free slot to a waiting caller; none of `Disconnect` or
`Crash`. `MediaHandle`: weak fairness of `Execute` and of each callback: the media service
answers every upload, with success or failure. `Tokens` and `Setup` state no liveness.

**Deadlock** is checked in the runs of `Marketplace`, `Reading`, `GeneralPipe` and
`Database`, where the end of all sessions or calls is a step of its own (`Terminating`). `MCMedia`,
`MCTokens` and `MCSetup` switch it off: a process dies, or has served its requests;
nobody needs to send another request, or to run another script.

**Mutants.** For each property of a passing run `PROJECT.json` names a mutant: an operator, in the
module, that changes one definition as a plausible bug would (no ROLLBACK, an UPDATE by id after
a separate test, `jwt.decode` for `jwt.verify`, `some` for `every`, ...). TLC finds the property
violated under each.

## Proofs

TLC checks the instances above; TLAPS proves the following for every value of the constants.

| Module | Theorem | Statement |
|---|---|---|
| `DatabaseProofs` | `TypeCorrect`, `ReleasedClean`, `Atomicity`, `Truthfulness` | the four invariants of `Database` |
| | `Refinement` | `Spec => Atomic!Spec` |
| `TokensProofs` | `TypeCorrect`, `CredentialsAreCurrent`, `Authenticity`, `Refusal` | the four invariants of `Tokens` |
| `MediaHandleProofs` | `TypeCorrect`, `Order`, `Hosting`, `Quiet` | the four invariants of `MediaHandle` |
| `MarketplaceSafetyProofs` | `Types`, `Locks` | `TypeOK` and `LocksExclusive` of `Marketplace` |
| | `ClosedStays`, `EmailsStayUnique`, `PartiesStayAgreed` | `ClosedIsFinal`, `EmailUnique` and `PartiesAgree` of `Marketplace` |
| `MarketplaceOutcomeProofs` | `GivenOnce`, `AcceptedIsWhole` | `OneReceiver`, `AcceptedIsComplete` |
| | `ListingClosesConversations`, `AccountClosesListings` | `ClosureReachesConversations`, `ClosureReachesListings` |
| | `ExchangeRefinement` | `RefinesExchange`: `Spec => Members!Spec` |
| `MarketplaceChangeProofs` | `MediaStayWhole`, `ModificationStaysWhole` | `MediaAreWhole`, `ModificationIsWhole` |
| | `RefusedHasNoTrace`, `ProfileStaysWhole` | `RefusedLeavesNoTrace`, `ProfileChangeIsWhole` |
| `ReadingProofs` | `ReadersOnlyRead` | `ReadSpec => SafetySpec`: next to readers the writers behave as `Marketplace` says |
| | `AnswersBelongTogether`, `ShownMediaAreWhole`, `AnswersStayCurrent` | `PartsBelongTogether`, `MediaShownAreWhole`, `AnswersAreCurrent` |
| | `ShownMediaAreNewer` | `NoMediumIsOlder` |
| `SetupProofs` | `SetupWorks`, `TeardownWorks`, `OtherEntryStays` | `FreshSetupWorks`, `TeardownLeavesNothing`, `OtherEntryIsKept` |

The assumptions are those of the modules: `DatabaseAssumption` (calls have at least one query,
`None` is no client), `TokensAssumption` (the menu and the initial accounts have their types,
what clients have from elsewhere was not signed by the server, the lifetime is positive),
`MediaAssumption` (`Missing` is no url), `SchemaAssumption` and `MarketplaceAssumption` (the
special values are distinct from the others; the menu consists of requests; the initial database
is a function to rows and has rows of the right tables, emails that are unique, tables that agree, no mark of a request
that is still to come, and open listings whose media are whole; the pool has a client),
`ReadingAssumption` (the menu consists of reading requests; an open listing has no receiver at
first, as `close_listing` alone names one) and `SetupAssumption`. TLC evaluates each in the runs. What earlier requests left behind is such a
database, by the theorems themselves: `TypeOK`, `EmailUnique`, `PartiesAgree` and `MediaAreWhole`
hold whenever they held at first.

None of the properties is inductive by itself, and each proof module states invariants that are.
Those of `Marketplace` that are hardest to see were checked by TLC on instances of two and three
sessions before they were proved.

* *Database.* The properties speak of free clients and of committed rows; `IInv` adds, phase by
  phase, what the server holds for a call: the uncommitted rows of a call at query `n` are its
  first `n - 1`, unless its connection broke; a client in `finally` is clean; what a call will
  answer agrees with what is committed. The refinement follows step by step: `Commit`,
  `CommitUnacknowledged` and the two `SimpleQuery` steps that take effect map to `Apply`, and the
  rest to an answer, a crash or a stutter.
* *Tokens.* `StageInv` says which request can be where; `MatchInv` that `matched` already holds
  every account the credentials fit now, so that a hash read from an open account puts the
  account there at that moment, whatever happens before `Compare`; `LoginInv` that whoever is
  past `VerifyToken` has a login behind him; `TimeInv` that the token was good after the request
  came in.
* *MediaHandle.* `OutInv`: a place of `out` is empty or holds the url of its own item, which is
  hosted, and is empty as long as its callback is outstanding. `PromiseInv`: a resolved promise
  has no empty place. Together they rule out callbacks behind the answer.
* *Marketplace.* `LocksExclusive` is inductive given only that `pc` and `writes` are functions on
  sessions: a row is written by `VisitRow` and `LockRow` only, both of which wait while somebody
  else has it, and `Commit` and `Rollback` drop every lock before the client is released. The
  other properties rest on each other, in this order:
  * `TypeInv`: a session is at a statement of its own request, among rows that the statement may
    aim at. The lemmas at the head of `MarketplaceSafetyProofs` say for each request which statements it has,
    which keys they aim at, and what they write under them.
  * `VersionsInv`: an open transaction's version of a row *follows* the committed one: a closed
    row or an address is unchanged, a listing keeps its contributor, and none of them is deleted.
    A write keeps this because the row is checked again (`StillSelects`) under its lock; a commit,
    because no other transaction holds the row. `ClosedIsFinal` is what a commit makes of it.
  * `EmailInv`: emails are unique among all *versions*, committed or not. The committed rows alone
    would not do: two transactions could each hold the same email and commit one after the other.
  * `AgreeInv`: the tables agree in the committed database and in what every session sees, and
    what a statement saw when it chose its rows (who owns the listing, who is a party) still holds
    when it writes them. It does because both follow the earlier state (`Later`), and nobody's
    being an owner or a party is ever taken back.
  * `OutcomeInv`: `close_listing` has returned to a session just if its transaction holds the
    listing, closed for its receiver, while the committed one is still open; so the first to
    commit finds it open, and everybody else has an empty result.
  * `WritesInv`: each version of a row is one that the request of its session can want: an account
    is closed by itself only, a conversation opened for who asked, a medium deleted by a
    modification of its listing. And the database follows the initial one (`Later`).
  * `ProgressInv`: each statement that is done has made its part, in the transaction and then in
    the database, and the part stays (`MadeStays`). For a closing statement the part is every row
    that was due: shut, opened anew on request, or, while the statement is at work, still in
    `todo`. `AcceptedIsComplete` and the two closures follow. A row that is due and not in the
    snapshot of the statement is what makes them delicate: it was not committed, so it is none
    of the initial ones.
  * `TraceInv`: a row that is committed bears marks of granted requests only, and an open
    transaction those and its own; and one that has returned nothing that counts
    (`DropFromResults`) has none of its own. Marks are stamps and serial numbers: this says nothing
    of closings and deletions, for which see `UntoldInv`. *Granted* is, here and
    in `OutcomeInv`, a request whose transaction has committed something that counts, whether or
    not the client has heard of it (`Settled`): with the answer for a criterion, a lost
    acknowledgement would break both invariants.
  * `DealInv`, for the refinement of `Exchange`: what a transaction holds of an account or a
    listing is, for the members, as it is committed, or it is the one change that its request is
    about (`Deal`); and a close-account request holds its account just if its `close_account` has
    found it open (`ShutsOwn`). Only `Commit` and `CommitUnacknowledged` change what members see.
    `Deal` then bounds what they bring; `Knows`, `ProgressInv`, `TraceInv` and `ShutsOwn` say that
    they bring it just if `prepareResults` finds something that counts, so that the answer is the
    right one; and a listing that was there at first is not missed because `WritesInv` keeps it in
    every snapshot.
  * `OwnersInv` and `MediaInv`: a modification that has changed a medium of a listing holds the
    first one (and the listing before it, if it changes a column or the location), whose row keeps
    every other modification away; and those it has stored are the first `n`. `drop_extra_media`
    therefore finds exactly what was there when it chose, and what is committed is whole.
    A listing that closes in between cuts a modification of media only short, but nobody sees it
    open after that. A modification that has found its listing open by a column or the location
    holds it, so that all its statements find it; one that has not found it by them finds it by
    none, and an address is all it can have made (`AddressAlone`). `ModificationIsWhole` are these
    cases.
  * `UntoldInv`: a transaction that has returned nothing that counts holds every row as it is
    committed, but for the closings of a close-account, which `close_listings` and
    `close_conversations` do not return, and for media that `drop_extra_media` has deleted, which
    it does not return either. That an account is closed already when nothing is returned of its
    closing is `ShutsOwn`; and a modification of a listing that was there has, by `MediaInv`,
    replaced its first medium before it deletes another, and so returned something: the deletions
    are those of a listing that has come to be since. (`create-listing` has dropped statements that
    insert, but has always returned its listing when it comes to COMMIT, `ListingReturned`.) At a
    COMMIT this is `RefusedLeavesNoTrace`, and no other step changes the database.
  * `ProfileInv`: a statement that is done has changed the account or found it closed; once a
    transaction has written the account, it holds it open to its end. The picture does not depend
    on it, which is why `ProfileChangeIsWhole` has its exception.
* *Reading.* The invariants of `Marketplace` are proved of `SafetySpec`, its specification without
  fairness, which every behaviour with readers satisfies (`ReadersOnlyRead`). `ReaderInv` says of a
  reader that for each part it has found there is a committed database that the part is exactly
  what its SELECT finds in (`Saw`). These databases are *sound* (the tables agree, open listings
  have whole media) and in the order of the SELECTs: each is `Later` than the one of the request
  and than those of the parts before, and the present one is later than all. So what makes parts
  belong together is true in one of them and, by `Later`, in the next: who owns the address, who
  is a party. Nothing is missing that was there before and after, because what is open in a later
  database was open in the earlier ones; and the rows of an answer come from the part that its kind of
  row belongs to (`PartKinds`). `ListingInv` is the one thing about writers that was not needed
  before: an open listing has no receiver, so nobody ceases to be one.
  For `NoMediumIsOlder` the commits are compared: `OrderInv` says that each session is in `order` at
  most once, and every granted one is. `ColumnsInv` says that the media of a listing are not older
  than any of its stamps (`Current`): a COMMIT that stamps a column has replaced all media if it
  brought any (it holds the listing open, so `drop_extra_media` has removed the others), and one
  that replaces some of them makes them newer and leaves the first one there. `NewerInv` carries
  this to a reader: once `get_listing` has found the columns, the media in the database stay at
  least as new, and `get_media` finds those. With the SELECTs in the other order, no such invariant
  holds of the media already read.
* *Setup.* `SetupInv` and `TeardownInv` say what a script that is past a step has made or removed.
  A set-up that found nothing has no role until it makes one, so that the role gets the password
  that is saved; a teardown drops the database before the role that owns it, and both fail just if
  somebody is connected. `OtherEntryIsKept` needs only that no step writes another entry.

The attempts at these proofs corrected eight properties. A modification may name a listing by a
number that is about to be given: its first `change_media` finds no listing, the next one does, and
it replaces or drops some media of a listing that it did not replace as a whole.
`modify-listing` asks for the owner's login, and the owner would have to guess the
number, so this is one request racing another of the same account; the media are a mixture all the
same. `MediaAreWhole`, `ModificationIsWhole` and `AcceptedIsComplete` leave such listings
out (`Requested`), and still cover every listing that anybody could have been told about; and
`RefusedLeavesNoTrace` names the one that is answered 404 after it has dropped media
(`DropsUnseen`). And
`ClosureReachesListings` speaks of accounts that were open at first: a listing of an account that
was closed already (the `closing` finding) is reached by no closure. Of the properties of
`Reading`, `MediaShownAreWhole` and `NoMediumIsOlder` have the exception of `MediaAreWhole` (TLC
finds the mixture with three writers, one more than the run has), and `AnswersAreCurrent` no
longer claims 404 for a row that is created and closed while the view is under way: the view may
have found it in between. The proofs also show that a view never ends with EmptyResponseError: when
its first SELECT finds nothing, the second one's backreference fails before `prepareResults` is
reached, so the 404 of a view is always the one its response template gives BackreferenceError.

**Model-checked only:**

* liveness (`EveryRequestAnswered` of both modules, `EveryCallAnswered`), which the prover does
  not treat under fairness;
* `StatementsAreComplete`, `AnswersComeFromOneQuery` and `SchemaAgrees` of `GeneralPipe`: they are
  about the templates of `Endpoints` as data, which is the same in every instance: a proof
  would be the enumeration that TLC does.

## Findings

Each is a run that TLC must find violated.

* `moving`: `modify-listing` with a new location is answered 200 to somebody who does not own the
  listing, and leaves an address behind, because `create_address` counts as a result. The system
  test of the case has no new location. The owner is answered 200 too, and has nothing but an
  address that no listing is at, when a close-listing commits first (`MadeAddressOnly`).
* `closing`: a token outlives its account, and `AA_TO` never looks at the account: a closed
  account can get a new, open listing.
* `upload`: a failed upload ends the Node process; the documentation says that the promise
  rejects with FailedUploadError (and `Execute` would then answer).

Other differences between the code and its documents that the models contain, for which there is
no run, most of them because no property says more than the definition does:

* `create-account` with an address or picture and an email that is taken fails in a backreference
  (`PrepareResults` and `GetStatus` of `MarketplaceSchema`) and is answered 500; docs/oas.yaml:110
  says 409.
* A set-up that finds the role there (after `npm install` for a second time, or `npm test` after one
  that failed and so skipped its teardown) replaces the stored password by one that the role does
  not have, and reports success: psql exits with 0 although CREATE USER failed. `FreshSetupWorks`
  is therefore about a set-up that finds nothing there. A file that was torn by an interrupt loses
  the other database's entry as well, which `OtherEntryIsKept` leaves out.
* A request with a password on a closed account is refused with a TypeError (500), because
  `isUserPasswordValid` counts queries instead of rows (`securityvalidation.js:292`); the
  documentation lists the errors of SecurityValidate and this is none of them. `TypeError` is an
  error of `Marketplace`, `Tokens` and `GeneralPipe`.
* `getResponse` lets the last query that has a field win; its comment (`responsetemplate.js:163`)
  and Documentation.md speak of the first. `AnswersComeFromOneQuery` shows that no template notices.
* The media of a message are validated under the name `mediaContent`, which neither `Execute`
  (`media`) nor `create_message`'s `insert_media` (`url`) looks for: they are never stored.
* The device token of a login is validated as `deviceToken` (`request-schemas.js:195`) and asked
  for as `device_token` (`sql-templates.js:69`): it is never stored.
* When an account is closed by two requests at once, the second is answered 404 although it
  commits: its `close_listings` and `close_conversations` close what has been offered, or opened
  again, in between (`ClosesAgain`, and `CloseAgain` of `Exchange`). docs/oas.yaml:130 says 409 for an account that is already queued for close, and
  nothing of an effect.
* A token whose payload cannot be parsed makes `jwt.verify` throw a SyntaxError, which the `switch`
  of `verifyToken` has no case for: the token decodes to `undefined`, and an endpoint that needs no
  authentication lets the request in as if it had none. The comments (`securityvalidation.js:15`,
  `:20`) say that an invalid token is rejected there too. `BadTokensAreRefused` exempts this token,
  and shows that it is of no other use.
* `IsPosInt` reads the number that a string begins with, so `"12abc"` and dates pass for ids; and
  the first number of a list. A location such as `[5]` therefore passes
  (`request-schemas.js:362`, `:401`), but `typeof` makes it an object
  (`sql-templates.js:271`, `:315`): `create_address` is sent without country, region and postcode,
  which are NOT NULL (`database-init.pgsql:35-37`), and the request is answered 500 instead of 400.
  `StatementsAreComplete` excuses this value and no other.
* A modification that names a listing by a number that is about to be given can find it in
  `drop_extra_media` only: it is answered 404 and has dropped media (`DropsUnseen`).

## Abstractions, and what is not modelled

* PostgreSQL is external, modelled as the code uses it: READ COMMITTED, row locks of UPDATE,
  INSERT and DELETE, unique indexes, and the re-check of rows that changed. The KEY SHARE locks
  of foreign keys are left out: nothing updates a referenced key and no referenced row is
  deleted, and of what does happen they delay only `change_email`, whose column is unique. The
  category of a listing refers to a table that is never written.
* `simpleQuery` runs in `Marketplace` as a statement and a commit. Its effect is the same, since
  a transaction's writes are visible at `Commit` only; it allows more interleavings.
* A row list that PostgreSQL returns is reduced to whether it has a row. `returned` names the
  statements that gave one, which is all that backreferences and `prepareResults` ask.
* Whether a row is closed is kept, and not when.
* `media: []` in a request sets no urls (`urls.length !== 0`), so it is the same as no media.
* `regenerate-token`'s DataValidate asks for two dots in the token; such a token is "malformed"
  here, though refused with another error class. The `Store` of a login has no statements,
  because of the name of the device token (above).
* In `Tokens` an `NA` or `AA_TO` request changes no account.
* In `MediaHandle` an answer is 200 or 500; what `Store` does is the matter of `Marketplace`.
* Readers take no client of the pool and no locks: a SELECT waits for nobody, and what a full
  pool does is shown with writers. Searches return their first page, without filters, long enough
  for all rows. `search-category` reads a table that is never written; it is in `Endpoints` only.
* In `GeneralPipe` uploads succeed; what a failed one does is the matter of `MediaHandle`.
  DirtyArgumentError is a name that nothing throws. `login` and `regenerate-token` have pipelines
  of their own and are in `Tokens`.
* `close-listing` may name its own account as the receiver: the condition compares a number with
  what may be a string (`request-schemas.js:433`), and a string passes.
* Whether a value is a well-formed date, email, password or data URI is a matter of its kind. How
  `IsOldEnough` counts years (of 365.25 days) is left out.
* In `Setup` psql is external: `CREATE` of what exists and `DROP` of what is in use fail and change
  nothing, and psql goes on. Whether tables are filled with a sample is left out. The answers that
  the scripts ask for are choices; macOS runs the same commands as Linux, and Windows exits early.
* Email is not wired: no pipeline is made with the `email` option, both schema files are empty, and
  the constructor of a pipeline with it would throw MissingTemplateError. `classes/email.js` is
  not reached by any endpoint, so there is no caller to model it with.
* Not modelled: routing; `PushRespond`, which does nothing; `gen-private.js`, which writes a random
  key; and what the constructors of the templates check about the JavaScript types of their
  arguments.

## Plan

Done: the core (`Marketplace`, `Database`), the stages before it (`Tokens`, `MediaHandle`), the
reading requests, the templates of all endpoints, the scripts, and the proofs above.

1. **Composition.** `Marketplace` has the failures of COMMIT that `Database` and `AtomicCalls`
   have, but repeats them; it could be composed with `AtomicCalls`, a statement being a part of a
   call. `Exchange` could be extended to conversations and addresses, and to readers.
