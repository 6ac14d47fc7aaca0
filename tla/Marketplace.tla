----------------------------- MODULE Marketplace -----------------------------
(***************************************************************************)
(* The server's writing requests, run concurrently by GeneralPipe.Execute  *)
(* (pipeline.js) against one PostgreSQL database: SecurityValidate, then   *)
(* Store, which hands the statements of the request to Database as one     *)
(* transaction.                                                            *)
(*                                                                         *)
(* PostgreSQL is external.  It runs at its default level, READ COMMITTED:  *)
(* each statement takes a new snapshot of what is committed (and of the    *)
(* transaction's own writes), chooses its rows in it, and then goes        *)
(* through them one at a time in an order of its own; a row that another   *)
(* transaction has written is waited for, and re-checked in its latest     *)
(* version.  Writes are visible to others at COMMIT only.                  *)
(***************************************************************************)
EXTENDS MarketplaceSchema, FiniteSets

CONSTANTS
    Menu,       \* the requests that clients may send
    InitStore,  \* the database they find
    PoolSize    \* clients of the connection pool

ASSUME MarketplaceAssumption ==
    /\ Menu \subseteq Request
    /\ InitStore \in [DOMAIN InitStore -> Row]
    /\ IsDatabase(InitStore)
    /\ Agrees(InitStore)
    /\ \A k \in DOMAIN InitStore \cap AccountKey : ~EmailTaken(InitStore, InitStore[k].email, k)
    /\ \A k \in DOMAIN InitStore, s \in Sessions : ~Marks(k, InitStore[k], s)
    /\ \A l \in ListingID : IsOpenListing(InitStore, l) => MediaWhole(InitStore, l)
    /\ PoolSize \in Nat \ {0}
    /\ NoRow \notin Row
    /\ Null \notin Request

VARIABLES
    store,      \* the committed rows
    writes,     \* per session: the rows its open transaction has written (and so locked)
    req,        \* per session: its request
    pc,         \* per session: where Execute is
    step,       \* per session: the statement nextQueryHandler is at
    todo,       \* per session: what is left of the statement's rows, as <<key, row as chosen>>
    cur,        \* per session: the one of todo that the statement has come to
    returned,   \* per session: the statements that returned a row
    error       \* per session: error_final of Execute

vars == <<store, writes, req, pc, step, todo, cur, returned, error>>

NoWrites == [k \in {} |-> NoRow]

Init ==
    /\ store = InitStore
    /\ writes = [s \in Sessions |-> NoWrites]
    /\ req = [s \in Sessions |-> Null]
    /\ pc = [s \in Sessions |-> "idle"]
    /\ step = [s \in Sessions |-> 1]
    /\ todo = [s \in Sessions |-> {}]
    /\ cur = [s \in Sessions |-> Null]
    /\ returned = [s \in Sessions |-> {}]
    /\ error = [s \in Sessions |-> "null"]
-----------------------------------------------------------------------------
Statement(s) == Build(req[s])[step[s]]

(* What session s reads: the committed rows under its own writes. *)
View(s) ==
    LET mine == DOMAIN writes[s]
        deleted == {k \in mine : writes[s][k] = NoRow}
    IN [k \in (DOMAIN store \cup mine) \ deleted |->
           IF k \in mine THEN writes[s][k] ELSE store[k]]

InTransaction == {"query", "rows", "commit", "rollback"}
ClientFree == Cardinality({t \in Sessions : pc[t] \in InTransaction}) < PoolSize

(* A request ends with an error before any transaction was opened. *)
Reject(s, e) ==
    /\ error' = [error EXCEPT ![s] = e]
    /\ pc' = [pc EXCEPT ![s] = "done"]

(* A statement fails: complexQuery is on its way to ROLLBACK. *)
Fail(s, e) ==
    /\ error' = [error EXCEPT ![s] = e]
    /\ pc' = [pc EXCEPT ![s] = "rollback"]
    /\ todo' = [todo EXCEPT ![s] = {}]
    /\ cur' = [cur EXCEPT ![s] = Null]

(* The statement has rest still to visit; names returned a row meanwhile. *)
Continue(s, rest, names) ==
    /\ todo' = [todo EXCEPT ![s] = rest]
    /\ returned' = [returned EXCEPT ![s] = @ \cup names]
    /\ \/ /\ rest # {}
          /\ \E t \in rest : cur' = [cur EXCEPT ![s] = t]
          /\ pc' = [pc EXCEPT ![s] = "rows"]
          /\ UNCHANGED step
       \/ /\ rest = {}
          /\ cur' = [cur EXCEPT ![s] = Null]
          /\ IF step[s] < Len(Build(req[s]))
             THEN pc' = [pc EXCEPT ![s] = "query"] /\ step' = [step EXCEPT ![s] = @ + 1]
             ELSE pc' = [pc EXCEPT ![s] = "commit"] /\ UNCHANGED step
-----------------------------------------------------------------------------
(* GeneralPipe.Execute: a request comes in with a token for its actor.     *)
(* Login gives tokens to accounts only, and no account row is ever deleted. *)
Execute(s) ==
    /\ pc[s] = "idle"
    /\ \E r \in Menu :
         /\ r.op # "create-account" => <<"account", r.actor>> \in DOMAIN store
         /\ req' = [req EXCEPT ![s] = r]
         /\ pc' = [pc EXCEPT ![s] = IF AuthMode(r.op) = "AA_TAP" THEN "password" ELSE "store"]
    /\ UNCHANGED <<store, writes, step, todo, cur, returned, error>>

(* isUserPasswordValid: a query of its own, before the transaction.  The   *)
(* row list of an account that is closed is empty, and res[0][0].passhash  *)
(* throws a TypeError.                                                     *)
IsUserPasswordValid(s) ==
    LET account == Lookup(store, <<"account", req[s].actor>>)
    IN /\ pc[s] = "password"
       /\ ClientFree
       /\ IF account = NoRow THEN Reject(s, "TypeError")
          ELSE IF ~account.open THEN Reject(s, "TypeError")
          ELSE IF account.password # req[s].password THEN Reject(s, "InvalidCredentialsError")
          ELSE pc' = [pc EXCEPT ![s] = "store"] /\ UNCHANGED error
       /\ UNCHANGED <<store, writes, req, step, todo, cur, returned>>

(* Pipeline.Store: nothing to do is an error; else a client of the pool    *)
(* begins the transaction.                                                 *)
Store(s) ==
    /\ pc[s] = "store"
    /\ \/ /\ Build(req[s]) = <<>>
          /\ Reject(s, "EmptyQueryError")
       \/ /\ Build(req[s]) # <<>>
          /\ ClientFree
          /\ pc' = [pc EXCEPT ![s] = "query"]
          /\ UNCHANGED error
    /\ UNCHANGED <<store, writes, req, step, todo, cur, returned>>

(* nextQueryHandler: resolve the backreferences, send the statement, which *)
(* chooses its rows in a snapshot taken now.                               *)
NextQuery(s) ==
    LET q == Statement(s)
        chosen == {<<k, Lookup(View(s), k)>> : k \in Chosen(View(s), s, req[s], q)}
    IN /\ pc[s] = "query"
       /\ \/ /\ ~(Backreference(req[s], q) \subseteq returned[s])
             /\ Fail(s, "BackreferenceError")
             /\ UNCHANGED <<step, returned>>
          \/ /\ Backreference(req[s], q) \subseteq returned[s]
             /\ Continue(s, chosen, {})
             /\ UNCHANGED error
       /\ UNCHANGED <<store, writes, req>>

(* Whether transaction t stands between s and the row under key k: it has  *)
(* written the row, or it is changing who holds the unique email that s    *)
(* wants.                                                                  *)
HasRow(t, k) == k \in DOMAIN writes[t]

HasEmail(t, e, k) ==
    \E j \in DOMAIN writes[t] \cap AccountKey :
        /\ j # k
        /\ \/ writes[t][j].email = e
           \/ j \in DOMAIN store /\ store[j].email = e

WantsEmail(s) == Statement(s).query \in {"create_account", "change_email"}

WaitsFor(s, t) ==
    /\ pc[s] = "rows"
    /\ t # s
    /\ \/ HasRow(t, cur[s][1])
       \/ WantsEmail(s) /\ HasEmail(t, req[s].email, cur[s][1])

(* The row was deleted since it was chosen, or is another one inserted     *)
(* under the same key since.                                               *)
Gone(s) ==
    LET k == cur[s][1]
        now == Lookup(View(s), k)
    IN /\ cur[s][2] # NoRow
       /\ now # NoRow => k \in SavedListingKey \cup MediaKey /\ now.born # cur[s][2].born

(* What the statement does with a row that nobody keeps it from.           *)
Skips(s) ==
    LET q == Statement(s) IN
    IF q.query \in Inserts THEN q.query = "create_account" /\ EmailTaken(View(s), req[s].email, cur[s][1])
    ELSE ~Gone(s) => ~StillSelects(q, View(s)[cur[s][1]])

WriteRow(s) ==
    LET q == Statement(s)
        k == cur[s][1]
        row == Written(View(s), s, req[s], q, k)
    IN /\ writes' = [writes EXCEPT ![s] = [j \in DOMAIN writes[s] \cup {k} |->
                                            IF j = k THEN row ELSE writes[s][j]]]
       /\ Continue(s, todo[s] \ {cur[s]}, {q.query} \ Unreturning)
       /\ UNCHANGED error

VisitRow(s) ==
    LET violation == Violation(View(s), s, req[s], Statement(s), cur[s][1])
    IN /\ pc[s] = "rows"
       /\ \A t \in Sessions : ~WaitsFor(s, t)
       /\ \/ /\ Skips(s)
             /\ Continue(s, todo[s] \ {cur[s]}, {})
             /\ UNCHANGED <<writes, error>>
          \/ ~Skips(s) /\ violation = "null" /\ WriteRow(s)
          \/ /\ ~Skips(s) /\ violation # "null"
             /\ Fail(s, violation)
             /\ UNCHANGED <<writes, step, returned>>
       /\ UNCHANGED <<store, req>>

(* UPDATE locks its row before the unique index makes it wait.             *)
LockRow(s) ==
    LET k == cur[s][1] IN
    /\ pc[s] = "rows"
    /\ Statement(s).query = "change_email"
    /\ \A t \in Sessions \ {s} : ~HasRow(t, k)
    /\ ~HasRow(s, k)
    /\ ~Skips(s)
    /\ writes' = [writes EXCEPT ![s] = [j \in DOMAIN writes[s] \cup {k} |->
                                            IF j = k THEN View(s)[k] ELSE writes[s][j]]]
    /\ UNCHANGED <<store, req, pc, step, todo, cur, returned, error>>

(* PostgreSQL aborts a statement on a cycle of waiting transactions. *)
OnCycle(s) ==
    \E C \in SUBSET Sessions :
        /\ s \in C
        /\ \A u \in C : (\E t \in C : WaitsFor(u, t)) /\ (\E t \in C : WaitsFor(t, u))

DeadlockDetected(s) ==
    /\ OnCycle(s)
    /\ Fail(s, "QueryExecutionError")
    /\ UNCHANGED <<store, writes, req, step, returned>>

(* Any query may fail for reasons outside the model: a statement or COMMIT, *)
(* which leads to ROLLBACK; and before any statement, the one for the      *)
(* password, the connection to the pool (a DBClientNotAvailableError,      *)
(* which is 500 as well) or BEGIN.                                         *)
QueryFails(s) ==
    /\ \/ /\ pc[s] \in {"query", "rows", "commit"}
          /\ Fail(s, "QueryExecutionError")
       \/ /\ pc[s] = "password" \/ (pc[s] = "store" /\ Build(req[s]) # <<>>)
          /\ Reject(s, "QueryExecutionError")
          /\ UNCHANGED <<todo, cur>>
    /\ UNCHANGED <<store, writes, req, step, returned>>

(* COMMIT takes effect: the request is answered with error e. *)
TakesEffect(s, e) ==
    /\ pc[s] = "commit"
    /\ store' = View(s)
    /\ writes' = [writes EXCEPT ![s] = NoWrites]
    /\ error' = [error EXCEPT ![s] = e]
    /\ pc' = [pc EXCEPT ![s] = "done"]
    /\ UNCHANGED <<req, step, todo, cur, returned>>

(* COMMIT, then SQLTemplate.prepareResults on the rows returned. *)
Commit(s) == TakesEffect(s, PrepareResults(req[s].op, returned[s]))

(* The connection breaks before COMMIT is acknowledged: complexQuery and   *)
(* simpleQuery are told of an error, and ROLLBACK comes too late.          *)
CommitUnacknowledged(s) == TakesEffect(s, "Unacknowledged")

RollbackForgotten(s) ==    \* mutant: the client is released without ROLLBACK
    /\ pc[s] = "rollback"
    /\ pc' = [pc EXCEPT ![s] = "done"]
    /\ UNCHANGED <<store, writes, req, step, todo, cur, returned, error>>

RollbackCommits(s) ==    \* mutant: COMMIT on both paths
    /\ pc[s] = "rollback"
    /\ store' = View(s)
    /\ writes' = [writes EXCEPT ![s] = NoWrites]
    /\ pc' = [pc EXCEPT ![s] = "done"]
    /\ UNCHANGED <<req, step, todo, cur, returned, error>>

Rollback(s) ==
    /\ pc[s] = "rollback"
    /\ writes' = [writes EXCEPT ![s] = NoWrites]
    /\ pc' = [pc EXCEPT ![s] = "done"]
    /\ UNCHANGED <<store, req, step, todo, cur, returned, error>>

Handle(s) ==
    \/ IsUserPasswordValid(s) \/ Store(s) \/ NextQuery(s) \/ VisitRow(s) \/ LockRow(s)
    \/ DeadlockDetected(s) \/ Commit(s) \/ CommitUnacknowledged(s) \/ Rollback(s)

Terminating == (\A s \in Sessions : pc[s] = "done") /\ UNCHANGED vars

Next == (\E s \in Sessions : Execute(s) \/ Handle(s) \/ QueryFails(s)) \/ Terminating

(* Node serves every promise whose operation completes, PostgreSQL every   *)
(* statement that can run, and its deadlock timer always fires.            *)
Fairness == \A s \in Sessions : WF_vars(Handle(s))

Spec == Init /\ [][Next]_vars /\ Fairness
-----------------------------------------------------------------------------
(* Properties *)

Answered(s) == pc[s] = "done"
Accepted(s) == Answered(s) /\ GetStatus(req[s].op, error[s]) < 300
Refused(s) == Answered(s) /\ GetStatus(req[s].op, error[s]) >= 400

(* Every variable has its type: the committed rows and those of open       *)
(* transactions are rows of the table of their key.                        *)
TypeOK ==
    /\ IsDatabase(store)
    /\ DOMAIN writes = Sessions
    /\ \A s \in Sessions :
         /\ DOMAIN writes[s] \subseteq Key
         /\ \A k \in DOMAIN writes[s] : writes[s][k] \in RowOf(k) \cup {NoRow}
    /\ req \in [Sessions -> Request \cup {Null}]
    /\ pc \in [Sessions -> {"idle", "password", "store", "done"} \cup InTransaction]
    /\ step \in [Sessions -> Nat \ {0}]
    /\ todo \in [Sessions -> SUBSET (Key \X (Row \cup {NoRow}))]
    /\ cur \in [Sessions -> (Key \X (Row \cup {NoRow})) \cup {Null}]
    /\ returned \in [Sessions -> SUBSET Statements]
    /\ error \in [Sessions -> Errors \cup {"null"}]

(* No row is written by two open transactions at once, and a request that  *)
(* has been answered, or has not reached the database, holds no row: a     *)
(* client never goes back to the pool with its transaction still open.     *)
LocksExclusive ==
    /\ \A s, t \in Sessions : s # t => DOMAIN writes[s] \cap DOMAIN writes[t] = {}
    /\ \A s \in Sessions : pc[s] \notin InTransaction => DOMAIN writes[s] = {}

(* A closed listing stays as it was closed: no request that was already    *)
(* under way changes its text, its receiver or its address, or reopens it  *)
(* (the ClosedDate IS NULL of change_*, close_listing).  Nor does a closed *)
(* account change.                                                         *)
ClosedIsFinal ==
    [][\A k \in DOMAIN store \cap (ListingKey \cup AccountKey) :
          ~store[k].open => k \in DOMAIN store' /\ store'[k] = store[k]]_vars

(* A listing is given away once: of all the close-listing requests for it  *)
(* one at most is accepted, and the receiver it named is the one recorded. *)
OneReceiver ==
    \A s \in Sessions : (Accepted(s) /\ req[s].op = "close-listing") =>
        /\ <<"listing", req[s].listing>> \in DOMAIN store
        /\ LET l == store[<<"listing", req[s].listing>>] IN ~l.open /\ l.receiver = req[s].receiver
        /\ \A t \in Sessions \ {s} :
             (req[t] # Null /\ req[t].op = "close-listing" /\ req[t].listing = req[s].listing) => ~Accepted(t)

(* A second close-account commits although it is refused: close_account    *)
(* has found the account closed, and the two statements after it, which    *)
(* return nothing, close what the account has come to be offering, and     *)
(* what conversations it has, since.                                       *)
ClosesAgain(s) ==
    /\ Refused(s)' /\ req[s].op = "close-account"
    /\ ~store[<<"account", req[s].actor>>].open
    /\ DOMAIN store' = DOMAIN store
    /\ \A k \in DOMAIN store : store'[k] # store[k] =>
         /\ store'[k] = [store[k] EXCEPT !.open = FALSE]
         /\ \/ k \in ListingKey /\ store[k].contributor = req[s].actor
            \/ k \in ConversationKey /\ IsParty(store, req[s].actor, k)

(* So does a modification of a listing by a number that is about to be     *)
(* given: no change_media finds the listing, and drop_extra_media, which   *)
(* returns nothing, finds it.                                              *)
DropsUnseen(s) ==
    /\ Refused(s)' /\ req[s].op = "modify-listing" /\ req[s].listing \in Sessions
    /\ \A k \in DOMAIN store : k \notin DOMAIN store' => k \in MediaKey /\ k[2] = req[s].listing
    /\ \A k \in DOMAIN store' : k \in DOMAIN store /\ store'[k] = store[k]

(* All or nothing, the nothing: whatever changes in the database, a        *)
(* request is granted in that step, so that one that is answered with an   *)
(* error, at whatever statement it failed, has changed no row, left none   *)
(* behind and deleted none (complexQuery's ROLLBACK; EmptyResponseError of *)
(* a transaction that wrote nothing).  Except that the acknowledgement of  *)
(* its COMMIT may be lost, and for the two requests above, whose empty     *)
(* results hide what their other statements did.                           *)
RefusedLeavesNoTrace ==
    [][store' # store =>
          \E s \in Sessions :
              /\ ~Answered(s) /\ Answered(s)'
              /\ \/ Accepted(s)' \/ error'[s] = "Unacknowledged"
                 \/ ClosesAgain(s) \/ DropsUnseen(s)]_vars

(* Some request of this kind about listing l has come in. *)
Requested(op, l) == \E t \in Sessions : req[t] # Null /\ req[t].op = op /\ req[t].listing = l

(* All or nothing, the all: what an accepted request creates is there,     *)
(* with everything that belongs to it (until somebody asks for other media *)
(* in the place of those it came with).                                    *)
AcceptedIsComplete ==
    \A s \in Sessions : Accepted(s) =>
        /\ req[s].op = "create-account" =>
             /\ <<"account", s>> \in DOMAIN store
             /\ req[s].address => OwnsAddress(store, s, s)
             /\ req[s].picture => <<"picture", s>> \in DOMAIN store
        /\ req[s].op = "create-listing" =>
             /\ Owns(store, req[s].actor, s)
             /\ \A i \in 1..req[s].media :
                  <<"media", s, i - 1>> \in DOMAIN store \/ Requested("modify-listing", s)
        /\ req[s].op = "create-message" =>
             <<"message", s>> \in DOMAIN store /\ IsParty(store, req[s].actor, req[s].conversation)
        /\ req[s].op = "close-account" => ~store[<<"account", req[s].actor>>].open

(* The media a listing has. *)
MediaOf(l) == MediaIn(store, l)

(* While a listing is open, its media are those of one request, all of     *)
(* them and from index 0 on, however modify-listing requests interleave    *)
(* (change_media one index at a time, then drop_extra_media).  Not so if   *)
(* somebody asks to modify a listing by a number that is about to be       *)
(* given: change_media finds no listing at first, and finds it later.      *)
MediaAreWhole ==
    \A l \in ListingID :
        (IsOpenListing(store, l) /\ ~(l \in Sessions /\ Requested("modify-listing", l))) => MediaWhole(store, l)

(* How a modification that is accepted can end: with all that it asked     *)
(* for, on a listing that its actor owns and that is still open;           *)
ModifiedAll(s) ==
    LET r == req[s]
        l == r.listing
    IN /\ Owns(store', r.actor, l) /\ IsOpenListing(store', l)
       /\ \A c \in r.columns : store'[<<"listing", l>>].columns[c] = s
       /\ r.location # Null => store'[<<"listing", l>>].address = AddressOf(s, r)
       /\ r.media > 0 => /\ MediaOf(l)' = {<<"media", l, i>> : i \in 0..(r.media - 1)}
                         /\ \A k \in MediaOf(l)' : store'[k].url = s

(* if it asked for media only, and so took no lock on the listing, with    *)
(* the first of these, because a close-listing got in between;             *)
ModifiedMediaInPart(s) ==
    LET r == req[s] IN
    /\ r.columns = {} /\ r.location = Null
    /\ ~IsOpenListing(store', r.listing)
    /\ \E n \in 1..r.media : {k[3] : k \in {m \in MediaOf(r.listing)' : store'[m].url = s}} = 0..(n - 1)

(* if it asked for a new location, with the row of that address and        *)
(* nothing else, because the listing is not an open one of the actor's:    *)
(* create_address does not ask, and its result counts (the moving run).    *)
MadeAddressOnly(s) ==
    LET address == <<"address", s>> IN
    /\ req[s].location = New
    /\ ~(Owns(store', req[s].actor, req[s].listing) /\ IsOpenListing(store', req[s].listing))
    /\ DOMAIN store' = DOMAIN store \cup {address}
    /\ store'[address].owner = req[s].actor
    /\ \A k \in DOMAIN store : store'[k] = store[k]

(* A modification that is accepted was applied as a whole: the row lock    *)
(* that the UPDATE of a column or of the location took on the listing      *)
(* keeps it open for the statements after it.  There are the two           *)
(* exceptions above, and never another mixture of done and not done.  (Of  *)
(* a listing that was there: see MediaAreWhole.)                           *)
ModificationIsWhole ==
    [][\A s \in Sessions :
         (/\ Accepted(s)' /\ ~Answered(s)
          /\ req[s].op = "modify-listing" /\ req[s].listing \notin Sessions) =>
            ModifiedAll(s) \/ ModifiedMediaInPart(s) \/ MadeAddressOnly(s)]_vars

(* A change of a profile that is accepted was applied as a whole, although *)
(* the password was checked before the transaction: if the account closed  *)
(* in between, nothing of it was, except the picture, which change_pfp     *)
(* stores without asking (and for which the request is still accepted).    *)
ProfileChangeIsWhole ==
    [][\A s \in Sessions : (Accepted(s)' /\ ~Answered(s) /\ req[s].op = "modify-account") =>
         LET account == store'[<<"account", req[s].actor>>]
             Applied == {c \in AccountColumns : account.columns[c] = s}
         IN /\ req[s].picture => store'[<<"picture", req[s].actor>>].url = s
            /\ \/ /\ account.open /\ Applied = req[s].columns
                  /\ req[s].email # Null => account.email = req[s].email
                  /\ req[s].newPassword # Null => account.password = req[s].newPassword
               \/ ~account.open /\ Applied = {} /\ req[s].picture]_vars

(* Closing an account closes the listings it had: no interleaving leaves   *)
(* one of them open (close_account and close_listings commit together).    *)
ClosureReachesListings ==
    \A k \in DOMAIN InitStore \cap ListingKey :
        LET owner == <<"account", InitStore[k].contributor>> IN
        (owner \in DOMAIN InitStore /\ InitStore[owner].open /\ ~store[owner].open) => ~store[k].open

(* Closing a listing closes its conversations: one that was there is open  *)
(* again only if somebody asked for it anew (create_conversation).         *)
ClosureReachesConversations ==
    \A s \in Sessions : Accepted(s) /\ req[s].op = "close-listing" =>
        \A k \in DOMAIN InitStore \cap ConversationKey :
            (k[3] = req[s].listing /\ store[k].open) =>
                \E t \in Sessions : /\ req[t] # Null /\ req[t].op = "create-conversation"
                                   /\ k = <<"conversation", req[t].actor, req[t].listing>>

(* No two accounts have the same email, whether by create-account or by    *)
(* modify-account (UNIQUE, ON CONFLICT DO NOTHING).                        *)
EmailUnique ==
    \A j, k \in DOMAIN store \cap AccountKey : store[j].email = store[k].email => j = k

(* The rows of different tables agree, in every committed database: nobody *)
(* converses with himself about his own listing, only the parties of a     *)
(* conversation write in it, and a listing is where its contributor has an *)
(* address (create_conversation, create_message, and the foreign key of    *)
(* create_listing and change_location).                                    *)
PartiesAgree == Agrees(store)

(* What the rows amount to, for the members: who has an account, and who   *)
(* offers what.                                                            *)
AccountsOf(db) ==
    [a \in {i \in AccountID : <<"account", i>> \in DOMAIN db} |-> db[<<"account", a>>].open]
ListingsOf(db) ==
    [l \in {i \in ListingID : <<"listing", i>> \in DOMAIN db} |->
        LET row == db[<<"listing", l>>]
        IN [contributor |-> row.contributor, open |-> row.open, receiver |-> row.receiver]]
Outcome(s) ==
    IF pc[s] # "done" THEN "none"
    ELSE IF error[s] = "Unacknowledged" THEN "unheard"
    ELSE IF GetStatus(req[s].op, error[s]) < 300 THEN "accepted" ELSE "refused"
Outcomes == [s \in Sessions |-> Outcome(s)]

(* Statement by statement, at READ COMMITTED, and with the answers of      *)
(* COMMIT that get lost, the requests implement the exchange, where each   *)
(* happens at one instant and the answer says what happened.               *)
Members == INSTANCE Exchange WITH
    Accounts0 <- AccountsOf(InitStore), Listings0 <- ListingsOf(InitStore),
    account <- AccountsOf(store), listing <- ListingsOf(store), asked <- req,
    answer <- Outcomes
RefinesExchange == Members!Spec

(* Every request is answered: no lock, no full pool and no cycle of        *)
(* waiting transactions keeps it forever.                                  *)
EveryRequestAnswered == \A s \in Sessions : pc[s] # "idle" ~> Answered(s)
=============================================================================
