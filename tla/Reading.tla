------------------------------- MODULE Reading -------------------------------
(***************************************************************************)
(* The reading requests, views and searches, run by GeneralPipe.Execute    *)
(* next to the writing ones of Marketplace.  A search is one SELECT.  A    *)
(* view is a transaction of several, and at READ COMMITTED each of them    *)
(* reads what is committed at its own moment: an answer is put together    *)
(* from different moments of the database.                                 *)
(*                                                                         *)
(* SELECTs take no row locks and wait for nobody.  Only the first page of  *)
(* a search or a view without filters is modelled, and long enough for all *)
(* rows.                                                                   *)
(***************************************************************************)
EXTENDS Marketplace

CONSTANTS
    Readers,    \* the reading requests in flight
    ReadMenu    \* what they may ask

(* Requests, as they leave DataValidate; an NA request has no actor. *)
ViewListingRequest == [op: {"view-listing"}, listing: ListingID]
ViewAccountListingRequest == [op: {"view-accountListing"}, actor: AccountID, listing: ListingID]
ViewAccountRequest == [op: {"view-account"}, account: AccountID]
ViewConversationRequest ==
    [op: {"view-conversation"}, actor: AccountID, conversation: ConversationKey]
SearchListingRequest == [op: {"search-listing"}, actor: AccountID \cup {Null}]
SearchRequest ==
    [op: {"search-accountListing", "search-savedListing", "search-conversation", "search-address"},
     actor: AccountID]

ReadRequest == ViewListingRequest \cup ViewAccountListingRequest \cup ViewAccountRequest
                 \cup ViewConversationRequest \cup SearchListingRequest \cup SearchRequest

(* Only close_listing names a receiver, so the initial database has none   *)
(* for a listing that is open.                                             *)
ASSUME ReadingAssumption ==
    /\ ReadMenu \subseteq ReadRequest /\ Null \notin ReadRequest
    /\ \A k \in DOMAIN InitStore \cap ListingKey : InitStore[k].open => InitStore[k].receiver = Null

VARIABLES
    ask,        \* per reader: its request
    phase,      \* per reader: where Execute is
    found,      \* per reader: the rows of each SELECT so far, by their keys
    readError,  \* per reader: error_final of Execute
    before,     \* history, per reader: what was committed when it asked
    order       \* history: the sessions whose transactions are committed, in order

readerVars == <<ask, phase, found, readError, before>>

ReadInit ==
    /\ Init
    /\ ask = [r \in Readers |-> Null]
    /\ phase = [r \in Readers |-> "idle"]
    /\ found = [r \in Readers |-> <<>>]
    /\ readError = [r \in Readers |-> "null"]
    /\ before = [r \in Readers |-> NoWrites]
    /\ order = <<>>
-----------------------------------------------------------------------------
(* The templates of the reading requests *)

ListingTemplateMediaFirst == <<"get_media", "get_listing", "get_location">>    \* mutant: order
ListingTemplate == <<"get_listing", "get_location", "get_media">>

ReadTemplate(q) ==
    CASE q.op \in {"view-listing", "view-accountListing"} -> ListingTemplate
      [] q.op = "view-account"                            -> <<"get_account", "get_picture", "get_listings">>
      [] q.op = "view-conversation"                       -> <<"get_conversation", "get_messages">>
      [] q.op = "search-conversation"                     -> <<"get_conversations">>
      [] q.op = "search-address"                          -> <<"get_addresses">>
      [] OTHER                                            -> <<"get_listing">>

Media(db, l) == {k \in DOMAIN db \cap MediaKey : k[2] = l}
FirstMedium(db, l) == {k \in Media(db, l) : \A j \in Media(db, l) : k[3] <= j[3]}

(* A listing with its address and its first medium, as searches show it. *)
Joined(db, l) == {<<"listing", l>>, <<"address", db[<<"listing", l>>].address>>} \cup FirstMedium(db, l)

JoinedConversation(db, c) ==
    {c, <<"listing", c[3]>>, <<"account", c[2]>>, <<"account", db[<<"listing", c[3]>>].contributor>>}
      \cup FirstMedium(db, c[3])

(* The WHERE clauses of the searches: which listings they show. *)
Matches(db, q, l) ==
    CASE q.op = "search-listing"        -> IsOpenListing(db, l) /\ ~Owns(db, q.actor, l)
      [] q.op = "search-accountListing" -> Owns(db, q.actor, l)
      [] q.op = "search-savedListing"   -> IsOpenListing(db, l) /\ <<"saved", q.actor, l>> \in DOMAIN db
      [] q.op = "view-account"          -> IsOpenListing(db, l) /\ Owns(db, q.account, l)

AllMatching(db, q) ==
    UNION {Joined(db, l) : l \in {m \in ListingID : <<"listing", m>> \in DOMAIN db /\ Matches(db, q, m)}}

(* The condition of get_conversation. *)
MayReadAny(db, q) == q.conversation \in DOMAIN db    \* mutant: Contributor.UserID = $1 OR ... dropped
MayRead(db, q) == q.conversation \in DOMAIN db /\ IsParty(db, q.actor, q.conversation)

(* The keys of the rows that a SELECT finds in db, given the rows of the   *)
(* request's SELECTs before it.                                            *)
Select(db, q, name, rows) ==
    CASE name = "get_listing" /\ q.op = "view-listing" ->
           {k \in {<<"listing", q.listing>>} : IsOpenListing(db, q.listing)}
      [] name = "get_listing" /\ q.op = "view-accountListing" ->
           {k \in {<<"listing", q.listing>>} \cap DOMAIN db : q.actor \in {db[k].contributor, db[k].receiver}}
      [] name = "get_location"  -> {<<"address", rows[k].address>> : k \in DOMAIN rows \cap ListingKey} \cap DOMAIN db
      [] name = "get_media"     -> Media(db, q.listing)
      [] name = "get_account"   -> {k \in {<<"account", q.account>>} \cap DOMAIN db : db[k].open}
      [] name = "get_picture"   -> {<<"picture", k[2]>> : k \in DOMAIN rows \cap AccountKey} \cap DOMAIN db
      [] name = "get_conversation" ->
           UNION {JoinedConversation(db, c) : c \in {d \in {q.conversation} : MayRead(db, q)}}
      [] name = "get_messages"  ->
           {k \in DOMAIN db \cap MessageKey : db[k].conversation \in DOMAIN rows \cap ConversationKey}
      [] name = "get_conversations" ->
           UNION {JoinedConversation(db, c) :
                    c \in {d \in DOMAIN db \cap ConversationKey : db[d].open /\ IsParty(db, q.actor, d)}}
      [] name = "get_addresses" -> {k \in DOMAIN db \cap AddressKey : db[k].owner = q.actor}
      [] OTHER                  -> AllMatching(db, q)

(* from_query: the SELECT whose first row a SELECT needs. *)
RefersTo(name) ==
    CASE name = "get_location"                      -> {"get_listing"}
      [] name \in {"get_picture", "get_listings"}   -> {"get_account"}
      [] name = "get_messages"                      -> {"get_conversation"}
      [] OTHER                                      -> {}

IsView(q) == q.op \in {"view-listing", "view-accountListing", "view-account", "view-conversation"}

(* The response templates of the views have 404 for BackreferenceError. *)
ReadStatusByDefault(q, e) == IF e = "null" THEN 200 ELSE IF e = "EmptyResponseError" THEN 404 ELSE 500    \* mutant
ReadStatus(q, e) ==
    CASE e = "null"                                      -> 200
      [] e = "EmptyResponseError"                        -> 404
      [] e = "BackreferenceError" /\ IsView(q)           -> 404
      [] OTHER                                           -> 500
-----------------------------------------------------------------------------
(* GeneralPipe.Execute of a reading request *)

Ask(r) ==
    /\ phase[r] = "idle"
    /\ \E q \in ReadMenu : ask' = [ask EXCEPT ![r] = q]
    /\ phase' = [phase EXCEPT ![r] = "select"]
    /\ before' = [before EXCEPT ![r] = store]
    /\ UNCHANGED <<found, readError>>

(* The rows found so far. *)
Rows(r) ==
    [k \in UNION {DOMAIN found[r][i] : i \in DOMAIN found[r]} |->
        found[r][CHOOSE i \in DOMAIN found[r] : k \in DOMAIN found[r][i]][k]]

(* The next SELECT, in a snapshot of its own. *)
NextSelect(r) ==
    LET template == ReadTemplate(ask[r])
        name == template[Len(found[r]) + 1]
        unresolved == \E i \in DOMAIN found[r] : template[i] \in RefersTo(name) /\ found[r][i] = NoWrites
    IN /\ phase[r] = "select"
       /\ \/ /\ unresolved
             /\ readError' = [readError EXCEPT ![r] = "BackreferenceError"]
             /\ phase' = [phase EXCEPT ![r] = "done"]
             /\ UNCHANGED found
          \/ /\ ~unresolved
             /\ found' = [found EXCEPT ![r] = Append(@, [k \in Select(store, ask[r], name, Rows(r)) |-> store[k]])]
             /\ phase' = [phase EXCEPT ![r] = IF Len(found'[r]) = Len(template) THEN "answer" ELSE @]
             /\ UNCHANGED readError
       /\ UNCHANGED <<ask, before>>

SelectFails(r) ==
    /\ phase[r] = "select"
    /\ readError' = [readError EXCEPT ![r] = "QueryExecutionError"]
    /\ phase' = [phase EXCEPT ![r] = "done"]
    /\ UNCHANGED <<ask, found, before>>

(* COMMIT, prepareResults (the views have error_on_empty_response) and the *)
(* answer.                                                                 *)
Answer(r) ==
    /\ phase[r] = "answer"
    /\ readError' = [readError EXCEPT ![r] =
         IF IsView(ask[r]) /\ \A i \in DOMAIN found[r] : found[r][i] = NoWrites
         THEN "EmptyResponseError" ELSE "null"]
    /\ phase' = [phase EXCEPT ![r] = "done"]
    /\ UNCHANGED <<ask, found, before>>

Read == \E r \in Readers : Ask(r) \/ NextSelect(r) \/ SelectFails(r) \/ Answer(r)

(* A step of the writing requests; order keeps track of their commits. *)
Write ==
    /\ Next
    /\ LET committing == {s \in Sessions : pc[s] = "commit" /\ pc'[s] = "done"}
       IN order' = IF committing = {} THEN order ELSE Append(order, CHOOSE s \in committing : TRUE)
    /\ UNCHANGED readerVars

ReadNext == Write \/ (Read /\ UNCHANGED <<vars, order>>)

ReadSpec == ReadInit /\ [][ReadNext]_<<vars, readerVars, order>>
-----------------------------------------------------------------------------
(* Properties *)

Status(r) == ReadStatus(ask[r], readError[r])
Shown(r) == phase[r] = "done" /\ Status(r) = 200
ShowsListing(r) == Shown(r) /\ ask[r].op \in {"view-listing", "view-accountListing"}
ShownListing(r) == Rows(r)[<<"listing", ask[r].listing>>]
ShownMedia(r) == {k \in DOMAIN Rows(r) \cap MediaKey : k[2] = ask[r].listing}

(* The parts of an answer belong together, although they were read at      *)
(* different moments: the location is the address that the listing shown   *)
(* has, the listings of an account are its own, and messages are shown     *)
(* with their conversation, and to a party of it only.                     *)
PartsBelongTogether ==
    \A r \in Readers : Shown(r) =>
        /\ ShowsListing(r) => OwnsAddress(Rows(r), ShownListing(r).contributor, ShownListing(r).address)
        /\ \A k \in DOMAIN Rows(r) \cap ListingKey :
             ask[r].op = "view-account" => Rows(r)[k].contributor = ask[r].account
        /\ \A k \in DOMAIN Rows(r) \cap MessageKey :
             LET c == Rows(r)[k].conversation IN c \in DOMAIN Rows(r) /\ IsParty(store, ask[r].actor, c)

Rank(s) == IF s = Null THEN 0 ELSE CHOOSE i \in DOMAIN order : order[i] = s

(* Whether the listing that r asks for was asked to be modified by a       *)
(* number that was still to be given (see MediaAreWhole).                  *)
ForeseenListing(r) == ask[r].listing \in Sessions /\ Requested("modify-listing", ask[r].listing)

(* The media of an answer are never older than its texts: who is shown     *)
(* what a modification made of the listing is shown its media, or newer    *)
(* ones (get_listing comes before get_media; the reverse is allowed).      *)
NoMediumIsOlder ==
    \A r \in Readers : (ShowsListing(r) /\ ~ForeseenListing(r)) =>
        \A c \in ListingColumns :
            LET s == ShownListing(r).columns[c] IN
            (s # Null /\ req[s].media > 0) =>
                /\ ShownMedia(r) # {}
                /\ \A k \in ShownMedia(r) : Rank(Rows(r)[k].url) >= Rank(s)

(* A view mixes the media of two requests only when the listing has been   *)
(* closed meanwhile: while it is open every SELECT finds it whole.         *)
MediaShownAreWhole ==
    \A r \in Readers : (ShowsListing(r) /\ ~ForeseenListing(r) /\ IsOpenListing(store, ask[r].listing)) =>
        /\ \A k \in ShownMedia(r) : \A i \in 0..k[3] : <<"media", ask[r].listing, i>> \in ShownMedia(r)
        /\ \A j, k \in ShownMedia(r) : Rows(r)[j].url = Rows(r)[k].url

(* What a request asks for, in a database. *)
Wanted(db, q) ==
    CASE q.op = "view-listing" -> {k \in {<<"listing", q.listing>>} : IsOpenListing(db, q.listing)}
      [] q.op = "view-accountListing" ->
           {k \in {<<"listing", q.listing>>} \cap DOMAIN db : q.actor \in {db[k].contributor, db[k].receiver}}
      [] q.op = "view-account" -> {k \in {<<"account", q.account>>} \cap DOMAIN db : db[k].open}
      [] q.op = "view-conversation" -> {k \in {q.conversation} \cap DOMAIN db : IsParty(db, q.actor, k)}

(* The row that a view is about. *)
Sought(q) ==
    CASE q.op \in {"view-listing", "view-accountListing"} -> <<"listing", q.listing>>
      [] q.op = "view-account"                            -> <<"account", q.account>>
      [] q.op = "view-conversation"                       -> q.conversation

(* An answer is current.  A view of something that was there from the      *)
(* request to the answer finds it, a view of something that was never      *)
(* there for the client says 404 and not 500 (and was not there in between *)
(* either, unless it was created and closed again); listings that were     *)
(* closed when the client asked are not shown to the public, those open    *)
(* all the time are found.                                                 *)
AnswersAreCurrent ==
    \A r \in Readers : (phase[r] = "done" /\ readError[r] # "QueryExecutionError") =>
        LET q == ask[r]
            public == {k \in DOMAIN before[r] \cap ListingKey : before[r][k].open}
        IN /\ IsView(q) => /\ Status(r) \in {200, 404}
                           /\ Wanted(before[r], q) \cap Wanted(store, q) # {} => Status(r) = 200
                           /\ (/\ Wanted(before[r], q) \cup Wanted(store, q) = {}
                               /\ Sought(q) \in DOMAIN before[r] \/ Sought(q) \notin DOMAIN store) => Status(r) = 404
           /\ q.op \in {"view-listing", "view-account", "search-listing", "search-savedListing"} =>
                DOMAIN Rows(r) \cap ListingKey \cap DOMAIN before[r] \subseteq public
           /\ q.op = "search-listing" =>
                {k \in public : store[k].open /\ store[k].contributor # q.actor} \subseteq DOMAIN Rows(r)
=============================================================================
