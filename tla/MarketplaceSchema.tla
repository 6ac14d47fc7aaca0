-------------------------- MODULE MarketplaceSchema --------------------------
(***************************************************************************)
(* The tables of db/database-init.pgsql and the SQL templates that write   *)
(* them (schemas/sql-templates.js), as pure operators: what a request      *)
(* looks like after validation, which statements SQLTemplate.build makes   *)
(* of it, which rows a statement chooses in the view it is given, what it  *)
(* writes to a row, which constraint it can break, and which HTTP status   *)
(* its response template gives an outcome.                                 *)
(*                                                                         *)
(* A database is a function from the keys of the rows that exist to those  *)
(* rows.  A row drawn from a serial column (a new account, address,        *)
(* listing or message) is named after the session that inserts it: every   *)
(* request inserts at most one of each.  A column whose value no statement *)
(* reads back holds the session that wrote it last (a stamp), so that a    *)
(* mixture of two requests' values is visible.                             *)
(***************************************************************************)
EXTENDS Naturals, Sequences

CONSTANTS
    Sessions,   \* the requests in flight, one Express handler each
    Accounts,   \* accounts, listings and addresses that exist before them
    Listings,
    Addresses,
    Emails,
    Passwords,
    MaxMedia,   \* bound: media items per request
    Null,       \* SQL NULL / an absent optional parameter
    New,        \* a location given as an object: a new Address row
    NoRow       \* no row has this key (the target of an INSERT; a DELETE)

ASSUME SchemaAssumption ==
    /\ MaxMedia \in Nat
    /\ Null \notin Sessions \cup Accounts \cup Listings \cup Addresses \cup Emails \cup Passwords
    /\ New # Null /\ New \notin Sessions \cup Addresses
-----------------------------------------------------------------------------
(* Tables *)

AccountID == Accounts \cup Sessions
ListingID == Listings \cup Sessions
AddressID == Addresses \cup Sessions
MediaIndex == {i \in 0..MaxMedia : i < MaxMedia}
Stamp == Sessions \cup {Null}
AccountColumns == {"name", "dob"}
ListingColumns == {"title", "description", "category", "condition"}

AccountRow == [open: BOOLEAN, email: Emails, password: Passwords,
               columns: [AccountColumns -> Stamp]]
AddressRow == [owner: AccountID]
ListingRow == [contributor: AccountID, open: BOOLEAN, receiver: AccountID \cup {Null},
               address: AddressID, columns: [ListingColumns -> Stamp]]
ConversationRow == [open: BOOLEAN]
MessageRow == [sender: AccountID, conversation: {"conversation"} \X AccountID \X ListingID]
SavedListingRow == [born: Stamp]
MediaRow == [born: Stamp, url: Stamp]    \* a profile picture or a medium of a listing

AccountKey == {"account"} \X AccountID
AddressKey == {"address"} \X AddressID
ListingKey == {"listing"} \X ListingID
ConversationKey == {"conversation"} \X AccountID \X ListingID  \* UNIQUE (ReceiverID, ListingID)
MessageKey == {"message"} \X Sessions
SavedListingKey == {"saved"} \X AccountID \X ListingID         \* PRIMARY KEY (UserID, ListingID)
PictureKey == {"picture"} \X AccountID                         \* UNIQUE (UserID)
MediaKey == {"media"} \X ListingID \X MediaIndex               \* UNIQUE (Index, ListingID)

Key == AccountKey \cup AddressKey \cup ListingKey \cup ConversationKey
         \cup MessageKey \cup SavedListingKey \cup PictureKey \cup MediaKey

Row == AccountRow \cup AddressRow \cup ListingRow \cup ConversationRow
         \cup MessageRow \cup SavedListingRow \cup MediaRow

RowOf(k) ==
    CASE k \in AccountKey      -> AccountRow
      [] k \in AddressKey      -> AddressRow
      [] k \in ListingKey      -> ListingRow
      [] k \in ConversationKey -> ConversationRow
      [] k \in MessageKey      -> MessageRow
      [] k \in SavedListingKey -> SavedListingRow
      [] OTHER                 -> MediaRow

IsDatabase(db) == DOMAIN db \subseteq Key /\ \A k \in DOMAIN db : db[k] \in RowOf(k)

Lookup(db, k) == IF k \in DOMAIN db THEN db[k] ELSE NoRow

(* The subqueries the WHERE clauses share. *)
Owns(db, a, l) == <<"listing", l>> \in DOMAIN db /\ db[<<"listing", l>>].contributor = a
IsOpenListing(db, l) == <<"listing", l>> \in DOMAIN db /\ db[<<"listing", l>>].open
OwnsAddress(db, a, ad) == <<"address", ad>> \in DOMAIN db /\ db[<<"address", ad>>].owner = a
IsParty(db, a, c) == c[2] = a \/ Owns(db, a, c[3])    \* c: the key of a conversation
-----------------------------------------------------------------------------
(* Requests, as they leave DataValidate (with the accountID of the token). *)

CreateAccountRequest ==
    [op: {"create-account"}, email: Emails, password: Passwords, address: BOOLEAN, picture: BOOLEAN]
CloseAccountRequest == [op: {"close-account"}, actor: AccountID, password: Passwords]
ModifyAccountRequest ==
    [op: {"modify-account"}, actor: AccountID, password: Passwords,
     columns: SUBSET AccountColumns, email: Emails \cup {Null},
     newPassword: Passwords \cup {Null}, picture: BOOLEAN]
SavedListingRequest ==
    [op: {"create-savedListing", "close-savedListing"}, actor: AccountID, listing: ListingID]
CreateListingRequest ==
    [op: {"create-listing"}, actor: AccountID, location: AddressID \cup {New}, media: 0..MaxMedia]
ModifyListingRequest ==
    [op: {"modify-listing"}, actor: AccountID, listing: ListingID,
     columns: SUBSET ListingColumns, location: AddressID \cup {New, Null}, media: 0..MaxMedia]
CloseListingRequest ==    \* a receiver sent as a string may be the actor himself
    [op: {"close-listing"}, actor: AccountID, listing: ListingID, receiver: AccountID \cup {Null}]
CreateConversationRequest == [op: {"create-conversation"}, actor: AccountID, listing: ListingID]
ConversationRequest ==
    [op: {"close-conversation", "create-message"}, actor: AccountID, conversation: ConversationKey]

Request == CreateAccountRequest \cup CloseAccountRequest \cup ModifyAccountRequest
             \cup SavedListingRequest \cup CreateListingRequest \cup ModifyListingRequest
             \cup CloseListingRequest \cup CreateConversationRequest \cup ConversationRequest

(* schemas/security-schemas.js: these two ask for the password as well. *)
AuthMode(op) ==
    IF op = "create-account" THEN "NA"
    ELSE IF op \in {"close-account", "modify-account"} THEN "AA_TAP" ELSE "AA_TO"
-----------------------------------------------------------------------------
(* SQLTemplate.build: the statements of a request, in the template's order. *)

Query(name) == <<[query |-> name, index |-> 0]>>
When(condition, name) == IF condition THEN Query(name) ELSE <<>>
TimesFromOne(n, name) == [i \in 1..n |-> [query |-> name, index |-> i]]    \* mutant: off by one
Times(n, name) == [i \in 1..n |-> [query |-> name, index |-> i - 1]]

CreateAccountTemplate(r) ==
    Query("create_account") \o When(r.address, "store_address") \o When(r.picture, "insert_pfp")

CloseAccountTemplateLeavingListings(r) ==    \* mutant: close_listings forgotten
    Query("close_account") \o Query("close_conversations")
CloseAccountTemplate(r) ==
    Query("close_account") \o Query("close_listings") \o Query("close_conversations")

ModifyAccountTemplateOneColumn(r) ==    \* mutant: else if between the columns
    IF "name" \in r.columns THEN Query("change_name") \o When(r.picture, "change_pfp")
    ELSE IF r.email # Null THEN Query("change_email") \o When(r.picture, "change_pfp")
    ELSE When(r.newPassword # Null, "change_password") \o When("dob" \in r.columns, "change_dob")
           \o When(r.picture, "change_pfp")
ModifyAccountTemplate(r) ==
    When("name" \in r.columns, "change_name") \o When(r.email # Null, "change_email")
      \o When(r.newPassword # Null, "change_password") \o When("dob" \in r.columns, "change_dob")
      \o When(r.picture, "change_pfp")

CreateListingTemplateOneMedium(r) ==    \* mutant: times forgotten
    When(r.location = New, "create_address") \o Query("create_listing")
      \o When(r.media > 0, "insert_media")
CreateListingTemplate(r) ==
    When(r.location = New, "create_address") \o Query("create_listing")
      \o Times(r.media, "insert_media")

(* An empty media list sets no 'url' (GeneralPipe.Execute), so the media   *)
(* statements run only for a non-empty one.                                *)
ModifyListingTemplateKeepingMedia(r) ==    \* mutant: drop_extra_media forgotten
    When(r.location = New, "create_address") \o When("title" \in r.columns, "change_title")
      \o When(r.location # Null, "change_location") \o When("condition" \in r.columns, "change_condition")
      \o Times(r.media, "change_media")
ModifyListingTemplateMediaFirst(r) ==    \* mutant: the media before the columns
    Times(r.media, "change_media") \o When(r.media > 0, "drop_extra_media")
      \o When(r.location = New, "create_address") \o When("title" \in r.columns, "change_title")
      \o When(r.location # Null, "change_location") \o When("condition" \in r.columns, "change_condition")
ModifyListingTemplate(r) ==
    When(r.location = New, "create_address") \o When("title" \in r.columns, "change_title")
      \o When("description" \in r.columns, "change_description")
      \o When(r.location # Null, "change_location") \o When("category" \in r.columns, "change_category")
      \o When("condition" \in r.columns, "change_condition")
      \o Times(r.media, "change_media") \o When(r.media > 0, "drop_extra_media")

CloseListingTemplateLeavingConversations(r) == Query("close_listing")    \* mutant
CloseListingTemplate(r) == Query("close_listing") \o Query("close_conversations")

Build(r) ==
    CASE r.op = "create-account"      -> CreateAccountTemplate(r)
      [] r.op = "close-account"       -> CloseAccountTemplate(r)
      [] r.op = "modify-account"      -> ModifyAccountTemplate(r)
      [] r.op = "create-savedListing" -> Query("save_listing")
      [] r.op = "close-savedListing"  -> Query("forget_listing")
      [] r.op = "create-listing"      -> CreateListingTemplate(r)
      [] r.op = "modify-listing"      -> ModifyListingTemplate(r)
      [] r.op = "close-listing"       -> CloseListingTemplate(r)
      [] r.op = "create-conversation" -> Query("create_conversation")
      [] r.op = "close-conversation"  -> Query("close_conversation")
      [] r.op = "create-message"      -> Query("create_message")

(* from_query: the statement whose first row a statement needs. *)
Backreference(r, q) ==
    CASE q.query \in {"store_address", "insert_pfp"}                    -> {"create_account"}
      [] q.query = "insert_media"                                       -> {"create_listing"}
      [] q.query = "close_conversations" /\ r.op = "close-listing"      -> {"close_listing"}
      [] OTHER                                                          -> {}

(* The statements without RETURNING, and drop_from_results.                *)
Unreturning == {"close_listings", "close_conversations", "drop_extra_media"}
DropFromResults(op) ==
    CASE op = "create-account" -> {"store_address", "insert_pfp"}
      [] op = "close-account"  -> {"close_listings", "close_conversations"}
      [] op = "create-listing" -> {"create_address", "insert_media"}
      [] op = "close-listing"  -> {"close_conversations"}
      [] OTHER                 -> {}

(* SQLTemplate.prepareResults, given the names of the statements that      *)
(* returned a row; every template here sets error_on_empty_response.       *)
PrepareResults(op, returned) ==
    IF returned \subseteq DropFromResults(op) THEN "EmptyResponseError" ELSE "null"
-----------------------------------------------------------------------------
(* The statements themselves: s is the session, r its request, db the view *)
(* the statement is given.                                                 *)

AccountUpdates == {"close_account", "change_name", "change_email", "change_password", "change_dob"}
ListingUpdates == {"close_listing", "change_title", "change_description", "change_location",
                   "change_category", "change_condition"}
Upserts == {"change_pfp", "change_media", "create_conversation"}    \* ON CONFLICT DO UPDATE
PlainInserts == {"store_address", "create_address", "insert_pfp", "create_listing",
                 "insert_media", "save_listing", "create_message"}
Inserts == Upserts \cup PlainInserts \cup {"create_account"}         \* ON CONFLICT DO NOTHING
Statements == AccountUpdates \cup ListingUpdates \cup Inserts
                \cup {"close_listings", "close_conversations", "close_conversation",
                      "forget_listing", "drop_extra_media"}

AddressOf(s, r) == IF r.location = New THEN s ELSE r.location

InsertedKey(s, r, q) ==
    CASE q.query = "create_account"                      -> <<"account", s>>
      [] q.query \in {"store_address", "create_address"} -> <<"address", s>>
      [] q.query = "insert_pfp"                          -> <<"picture", s>>
      [] q.query = "change_pfp"                          -> <<"picture", r.actor>>
      [] q.query = "create_listing"                      -> <<"listing", s>>
      [] q.query = "insert_media"                        -> <<"media", s, q.index>>
      [] q.query = "change_media"                        -> <<"media", r.listing, q.index>>
      [] q.query = "save_listing"                        -> <<"saved", r.actor, r.listing>>
      [] q.query = "create_conversation"                 -> <<"conversation", r.actor, r.listing>>
      [] q.query = "create_message"                      -> <<"message", s>>

(* The conditions of create_conversation and create_message. *)
MayConverseWithAnyone(db, r) == IsOpenListing(db, r.listing)    \* mutant: ContributorID != $1 dropped
MayConverse(db, r) == IsOpenListing(db, r.listing) /\ ~Owns(db, r.actor, r.listing)

MayWrite(db, r) ==
    /\ r.conversation \in DOMAIN db /\ db[r.conversation].open
    /\ IsParty(db, r.actor, r.conversation)

(* INSERT ... SELECT: whether the SELECT yields its row. *)
SelectsSource(db, r, q) ==
    CASE q.query = "change_media"        -> Owns(db, r.actor, r.listing) /\ IsOpenListing(db, r.listing)
      [] q.query = "save_listing"        -> IsOpenListing(db, r.listing)
      [] q.query = "create_conversation" -> MayConverse(db, r)
      [] q.query = "create_message"      -> MayWrite(db, r)
      [] OTHER                           -> TRUE

(* The WHERE clause of an UPDATE or DELETE, for the existing row k. *)
Selects(db, r, q, k) ==
    CASE q.query \in AccountUpdates       -> k = <<"account", r.actor>> /\ db[k].open
      [] q.query \in ListingUpdates       -> k = <<"listing", r.listing>> /\ db[k].contributor = r.actor /\ db[k].open
      [] q.query = "close_listings"       -> k \in ListingKey /\ db[k].contributor = r.actor
      [] q.query = "close_conversations"  -> /\ k \in ConversationKey
                                             /\ IF r.op = "close-listing" THEN k[3] = r.listing
                                                ELSE IsParty(db, r.actor, k)
      [] q.query = "close_conversation"   -> k = r.conversation /\ db[k].open /\ IsParty(db, r.actor, k)
      [] q.query = "forget_listing"       -> k = <<"saved", r.actor, r.listing>>
      [] q.query = "drop_extra_media"     -> /\ k \in MediaKey /\ k[2] = r.listing /\ k[3] >= r.media
                                             /\ Owns(db, r.actor, r.listing) /\ IsOpenListing(db, r.listing)

(* The rows a statement sets out to write, fixed by its snapshot db. *)
Chosen(db, s, r, q) ==
    IF q.query \in Inserts THEN {k \in {InsertedKey(s, r, q)} : SelectsSource(db, r, q)}
    ELSE {k \in DOMAIN db : Selects(db, r, q, k)}

(* The part of the WHERE clause that READ COMMITTED re-evaluates on the    *)
(* latest version of a row: the other parts read columns nobody updates,   *)
(* or other tables, which stay as of the snapshot.                         *)
StillSelectsUnchecked(q, row) == TRUE    \* mutant: ClosedDate looked up first, UPDATE by id after
StillSelects(q, row) ==
    q.query \in AccountUpdates \cup ListingUpdates \cup {"close_conversation"} => row.open

ColumnOf(q) ==
    CASE q.query = "change_name"        -> "name"
      [] q.query = "change_dob"         -> "dob"
      [] q.query = "change_title"       -> "title"
      [] q.query = "change_description" -> "description"
      [] q.query = "change_category"    -> "category"
      [] q.query = "change_condition"   -> "condition"

(* The row a statement leaves under key k; NoRow deletes it. *)
Inserted(db, s, r, q, k) ==
    CASE q.query = "create_account" ->
           [open |-> TRUE, email |-> r.email, password |-> r.password,
            columns |-> [c \in AccountColumns |-> s]]
      [] q.query = "store_address"  -> [owner |-> s]
      [] q.query = "create_address" -> [owner |-> r.actor]
      [] q.query = "create_listing" ->
           [contributor |-> r.actor, open |-> TRUE, receiver |-> Null,
            address |-> AddressOf(s, r), columns |-> [c \in ListingColumns |-> s]]
      [] q.query = "save_listing"        -> [born |-> s]
      [] q.query = "create_conversation" -> [open |-> TRUE]
      [] q.query = "create_message"      -> [sender |-> r.actor, conversation |-> r.conversation]
      [] OTHER                           -> [born |-> IF k \in DOMAIN db THEN db[k].born ELSE s, url |-> s]

Updated(row, s, r, q) ==
    CASE q.query = "change_email"    -> [row EXCEPT !.email = r.email]
      [] q.query = "change_password" -> [row EXCEPT !.password = r.newPassword]
      [] q.query = "change_location" -> [row EXCEPT !.address = AddressOf(s, r)]
      [] q.query = "close_listing"   -> [row EXCEPT !.open = FALSE, !.receiver = r.receiver]
      [] q.query \in {"close_account", "close_listings", "close_conversations", "close_conversation"} ->
           [row EXCEPT !.open = FALSE]
      [] q.query \in {"forget_listing", "drop_extra_media"} -> NoRow
      [] OTHER                       -> [row EXCEPT !.columns[ColumnOf(q)] = s]

Written(db, s, r, q, k) ==
    IF q.query \in Inserts THEN Inserted(db, s, r, q, k) ELSE Updated(db[k], s, r, q)

EmailTakenUnchecked(db, e, k) == FALSE    \* mutant: Email without UNIQUE
EmailTaken(db, e, k) == \E j \in DOMAIN db \cap AccountKey : j # k /\ db[j].email = e

(* The constraint that a write to k breaks, as Pipeline.Store names it. *)
Violation(db, s, r, q, k) ==
    CASE q.query = "change_email" /\ EmailTaken(db, r.email, k)    -> "UniqueConstraintError"
      [] q.query \in Inserts \ Upserts /\ k \in DOMAIN db          -> "UniqueConstraintError"
      [] /\ q.query \in {"create_listing", "change_location"}
         /\ ~OwnsAddress(db, r.actor, AddressOf(s, r))             -> "ForeignKeyError"
      [] /\ q.query = "close_listing" /\ r.receiver # Null
         /\ <<"account", r.receiver>> \notin DOMAIN db             -> "ForeignKeyError"
      [] OTHER                                                     -> "null"

(* What the rows of a database owe to each other. *)
RowAgrees(db, k, row) ==
    /\ k \in ConversationKey => <<"listing", k[3]>> \in DOMAIN db /\ ~Owns(db, k[2], k[3])
    /\ k \in MessageKey => row.conversation \in DOMAIN db /\ IsParty(db, row.sender, row.conversation)
    /\ k \in ListingKey => OwnsAddress(db, row.contributor, row.address)

Agrees(db) == \A k \in DOMAIN db : RowAgrees(db, k, db[k])

(* The media of listing l, and whether they are those of one request, all  *)
(* of them and from index 0 on.                                            *)
MediaIn(db, l) == {k \in DOMAIN db \cap MediaKey : k[2] = l}
MediaWhole(db, l) ==
    /\ \A k \in MediaIn(db, l) : \A i \in 0..k[3] : <<"media", l, i>> \in DOMAIN db
    /\ \A j, k \in MediaIn(db, l) : db[j].url = db[k].url

(* Whether the row under key k bears the mark of session s: a serial       *)
(* number that s was given, or a stamp.  (Not every write leaves a mark:   *)
(* no closing does, nor a new email, password or address.)                 *)
Marks(k, row, s) ==
    \/ k[2] = s
    \/ k \in MediaKey \cup PictureKey /\ s \in {row.born, row.url}
    \/ k \in SavedListingKey /\ row.born = s
    \/ k \in AccountKey \cup ListingKey /\ \E c \in DOMAIN row.columns : row.columns[c] = s
-----------------------------------------------------------------------------
(* ResponseTemplate.getStatus with the maps of schemas/response-schemas.js *)

(* Unacknowledged is the QueryExecutionError of a COMMIT that took effect. *)
Errors == {"Unacknowledged", "EmptyResponseError", "BackreferenceError", "EmptyQueryError", "ForeignKeyError",
           "UniqueConstraintError", "InvalidCredentialsError", "TypeError", "QueryExecutionError"}

GetStatus(op, error) ==
    CASE error = "null" ->
           IF op \in {"create-account", "create-listing", "create-conversation", "create-message"}
           THEN 201 ELSE 200
      [] error = "EmptyResponseError" ->
           IF op = "create-account" THEN 409 ELSE IF op = "modify-account" THEN 403 ELSE 404
      [] error = "BackreferenceError"      -> IF op = "close-listing" THEN 404 ELSE 500
      [] error = "EmptyQueryError"         -> IF op \in {"modify-account", "modify-listing"} THEN 400 ELSE 500
      [] error = "ForeignKeyError"         -> 404
      [] error = "UniqueConstraintError"   -> 409
      [] error = "InvalidCredentialsError" -> 401
      [] OTHER                             -> 500
=============================================================================
