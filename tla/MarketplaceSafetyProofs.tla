---------------------- MODULE MarketplaceSafetyProofs -----------------------
(***************************************************************************)
(* The types of module Marketplace, and what its transactions may never do *)
(* to each other, for any sessions, menu, database and pool: no row is     *)
(* written by two of them at once, closed rows stay as they are, emails    *)
(* stay unique, and the tables stay in agreement.  It begins with lemmas   *)
(* about the operators of MarketplaceSchema: which statements a request    *)
(* has and in which order, which rows they aim at, that what they write    *)
(* are rows of the right table, and whose marks it bears.                  *)
(***************************************************************************)
EXTENDS Marketplace, SequenceTheorems, TLAPS

(* A key says which table it is of, and what its rows look like. *)
LEMMA KeyKinds ==
    \A k \in Key :
        /\ k \in AccountKey      <=> k[1] = "account"
        /\ k \in AddressKey      <=> k[1] = "address"
        /\ k \in ListingKey      <=> k[1] = "listing"
        /\ k \in ConversationKey <=> k[1] = "conversation"
        /\ k \in MessageKey      <=> k[1] = "message"
        /\ k \in SavedListingKey <=> k[1] = "saved"
        /\ k \in PictureKey      <=> k[1] = "picture"
        /\ k \in MediaKey        <=> k[1] = "media"
BY DEF Key, AccountKey, AddressKey, ListingKey, ConversationKey, MessageKey, SavedListingKey, PictureKey, MediaKey

(* The table of a key decides the rows that may be under it. *)
LEMMA RowKinds ==
    \A k \in Key :
        /\ k \in AccountKey            => RowOf(k) = AccountRow
        /\ k \in AddressKey            => RowOf(k) = AddressRow
        /\ k \in ListingKey            => RowOf(k) = ListingRow
        /\ k \in ConversationKey       => RowOf(k) = ConversationRow
        /\ k \in MessageKey            => RowOf(k) = MessageRow
        /\ k \in SavedListingKey       => RowOf(k) = SavedListingRow
        /\ k \in PictureKey \cup MediaKey => RowOf(k) = MediaRow
BY KeyKinds DEF RowOf

(* The rows of every table are among the rows. *)
LEMMA RowsAreRows == \A k \in Key : RowOf(k) \subseteq Row
BY RowKinds DEF Row, Key

(* The operation of a request says which fields it has. *)
LEMMA RequestKinds ==
    \A r \in Request :
        \/ r.op = "create-account" /\ r \in CreateAccountRequest
        \/ r.op = "close-account" /\ r \in CloseAccountRequest
        \/ r.op = "modify-account" /\ r \in ModifyAccountRequest
        \/ r.op \in {"create-savedListing", "close-savedListing"} /\ r \in SavedListingRequest
        \/ r.op = "create-listing" /\ r \in CreateListingRequest
        \/ r.op = "modify-listing" /\ r \in ModifyListingRequest
        \/ r.op = "close-listing" /\ r \in CloseListingRequest
        \/ r.op = "create-conversation" /\ r \in CreateConversationRequest
        \/ r.op \in {"close-conversation", "create-message"} /\ r \in ConversationRequest
BY DEF Request, CreateAccountRequest, CloseAccountRequest, ModifyAccountRequest, SavedListingRequest,
       CreateListingRequest, ModifyListingRequest, CloseListingRequest, CreateConversationRequest, ConversationRequest
-----------------------------------------------------------------------------
(* The statements that the template of an operation can have. *)
Names(op) ==
    CASE op = "create-account"      -> {"create_account", "store_address", "insert_pfp"}
      [] op = "close-account"       -> {"close_account", "close_listings", "close_conversations"}
      [] op = "modify-account"      -> {"change_name", "change_email", "change_password", "change_dob", "change_pfp"}
      [] op = "create-savedListing" -> {"save_listing"}
      [] op = "close-savedListing"  -> {"forget_listing"}
      [] op = "create-listing"      -> {"create_address", "create_listing", "insert_media"}
      [] op = "modify-listing"      -> {"create_address", "change_title", "change_description", "change_location",
                                        "change_category", "change_condition", "change_media", "drop_extra_media"}
      [] op = "close-listing"       -> {"close_listing", "close_conversations"}
      [] op = "create-conversation" -> {"create_conversation"}
      [] op = "close-conversation"  -> {"close_conversation"}
      [] op = "create-message"      -> {"create_message"}

(* A statement of request r, as build lists it: the conditions that the    *)
(* types of its parameters rest on.                                        *)
HasParameters(r, name) ==
    /\ name = "change_email"    => r.email # Null
    /\ name = "change_password" => r.newPassword # Null
    /\ name = "change_location" => r.location # Null
    /\ name = "create_address"  => r.location = New

StatementOf(r) ==
    {q \in [query: Names(r.op), index: Nat] :
        /\ q.query \in {"insert_media", "change_media"} => q.index \in MediaIndex
        /\ HasParameters(r, q.query)}

(* The pieces that templates are put together from are such lists. *)
LEMMA Pieces ==
    ASSUME NEW T
    PROVE  /\ \A name : [query |-> name, index |-> 0] \in T => Query(name) \in Seq(T)
           /\ <<>> \in Seq(T)
           /\ \A n \in Nat : \A name :
                (\A i \in 0..(n - 1) : [query |-> name, index |-> i] \in T) => Times(n, name) \in Seq(T)
           /\ \A s, t \in Seq(T) : s \o t \in Seq(T)
<1>1. \A name : [query |-> name, index |-> 0] \in T => Query(name) \in Seq(T)
  BY DEF Query
<1>2. <<>> \in Seq(T)
  OBVIOUS
<1>3. ASSUME NEW n \in Nat, NEW name, \A i \in 0..(n - 1) : [query |-> name, index |-> i] \in T
      PROVE  Times(n, name) \in Seq(T)
  <2>1. \A i \in 1..n : i - 1 \in 0..(n - 1)
    OBVIOUS
  <2>2. [i \in 1..n |-> [query |-> name, index |-> i - 1]] \in [1..n -> T]
    BY <1>3, <2>1
  <2> QED BY <2>2, SeqDef DEF Times
<1> QED BY <1>1, <1>2, <1>3, ConcatProperties

(* build lists statements of the request's own template, and for media     *)
(* indexes that a row can have.                                            *)
LEMMA BuildType == \A r \in Request : Build(r) \in Seq(StatementOf(r))
<1> SUFFICES ASSUME NEW r \in Request PROVE Build(r) \in Seq(StatementOf(r))
  OBVIOUS
<1> DEFINE T == StatementOf(r)
           ok(name) == [query |-> name, index |-> 0] \in T
<1>n. \A name \in Names(r.op) :
        name \notin {"insert_media", "change_media"} /\ HasParameters(r, name) => ok(name)
  BY DEF StatementOf
<1>m. ASSUME NEW name \in Names(r.op) \cap {"insert_media", "change_media"}, NEW n \in 0..MaxMedia
      PROVE  \A i \in 0..(n - 1) : [query |-> name, index |-> i] \in T
  <2> SUFFICES ASSUME NEW i \in 0..(n - 1) PROVE [query |-> name, index |-> i] \in T
    OBVIOUS
  <2>1. i \in Nat /\ i \in MediaIndex
    BY SchemaAssumption DEF MediaIndex
  <2> QED BY <2>1 DEF StatementOf, HasParameters
<1>q. \A name : ok(name) => Query(name) \in Seq(T)
  BY Pieces
<1>e. <<>> \in Seq(T)
  BY Pieces
<1>t. \A n \in 0..MaxMedia, name \in Names(r.op) \cap {"insert_media", "change_media"} : Times(n, name) \in Seq(T)
  BY <1>m, Pieces, SchemaAssumption
<1>c. \A s, t \in Seq(T) : s \o t \in Seq(T)
  BY Pieces
<1> HIDE DEF T, ok
<1>1. CASE r.op = "create-account"
  <2>0. Names(r.op) = {"create_account", "store_address", "insert_pfp"}
    BY <1>1 DEF Names
  <2>1. /\ Query("create_account") \in Seq(T)
        /\ When(r.address, "store_address") \in Seq(T)
        /\ When(r.picture, "insert_pfp") \in Seq(T)
    BY <1>n, <1>q, <2>0, <1>e DEF When, HasParameters
  <2> QED BY <1>1, <1>c, <2>1 DEF Build, CreateAccountTemplate, T
<1>2. CASE r.op = "close-account"
  <2>0. Names(r.op) = {"close_account", "close_listings", "close_conversations"}
    BY <1>2 DEF Names
  <2>1. /\ Query("close_account") \in Seq(T)
        /\ Query("close_listings") \in Seq(T)
        /\ Query("close_conversations") \in Seq(T)
    BY <1>n, <1>q, <2>0 DEF HasParameters
  <2> QED BY <1>2, <1>c, <2>1 DEF Build, CloseAccountTemplate, T
<1>3. CASE r.op = "modify-account"
  <2>0. Names(r.op) = {"change_name", "change_email", "change_password", "change_dob", "change_pfp"}
    BY <1>3 DEF Names
  <2>1. /\ When("name" \in r.columns, "change_name") \in Seq(T)
        /\ When(r.email # Null, "change_email") \in Seq(T)
        /\ When(r.newPassword # Null, "change_password") \in Seq(T)
        /\ When("dob" \in r.columns, "change_dob") \in Seq(T)
        /\ When(r.picture, "change_pfp") \in Seq(T)
    BY <1>n, <1>q, <2>0, <1>e DEF When, HasParameters
  <2> QED BY <1>3, <1>c, <2>1 DEF Build, ModifyAccountTemplate, T
<1>4. CASE r.op = "create-savedListing"
  <2>0. Names(r.op) = {"save_listing"}
    BY <1>4 DEF Names
  <2>1. Query("save_listing") \in Seq(T)
    BY <1>n, <1>q, <2>0 DEF HasParameters
  <2> QED BY <1>4, <1>c, <2>1 DEF Build, T
<1>5. CASE r.op = "close-savedListing"
  <2>0. Names(r.op) = {"forget_listing"}
    BY <1>5 DEF Names
  <2>1. Query("forget_listing") \in Seq(T)
    BY <1>n, <1>q, <2>0 DEF HasParameters
  <2> QED BY <1>5, <1>c, <2>1 DEF Build, T
<1>6. CASE r.op = "create-listing"
  <2>0. Names(r.op) = {"create_address", "create_listing", "insert_media"}
    BY <1>6 DEF Names
  <2>b. r.media \in 0..MaxMedia
    BY <1>6, RequestKinds DEF CreateListingRequest
  <2>1. /\ When(r.location = New, "create_address") \in Seq(T)
        /\ Query("create_listing") \in Seq(T)
        /\ Times(r.media, "insert_media") \in Seq(T)
    BY <1>n, <1>q, <2>0, <1>e, <1>t, <2>b DEF When, HasParameters
  <2> QED BY <1>6, <1>c, <2>1 DEF Build, CreateListingTemplate, T
<1>7. CASE r.op = "modify-listing"
  <2>0. Names(r.op) = {"create_address", "change_title", "change_description", "change_location", "change_category", "change_condition", "change_media", "drop_extra_media"}
    BY <1>7 DEF Names
  <2>b. r.media \in 0..MaxMedia
    BY <1>7, RequestKinds DEF ModifyListingRequest
  <2>1. /\ When(r.location = New, "create_address") \in Seq(T)
        /\ When("title" \in r.columns, "change_title") \in Seq(T)
        /\ When("description" \in r.columns, "change_description") \in Seq(T)
        /\ When(r.location # Null, "change_location") \in Seq(T)
        /\ When("category" \in r.columns, "change_category") \in Seq(T)
        /\ When("condition" \in r.columns, "change_condition") \in Seq(T)
        /\ Times(r.media, "change_media") \in Seq(T)
        /\ When(r.media > 0, "drop_extra_media") \in Seq(T)
    BY <1>n, <1>q, <2>0, <1>e, <1>t, <2>b DEF When, HasParameters
  <2> QED BY <1>7, <1>c, <2>1 DEF Build, ModifyListingTemplate, T
<1>8. CASE r.op = "close-listing"
  <2>0. Names(r.op) = {"close_listing", "close_conversations"}
    BY <1>8 DEF Names
  <2>1. /\ Query("close_listing") \in Seq(T)
        /\ Query("close_conversations") \in Seq(T)
    BY <1>n, <1>q, <2>0 DEF HasParameters
  <2> QED BY <1>8, <1>c, <2>1 DEF Build, CloseListingTemplate, T
<1>9. CASE r.op = "create-conversation"
  <2>0. Names(r.op) = {"create_conversation"}
    BY <1>9 DEF Names
  <2>1. Query("create_conversation") \in Seq(T)
    BY <1>n, <1>q, <2>0 DEF HasParameters
  <2> QED BY <1>9, <1>c, <2>1 DEF Build, T
<1>10. CASE r.op = "close-conversation"
  <2>0. Names(r.op) = {"close_conversation"}
    BY <1>10 DEF Names
  <2>1. Query("close_conversation") \in Seq(T)
    BY <1>n, <1>q, <2>0 DEF HasParameters
  <2> QED BY <1>10, <1>c, <2>1 DEF Build, T
<1>11. CASE r.op = "create-message"
  <2>0. Names(r.op) = {"create_message"}
    BY <1>11 DEF Names
  <2>1. Query("create_message") \in Seq(T)
    BY <1>n, <1>q, <2>0 DEF HasParameters
  <2> QED BY <1>11, <1>c, <2>1 DEF Build, T
<1> QED BY <1>1, <1>2, <1>3, <1>4, <1>5, <1>6, <1>7, <1>8, <1>9, <1>10, <1>11, RequestKinds
-----------------------------------------------------------------------------
(* A statement says which requests it can be of. *)
LEMMA StatementKinds ==
    ASSUME NEW r \in Request, NEW q \in StatementOf(r)
    PROVE  /\ q.query \in {"create_account", "store_address", "insert_pfp"} => r \in CreateAccountRequest
           /\ q.query \in {"close_account", "close_listings"} => r \in CloseAccountRequest
           /\ q.query \in {"change_name", "change_email", "change_password", "change_dob", "change_pfp"}
                => r \in ModifyAccountRequest
           /\ q.query \in {"save_listing", "forget_listing"} => r \in SavedListingRequest
           /\ q.query \in {"create_listing", "insert_media"} => r \in CreateListingRequest
           /\ q.query = "create_address" => r \in CreateListingRequest \cup ModifyListingRequest
           /\ q.query \in {"change_title", "change_description", "change_location", "change_category",
                           "change_condition", "change_media", "drop_extra_media"} => r \in ModifyListingRequest
           /\ q.query = "close_listing" => r \in CloseListingRequest
           /\ q.query = "close_conversations" => r \in CloseListingRequest \cup CloseAccountRequest
           /\ q.query = "create_conversation" => r \in CreateConversationRequest
           /\ q.query \in {"close_conversation", "create_message"} => r \in ConversationRequest
           /\ q.query \in {"insert_media", "change_media"} => q.index \in MediaIndex
           /\ q.query \in Statements
           /\ HasParameters(r, q.query)
<1>1. q.query \in Names(r.op) /\ HasParameters(r, q.query) /\ (q.query \in {"insert_media", "change_media"} => q.index \in MediaIndex)
  BY DEF StatementOf
<1>2. /\ r.op = "create-account" => Names(r.op) = {"create_account", "store_address", "insert_pfp"}
      /\ r.op = "close-account" => Names(r.op) = {"close_account", "close_listings", "close_conversations"}
      /\ r.op = "modify-account" =>
           Names(r.op) = {"change_name", "change_email", "change_password", "change_dob", "change_pfp"}
      /\ r.op = "create-savedListing" => Names(r.op) = {"save_listing"}
      /\ r.op = "close-savedListing" => Names(r.op) = {"forget_listing"}
      /\ r.op = "create-listing" => Names(r.op) = {"create_address", "create_listing", "insert_media"}
      /\ r.op = "modify-listing" =>
           Names(r.op) = {"create_address", "change_title", "change_description", "change_location",
                          "change_category", "change_condition", "change_media", "drop_extra_media"}
      /\ r.op = "close-listing" => Names(r.op) = {"close_listing", "close_conversations"}
      /\ r.op = "create-conversation" => Names(r.op) = {"create_conversation"}
      /\ r.op = "close-conversation" => Names(r.op) = {"close_conversation"}
      /\ r.op = "create-message" => Names(r.op) = {"create_message"}
  BY DEF Names
<1> QED BY <1>1, <1>2, RequestKinds
        DEF Statements, AccountUpdates, ListingUpdates, Inserts, Upserts, PlainInserts

(* The rows that a statement may aim at. *)
Aims(s, r, q) ==
    IF q.query \in Inserts THEN {InsertedKey(s, r, q)}
    ELSE {k \in Key :
            /\ q.query \in AccountUpdates => k = <<"account", r.actor>>
            /\ q.query \in ListingUpdates => k = <<"listing", r.listing>>
            /\ q.query = "close_listings" => k \in ListingKey
            /\ q.query \in {"close_conversations", "close_conversation"} => k \in ConversationKey
            /\ q.query = "forget_listing" => k \in SavedListingKey
            /\ q.query = "drop_extra_media" => k \in MediaKey /\ k[2] = r.listing}

(* Each INSERT makes a key of its own table. *)
LEMMA InsertedKeys ==
    ASSUME NEW s \in Sessions, NEW r \in Request, NEW q \in StatementOf(r)
    PROVE  /\ q.query = "create_account" =>
                InsertedKey(s, r, q) = <<"account", s>> /\ InsertedKey(s, r, q) \in AccountKey
           /\ q.query \in {"store_address", "create_address"} =>
                InsertedKey(s, r, q) = <<"address", s>> /\ InsertedKey(s, r, q) \in AddressKey
           /\ q.query \in {"insert_pfp", "change_pfp"} => InsertedKey(s, r, q) \in PictureKey
           /\ q.query = "create_listing" =>
                InsertedKey(s, r, q) = <<"listing", s>> /\ InsertedKey(s, r, q) \in ListingKey
           /\ q.query \in {"insert_media", "change_media"} => InsertedKey(s, r, q) \in MediaKey
           /\ q.query = "save_listing" => InsertedKey(s, r, q) \in SavedListingKey
           /\ q.query = "create_conversation" => InsertedKey(s, r, q) \in ConversationKey
           /\ q.query = "create_message" =>
                InsertedKey(s, r, q) = <<"message", s>> /\ InsertedKey(s, r, q) \in MessageKey
<1>1. /\ q.query = "create_account" => InsertedKey(s, r, q) = <<"account", s>>
      /\ q.query \in {"store_address", "create_address"} => InsertedKey(s, r, q) = <<"address", s>>
      /\ q.query = "insert_pfp" => InsertedKey(s, r, q) = <<"picture", s>>
      /\ q.query = "change_pfp" => InsertedKey(s, r, q) = <<"picture", r.actor>>
      /\ q.query = "create_listing" => InsertedKey(s, r, q) = <<"listing", s>>
      /\ q.query = "insert_media" => InsertedKey(s, r, q) = <<"media", s, q.index>>
      /\ q.query = "change_media" => InsertedKey(s, r, q) = <<"media", r.listing, q.index>>
      /\ q.query = "save_listing" => InsertedKey(s, r, q) = <<"saved", r.actor, r.listing>>
      /\ q.query = "create_conversation" => InsertedKey(s, r, q) = <<"conversation", r.actor, r.listing>>
      /\ q.query = "create_message" => InsertedKey(s, r, q) = <<"message", s>>
  BY DEF InsertedKey
<1>2. /\ q.query = "change_pfp" => r.actor \in AccountID
      /\ q.query = "change_media" => r.listing \in ListingID
      /\ q.query = "save_listing" => r.actor \in AccountID /\ r.listing \in ListingID
      /\ q.query = "create_conversation" => r.actor \in AccountID /\ r.listing \in ListingID
      /\ q.query \in {"insert_media", "change_media"} => q.index \in MediaIndex
  BY StatementKinds DEF ModifyAccountRequest, ModifyListingRequest, SavedListingRequest, CreateConversationRequest
<1> QED BY <1>1, <1>2 DEF AccountID, ListingID, AddressID, AccountKey, AddressKey, ListingKey,
      ConversationKey, MessageKey, SavedListingKey, PictureKey, MediaKey

(* What a statement aims at are keys. *)
LEMMA AimsAreKeys ==
    ASSUME NEW s \in Sessions, NEW r \in Request, NEW q \in StatementOf(r)
    PROVE  Aims(s, r, q) \subseteq Key
<1>1. CASE q.query \in Inserts
  BY <1>1, InsertedKeys DEF Aims, Inserts, Upserts, PlainInserts, Key
<1>2. CASE q.query \notin Inserts
  BY <1>2 DEF Aims
<1> QED BY <1>1, <1>2

(* A statement chooses such rows; all but an INSERT choose existing ones.  *)
LEMMA ChosenAims ==
    ASSUME NEW s \in Sessions, NEW r \in Request, NEW q \in StatementOf(r), NEW db, IsDatabase(db)
    PROVE  /\ Chosen(db, s, r, q) \subseteq Aims(s, r, q)
           /\ q.query \notin Inserts => Chosen(db, s, r, q) \subseteq DOMAIN db
<1>1. CASE q.query \in Inserts
  BY <1>1 DEF Chosen, Aims
<1>2. CASE q.query \notin Inserts
  <2> SUFFICES ASSUME NEW k \in DOMAIN db, Selects(db, r, q, k)
               PROVE  k \in Aims(s, r, q)
    BY <1>2 DEF Chosen
  <2>1. k \in Key
    BY DEF IsDatabase
  <2>2. q.query \in {"close_conversation"} => r.conversation \in ConversationKey
    BY StatementKinds DEF ConversationRequest
  <2>3. q.query = "forget_listing" => <<"saved", r.actor, r.listing>> \in SavedListingKey
    BY StatementKinds DEF SavedListingRequest, SavedListingKey
  <2>4. /\ q.query \in AccountUpdates => k = <<"account", r.actor>>
        /\ q.query \in ListingUpdates => k = <<"listing", r.listing>>
        /\ q.query = "close_listings" => k \in ListingKey
        /\ q.query = "close_conversations" => k \in ConversationKey
        /\ q.query = "close_conversation" => k = r.conversation
        /\ q.query = "forget_listing" => k = <<"saved", r.actor, r.listing>>
        /\ q.query = "drop_extra_media" => k \in MediaKey /\ k[2] = r.listing
    BY DEF Selects, AccountUpdates, ListingUpdates
  <2> QED BY <1>2, <2>1, <2>2, <2>3, <2>4 DEF Aims
<1> QED BY <1>1, <1>2

(* What an INSERT writes is a row of its table. *)
LEMMA InsertedType ==
    ASSUME NEW s \in Sessions, NEW r \in Request, NEW q \in StatementOf(r), q.query \in Inserts,
           NEW db, IsDatabase(db)
    PROVE  Inserted(db, s, r, q, InsertedKey(s, r, q)) \in RowOf(InsertedKey(s, r, q))
<1> DEFINE k == InsertedKey(s, r, q)
           row == Inserted(db, s, r, q, k)
<1>1. k \in Key
  BY AimsAreKeys DEF Aims
<1>2. CASE q.query = "create_account"
  <2>1. r.email \in Emails /\ r.password \in Passwords
    BY <1>2, StatementKinds DEF CreateAccountRequest
  <2>2. row = [open |-> TRUE, email |-> r.email, password |-> r.password, columns |-> [c \in AccountColumns |-> s]]
    BY <1>2 DEF Inserted
  <2>3. row \in AccountRow
    BY <2>1, <2>2 DEF AccountRow, Stamp
  <2> QED BY <1>1, <1>2, <2>3, InsertedKeys, RowKinds
<1>3. CASE q.query = "store_address"
  BY <1>1, <1>3, InsertedKeys, RowKinds DEF Inserted, AddressRow, AccountID
<1>4. CASE q.query = "create_address"
  <2>1. r.actor \in AccountID
    BY <1>4, StatementKinds DEF CreateListingRequest, ModifyListingRequest
  <2> QED BY <1>1, <1>4, <2>1, InsertedKeys, RowKinds DEF Inserted, AddressRow
<1>5. CASE q.query = "create_listing"
  <2>1. r.actor \in AccountID /\ r.location \in AddressID \cup {New}
    BY <1>5, StatementKinds DEF CreateListingRequest
  <2>2. AddressOf(s, r) \in AddressID
    BY <2>1 DEF AddressOf, AddressID
  <2>3. row = [contributor |-> r.actor, open |-> TRUE, receiver |-> Null, address |-> AddressOf(s, r),
               columns |-> [c \in ListingColumns |-> s]]
    BY <1>5 DEF Inserted
  <2>4. row \in ListingRow
    BY <2>1, <2>2, <2>3 DEF ListingRow, Stamp
  <2> QED BY <1>1, <1>5, <2>4, InsertedKeys, RowKinds
<1>6. CASE q.query = "save_listing"
  BY <1>1, <1>6, InsertedKeys, RowKinds DEF Inserted, SavedListingRow, Stamp
<1>7. CASE q.query = "create_conversation"
  BY <1>1, <1>7, InsertedKeys, RowKinds DEF Inserted, ConversationRow
<1>8. CASE q.query = "create_message"
  <2>1. r.actor \in AccountID /\ r.conversation \in ConversationKey
    BY <1>8, StatementKinds DEF ConversationRequest
  <2>2. row = [sender |-> r.actor, conversation |-> r.conversation]
    BY <1>8 DEF Inserted
  <2>3. row \in MessageRow
    BY <2>1, <2>2 DEF MessageRow, ConversationKey
  <2> QED BY <1>1, <1>8, <2>3, InsertedKeys, RowKinds
<1>9. CASE q.query \in {"insert_pfp", "change_pfp", "insert_media", "change_media"}
  <2>1. RowOf(k) = MediaRow
    BY <1>1, <1>9, InsertedKeys, RowKinds
  <2>2. row = [born |-> IF k \in DOMAIN db THEN db[k].born ELSE s, url |-> s]
    BY <1>9 DEF Inserted
  <2>3. k \in DOMAIN db => db[k].born \in Stamp
    <3> SUFFICES ASSUME k \in DOMAIN db PROVE db[k].born \in Stamp
      OBVIOUS
    <3>1. db[k] \in MediaRow
      BY <2>1 DEF IsDatabase
    <3> QED BY <3>1 DEF MediaRow
  <2>4. row \in MediaRow
    BY <2>2, <2>3 DEF MediaRow, Stamp
  <2> QED BY <2>1, <2>4
<1> QED BY <1>2, <1>3, <1>4, <1>5, <1>6, <1>7, <1>8, <1>9 DEF Inserts, Upserts, PlainInserts

(* Rows with a column changed. *)
LEMMA ChangedRows ==
    /\ \A row \in AccountRow :
         /\ \A e \in Emails : [row EXCEPT !.email = e] \in AccountRow
         /\ \A p \in Passwords : [row EXCEPT !.password = p] \in AccountRow
         /\ [row EXCEPT !.open = FALSE] \in AccountRow
         /\ \A c \in AccountColumns, s \in Sessions : [row EXCEPT !.columns[c] = s] \in AccountRow
    /\ \A row \in ListingRow :
         /\ \A d \in AddressID : [row EXCEPT !.address = d] \in ListingRow
         /\ \A a \in AccountID \cup {Null} : [row EXCEPT !.open = FALSE, !.receiver = a] \in ListingRow
         /\ [row EXCEPT !.open = FALSE] \in ListingRow
         /\ \A c \in ListingColumns, s \in Sessions : [row EXCEPT !.columns[c] = s] \in ListingRow
    /\ \A row \in ConversationRow : [row EXCEPT !.open = FALSE] \in ConversationRow
BY DEF AccountRow, ListingRow, ConversationRow, Stamp

(* What an UPDATE leaves is a row of the same table; a DELETE leaves none. *)
LEMMA UpdatedType ==
    ASSUME NEW s \in Sessions, NEW r \in Request, NEW q \in StatementOf(r), q.query \notin Inserts,
           NEW k \in Aims(s, r, q), NEW row \in RowOf(k)
    PROVE  IF q.query \in {"forget_listing", "drop_extra_media"} THEN Updated(row, s, r, q) = NoRow
           ELSE Updated(row, s, r, q) \in RowOf(k)
<1> DEFINE new == Updated(row, s, r, q)
<1>1. k \in Key
  BY AimsAreKeys
<1>2. q.query \in AccountUpdates => k \in AccountKey /\ RowOf(k) = AccountRow
  BY <1>1, KeyKinds, RowKinds DEF Aims
<1>3. q.query \in ListingUpdates => k \in ListingKey /\ RowOf(k) = ListingRow
  BY <1>1, KeyKinds, RowKinds DEF Aims
<1> SUFFICES IF q.query \in {"forget_listing", "drop_extra_media"} THEN new = NoRow ELSE new \in RowOf(k)
  OBVIOUS
<1> HIDE DEF new
<1>4. CASE q.query = "change_email"
  <2>1. r.email \in Emails
    BY <1>4, StatementKinds DEF ModifyAccountRequest, HasParameters
  <2>2. new = [row EXCEPT !.email = r.email]
    BY <1>4 DEF new, Updated
  <2>3. row \in AccountRow /\ RowOf(k) = AccountRow
    BY <1>2, <1>4 DEF AccountUpdates
  <2> QED BY <1>4, <2>1, <2>2, <2>3, ChangedRows
<1>5. CASE q.query = "change_password"
  <2>1. r.newPassword \in Passwords
    BY <1>5, StatementKinds DEF ModifyAccountRequest, HasParameters
  <2>2. new = [row EXCEPT !.password = r.newPassword]
    BY <1>5 DEF new, Updated
  <2>3. row \in AccountRow /\ RowOf(k) = AccountRow
    BY <1>2, <1>5 DEF AccountUpdates
  <2> QED BY <1>5, <2>1, <2>2, <2>3, ChangedRows
<1>6. CASE q.query = "change_location"
  <2>1. AddressOf(s, r) \in AddressID
    BY <1>6, StatementKinds DEF ModifyListingRequest, HasParameters, AddressOf, AddressID
  <2>2. new = [row EXCEPT !.address = AddressOf(s, r)]
    BY <1>6 DEF new, Updated
  <2>3. row \in ListingRow /\ RowOf(k) = ListingRow
    BY <1>3, <1>6 DEF ListingUpdates
  <2> QED BY <1>6, <2>1, <2>2, <2>3, ChangedRows
<1>7. CASE q.query = "close_listing"
  <2>1. r.receiver \in AccountID \cup {Null}
    BY <1>7, StatementKinds DEF CloseListingRequest
  <2>2. new = [row EXCEPT !.open = FALSE, !.receiver = r.receiver]
    BY <1>7 DEF new, Updated
  <2>3. row \in ListingRow /\ RowOf(k) = ListingRow
    BY <1>3, <1>7 DEF ListingUpdates
  <2>4. new \in ListingRow
    BY <2>1, <2>2, <2>3 DEF ListingRow
  <2> QED BY <1>7, <2>3, <2>4
<1>8. CASE q.query \in {"close_account", "close_listings", "close_conversations", "close_conversation"}
  <2>1. RowOf(k) \in {AccountRow, ListingRow, ConversationRow}
    BY <1>1, <1>2, <1>8, RowKinds DEF Aims, AccountUpdates, Inserts, Upserts, PlainInserts
  <2>2. new = [row EXCEPT !.open = FALSE]
    BY <1>8 DEF new, Updated
  <2> QED BY <1>8, <2>1, <2>2, ChangedRows
<1>9. CASE q.query \in {"forget_listing", "drop_extra_media"}
  BY <1>9 DEF new, Updated
<1>10. CASE q.query \in {"change_name", "change_dob"}
  <2>1. ColumnOf(q) \in AccountColumns
    BY <1>10 DEF ColumnOf, AccountColumns
  <2>2. new = [row EXCEPT !.columns[ColumnOf(q)] = s]
    BY <1>10 DEF new, Updated
  <2>3. row \in AccountRow /\ RowOf(k) = AccountRow
    BY <1>2, <1>10 DEF AccountUpdates
  <2>4. new \in AccountRow
    BY <2>1, <2>2, <2>3 DEF AccountRow, Stamp
  <2> QED BY <1>10, <2>3, <2>4
<1>11. CASE q.query \in {"change_title", "change_description", "change_category", "change_condition"}
  <2>1. ColumnOf(q) \in ListingColumns
    BY <1>11 DEF ColumnOf, ListingColumns
  <2>2. new = [row EXCEPT !.columns[ColumnOf(q)] = s]
    BY <1>11 DEF new, Updated
  <2>3. row \in ListingRow /\ RowOf(k) = ListingRow
    BY <1>3, <1>11 DEF ListingUpdates
  <2>4. new \in ListingRow
    BY <2>1, <2>2, <2>3 DEF ListingRow, Stamp
  <2> QED BY <1>11, <2>3, <2>4
<1> QED BY <1>4, <1>5, <1>6, <1>7, <1>8, <1>9, <1>10, <1>11, StatementKinds
        DEF Statements, AccountUpdates, ListingUpdates

(* What a statement writes is a row of the right table, or none. *)
LEMMA WrittenType ==
    ASSUME NEW s \in Sessions, NEW r \in Request, NEW q \in StatementOf(r), NEW db, IsDatabase(db),
           NEW k \in Aims(s, r, q), q.query \in Inserts \/ k \in DOMAIN db
    PROVE  Written(db, s, r, q, k) \in RowOf(k) \cup {NoRow}
<1>1. CASE q.query \in Inserts
  BY <1>1, InsertedType DEF Written, Aims
<1>2. CASE q.query \notin Inserts
  BY <1>2, UpdatedType DEF Written, IsDatabase
<1> QED BY <1>1, <1>2

(* A broken constraint is one of the errors that Pipeline.Store answers *)
(* with.                                                                *)
LEMMA ViolationType ==
    ASSUME NEW db, NEW s, NEW r, NEW q, NEW k
    PROVE  Violation(db, s, r, q, k) \in (Errors \ {"Unacknowledged"}) \cup {"null"}
BY DEF Violation, Errors

(* What an UPDATE keeps of the row, and what it sets: an account keeps its *)
(* email but under change_email, a listing its contributor always, and its *)
(* address but under change_location.                                      *)
LEMMA UpdatedKeeps ==
    ASSUME NEW s \in Sessions, NEW r \in Request, NEW q \in StatementOf(r), q.query \notin Inserts,
           NEW k \in Aims(s, r, q), NEW row \in RowOf(k)
    PROVE  LET new == Updated(row, s, r, q) IN
           /\ k \in AccountKey =>
                /\ q.query \in AccountUpdates
                /\ new.email = IF q.query = "change_email" THEN r.email ELSE row.email
           /\ k \in ListingKey =>
                /\ q.query \in ListingUpdates \cup {"close_listings"}
                /\ new.contributor = row.contributor
                /\ new.address = IF q.query = "change_location" THEN AddressOf(s, r) ELSE row.address
                /\ q.query = "close_listings" /\ ~row.open => new = row
           /\ k \notin AddressKey \cup MessageKey \cup PictureKey
<1> DEFINE new == Updated(row, s, r, q)
<1>1. k \in Key
  BY AimsAreKeys
<1>2. /\ q.query \in AccountUpdates => k \in AccountKey
      /\ q.query \in ListingUpdates => k \in ListingKey
      /\ q.query = "close_listings" => k \in ListingKey
      /\ q.query \in {"close_conversations", "close_conversation"} => k \in ConversationKey
      /\ q.query = "forget_listing" => k \in SavedListingKey
      /\ q.query = "drop_extra_media" => k \in MediaKey
  BY <1>1, KeyKinds DEF Aims
<1>3. q.query \in AccountUpdates \cup ListingUpdates
        \cup {"close_listings", "close_conversations", "close_conversation", "forget_listing", "drop_extra_media"}
  BY StatementKinds DEF Statements
<1>4. k \notin AddressKey \cup MessageKey \cup PictureKey
  BY <1>1, <1>2, <1>3, KeyKinds
<1>5. k \in AccountKey => q.query \in AccountUpdates
  BY <1>1, <1>2, <1>3, KeyKinds
<1>6. k \in ListingKey => q.query \in ListingUpdates \cup {"close_listings"}
  BY <1>1, <1>2, <1>3, KeyKinds
<1>7. ASSUME k \in AccountKey
      PROVE  new.email = IF q.query = "change_email" THEN r.email ELSE row.email
  <2>0. row \in AccountRow
    BY <1>1, <1>7, RowKinds
  <2>1. CASE q.query = "change_email"
    BY <2>0, <2>1 DEF Updated, AccountRow
  <2>2. CASE q.query = "change_password"
    <3>1. new = [row EXCEPT !.password = r.newPassword]
      BY <2>2 DEF Updated
    <3> QED BY <2>0, <2>2, <3>1 DEF AccountRow
  <2>3. CASE q.query = "close_account"
    <3>1. new = [row EXCEPT !.open = FALSE]
      BY <2>3 DEF Updated
    <3> QED BY <2>0, <2>3, <3>1 DEF AccountRow
  <2>4. CASE q.query \in {"change_name", "change_dob"}
    <3>1. new = [row EXCEPT !.columns[ColumnOf(q)] = s]
      BY <2>4 DEF Updated
    <3> QED BY <2>0, <2>4, <3>1 DEF AccountRow
  <2> QED BY <1>5, <1>7, <2>1, <2>2, <2>3, <2>4 DEF AccountUpdates
<1>8. ASSUME k \in ListingKey
      PROVE  /\ new.contributor = row.contributor
             /\ new.address = IF q.query = "change_location" THEN AddressOf(s, r) ELSE row.address
             /\ q.query = "close_listings" /\ ~row.open => new = row
  <2>0. row \in ListingRow
    BY <1>1, <1>8, RowKinds
  <2>1. CASE q.query = "change_location"
    <3>1. new = [row EXCEPT !.address = AddressOf(s, r)]
      BY <2>1 DEF Updated
    <3> QED BY <2>0, <2>1, <3>1 DEF ListingRow
  <2>2. CASE q.query = "close_listing"
    <3>1. new = [row EXCEPT !.open = FALSE, !.receiver = r.receiver]
      BY <2>2 DEF Updated
    <3> QED BY <2>0, <2>2, <3>1 DEF ListingRow
  <2>3. CASE q.query = "close_listings"
    <3>1. new = [row EXCEPT !.open = FALSE]
      BY <2>3 DEF Updated
    <3> QED BY <2>0, <2>3, <3>1 DEF ListingRow
  <2>4. CASE q.query \in {"change_title", "change_description", "change_category", "change_condition"}
    <3>1. new = [row EXCEPT !.columns[ColumnOf(q)] = s]
      BY <2>4 DEF Updated
    <3> QED BY <2>0, <2>4, <3>1 DEF ListingRow
  <2> QED BY <1>6, <1>8, <2>1, <2>2, <2>3, <2>4 DEF ListingUpdates
<1> QED BY <1>4, <1>5, <1>6, <1>7, <1>8

(* What an INSERT that breaks no constraint leaves: an account with the    *)
(* email asked for, a listing where its contributor has an address.        *)
LEMMA InsertedKeeps ==
    ASSUME NEW s \in Sessions, NEW r \in Request, NEW q \in StatementOf(r), q.query \in Inserts,
           NEW db, IsDatabase(db), Violation(db, s, r, q, InsertedKey(s, r, q)) = "null"
    PROVE  LET k == InsertedKey(s, r, q)
               new == Inserted(db, s, r, q, k) IN
           /\ k \in AccountKey \cup ListingKey \cup AddressKey => k \notin DOMAIN db
           /\ k \in AccountKey => q.query = "create_account" /\ k = <<"account", s>> /\ new.email = r.email
           /\ k \in ListingKey => OwnsAddress(db, new.contributor, new.address)
           /\ k \in MessageKey => new.sender = r.actor /\ new.conversation = r.conversation
           /\ k \in MessageKey => q.query = "create_message"
           /\ k \in ConversationKey => q.query = "create_conversation"
<1> DEFINE k == InsertedKey(s, r, q)
           new == Inserted(db, s, r, q, k)
<1>1. k \in Key
  BY AimsAreKeys DEF Aims
<1>2. /\ k \in AccountKey => q.query = "create_account"
      /\ k \in ListingKey => q.query = "create_listing"
      /\ k \in AddressKey => q.query \in {"store_address", "create_address"}
      /\ k \in MessageKey => q.query = "create_message"
      /\ k \in ConversationKey => q.query = "create_conversation"
  BY <1>1, InsertedKeys, KeyKinds DEF Inserts, Upserts, PlainInserts
<1>3. q.query \in Inserts \ Upserts => k \notin DOMAIN db
  BY DEF Violation
<1>4. q.query = "create_listing" => OwnsAddress(db, r.actor, AddressOf(s, r))
  BY DEF Violation, Inserts, Upserts, PlainInserts
<1>5. k \in AccountKey \cup ListingKey \cup AddressKey => k \notin DOMAIN db
  BY <1>2, <1>3 DEF Inserts, Upserts, PlainInserts
<1>6. k \in AccountKey => k = <<"account", s>> /\ new.email = r.email
  <2> SUFFICES ASSUME k \in AccountKey PROVE k = <<"account", s>> /\ new.email = r.email
    OBVIOUS
  <2>1. new = [open |-> TRUE, email |-> r.email, password |-> r.password, columns |-> [c \in AccountColumns |-> s]]
    BY <1>2 DEF Inserted
  <2> QED BY <1>2, <2>1, InsertedKeys
<1>7. k \in ListingKey => OwnsAddress(db, new.contributor, new.address)
  <2> SUFFICES ASSUME k \in ListingKey PROVE OwnsAddress(db, new.contributor, new.address)
    OBVIOUS
  <2>1. new = [contributor |-> r.actor, open |-> TRUE, receiver |-> Null, address |-> AddressOf(s, r),
               columns |-> [c \in ListingColumns |-> s]]
    BY <1>2 DEF Inserted
  <2> QED BY <1>2, <1>4, <2>1
<1>8. k \in MessageKey => new.sender = r.actor /\ new.conversation = r.conversation
  <2> SUFFICES ASSUME k \in MessageKey PROVE new.sender = r.actor /\ new.conversation = r.conversation
    OBVIOUS
  <2>1. new = [sender |-> r.actor, conversation |-> r.conversation]
    BY <1>2 DEF Inserted
  <2> QED BY <2>1
<1> QED BY <1>2, <1>5, <1>6, <1>7, <1>8
-----------------------------------------------------------------------------
(* A list of statements has statement q. *)
Has(b, q) == \E i \in 1..Len(b) : b[i] = q
Named(name, i) == [query |-> name, index |-> i]
AnyStatement == [query: Statements, index: Nat]

(* A list has what its parts have. *)
LEMMA HasOneOf ==
    ASSUME NEW T, NEW a \in Seq(T), NEW b \in Seq(T), NEW q
    PROVE  /\ a \o b \in Seq(T)
           /\ Has(a, q) \/ Has(b, q) => Has(a \o b, q)
<1>1. /\ Len(a) \in Nat /\ Len(b) \in Nat /\ Len(a \o b) = Len(a) + Len(b) /\ a \o b \in Seq(T)
      /\ \A i \in 1..(Len(a) + Len(b)) : (a \o b)[i] = IF i <= Len(a) THEN a[i] ELSE b[i - Len(a)]
  BY ConcatProperties, LenProperties
<1>2. ASSUME NEW i \in 1..Len(a), a[i] = q PROVE Has(a \o b, q)
  <2>1. i \in 1..Len(a \o b) /\ (a \o b)[i] = q
    BY <1>1, <1>2
  <2> QED BY <2>1 DEF Has
<1>3. ASSUME NEW i \in 1..Len(b), b[i] = q PROVE Has(a \o b, q)
  <2>1. Len(a) + i \in 1..Len(a \o b) /\ (a \o b)[Len(a) + i] = q
    BY <1>1, <1>3
  <2> QED BY <2>1 DEF Has
<1> QED BY <1>1, <1>2, <1>3 DEF Has

(* The parts that a template is put together from, and what each has. *)
LEMMA PiecesHave ==
    /\ \A name \in Statements : Query(name) \in Seq(AnyStatement) /\ Has(Query(name), Named(name, 0))
    /\ \A c : \A name \in Statements : When(c, name) \in Seq(AnyStatement) /\ (c => Has(When(c, name), Named(name, 0)))
    /\ \A n \in Nat : \A name \in Statements :
         /\ Times(n, name) \in Seq(AnyStatement)
         /\ \A i \in 1..n : Has(Times(n, name), Named(name, i - 1))
<1>1. ASSUME NEW name \in Statements
      PROVE  Query(name) \in Seq(AnyStatement) /\ Has(Query(name), Named(name, 0))
  <2>1. Query(name) \in Seq(AnyStatement)
    BY Pieces DEF AnyStatement
  <2>2. Len(Query(name)) = 1 /\ Query(name)[1] = Named(name, 0)
    BY DEF Query, Named
  <2> QED BY <2>1, <2>2 DEF Has
<1>2. ASSUME NEW c, NEW name \in Statements
      PROVE  When(c, name) \in Seq(AnyStatement) /\ (c => Has(When(c, name), Named(name, 0)))
  BY <1>1, Pieces DEF When
<1>3. ASSUME NEW n \in Nat, NEW name \in Statements
      PROVE  /\ Times(n, name) \in Seq(AnyStatement)
             /\ \A i \in 1..n : Has(Times(n, name), Named(name, i - 1))
  <2>0. \A i \in 0..(n - 1) : [query |-> name, index |-> i] \in AnyStatement
    BY DEF AnyStatement
  <2>1. Times(n, name) \in Seq(AnyStatement)
    BY <2>0, Pieces
  <2>2. Len(Times(n, name)) = n /\ \A i \in 1..n : Times(n, name)[i] = Named(name, i - 1)
    BY DEF Times, Named
  <2> QED BY <2>1, <2>2 DEF Has
<1> QED BY <1>1, <1>2, <1>3

(* The statements that a request has for certain. *)
LEMMA BuildHas ==
    ASSUME NEW r \in Request
    PROVE  LET Lists(name) == Has(Build(r), Named(name, 0)) IN
           /\ r.op = "create-account" => /\ Lists("create_account")
                                         /\ r.address => Lists("store_address")
                                         /\ r.picture => Lists("insert_pfp")
           /\ r.op = "close-account" => /\ Lists("close_account")
                                        /\ Lists("close_listings")
                                        /\ Lists("close_conversations")
           /\ r.op = "create-listing" => /\ Lists("create_listing")
                                         /\ \A i \in 1..r.media : Has(Build(r), Named("insert_media", i - 1))
           /\ r.op = "close-listing" => Lists("close_conversations")
           /\ r.op = "create-message" => Lists("create_message")
<1> DEFINE S == Seq(AnyStatement)
<1>0. {"create_account", "store_address", "insert_pfp", "close_account", "close_listings", "close_listing",
       "close_conversations", "create_address", "create_listing", "insert_media", "create_message"} \subseteq Statements
  BY DEF Statements, AccountUpdates, ListingUpdates, Inserts, Upserts, PlainInserts
<1>j. \A a, b \in S : a \o b \in S /\ \A q : Has(a, q) \/ Has(b, q) => Has(a \o b, q)
  BY HasOneOf
<1> HIDE DEF S
<1>1. CASE r.op = "create-account"
  <2>1. /\ Query("create_account") \in S /\ Has(Query("create_account"), Named("create_account", 0))
        /\ When(r.address, "store_address") \in S
        /\ r.address => Has(When(r.address, "store_address"), Named("store_address", 0))
        /\ When(r.picture, "insert_pfp") \in S
        /\ r.picture => Has(When(r.picture, "insert_pfp"), Named("insert_pfp", 0))
    BY <1>0, PiecesHave DEF S
  <2>2. Build(r) = Query("create_account") \o When(r.address, "store_address") \o When(r.picture, "insert_pfp")
    BY <1>1 DEF Build, CreateAccountTemplate
  <2> QED BY <1>1, <1>j, <2>1, <2>2
<1>2. CASE r.op = "close-account"
  <2>1. /\ Query("close_account") \in S /\ Has(Query("close_account"), Named("close_account", 0))
        /\ Query("close_listings") \in S /\ Has(Query("close_listings"), Named("close_listings", 0))
        /\ Query("close_conversations") \in S /\ Has(Query("close_conversations"), Named("close_conversations", 0))
    BY <1>0, PiecesHave DEF S
  <2>2. Build(r) = Query("close_account") \o Query("close_listings") \o Query("close_conversations")
    BY <1>2 DEF Build, CloseAccountTemplate
  <2> QED BY <1>2, <1>j, <2>1, <2>2
<1>3. CASE r.op = "create-listing"
  <2>0. r.media \in Nat
    BY <1>3, RequestKinds, SchemaAssumption DEF CreateListingRequest
  <2>1. /\ When(r.location = New, "create_address") \in S
        /\ Query("create_listing") \in S /\ Has(Query("create_listing"), Named("create_listing", 0))
        /\ Times(r.media, "insert_media") \in S
        /\ \A i \in 1..r.media : Has(Times(r.media, "insert_media"), Named("insert_media", i - 1))
    BY <1>0, <2>0, PiecesHave DEF S
  <2>2. Build(r) = When(r.location = New, "create_address") \o Query("create_listing") \o Times(r.media, "insert_media")
    BY <1>3 DEF Build, CreateListingTemplate
  <2> QED BY <1>3, <1>j, <2>1, <2>2
<1>4. CASE r.op = "close-listing"
  <2>1. /\ Query("close_listing") \in S
        /\ Query("close_conversations") \in S /\ Has(Query("close_conversations"), Named("close_conversations", 0))
    BY <1>0, PiecesHave DEF S
  <2>2. Build(r) = Query("close_listing") \o Query("close_conversations")
    BY <1>4 DEF Build, CloseListingTemplate
  <2> QED BY <1>4, <1>j, <2>1, <2>2
<1>5. CASE r.op = "create-message"
  <2>1. Has(Query("create_message"), Named("create_message", 0))
    BY <1>0, PiecesHave
  <2>2. Build(r) = Query("create_message")
    BY <1>5 DEF Build
  <2> QED BY <1>5, <2>1, <2>2
<1> QED BY <1>1, <1>2, <1>3, <1>4, <1>5

(* The statements of a request, by index. *)
LEMMA BuildElements ==
    ASSUME NEW r \in Request
    PROVE  Len(Build(r)) \in Nat /\ \A i \in 1..Len(Build(r)) : Build(r)[i] \in StatementOf(r)
BY BuildType, ElementOfSeq, LenProperties
-----------------------------------------------------------------------------
(* The marks that an INSERT leaves: its session's own, and, in an upsert,  *)
(* those that the row had.                                                 *)
LEMMA InsertedMarks ==
    ASSUME NEW s \in Sessions, NEW r \in Request, NEW q \in StatementOf(r), NEW db, IsDatabase(db),
           q.query \in Inserts, NEW k, k = InsertedKey(s, r, q), NEW u \in Sessions,
           Marks(k, Inserted(db, s, r, q, k), u)
    PROVE  k[2] = u \/ (k \in DOMAIN db /\ Marks(k, db[k], u)) \/ u = s
<1> SUFFICES ASSUME u # s, k[2] # u PROVE k \in DOMAIN db /\ Marks(k, db[k], u)
  OBVIOUS
<1> DEFINE row == Inserted(db, s, r, q, k)
<1>0. k \in Key
  BY InsertedKeys DEF Inserts, Upserts, PlainInserts, Key
<1>1. q.query # "create_account"
  <2> SUFFICES ASSUME q.query = "create_account" PROVE FALSE
    OBVIOUS
  <2>1. k \in AccountKey
    BY InsertedKeys
  <2>2. row.columns = [c \in AccountColumns |-> s]
    BY DEF Inserted
  <2>3. \A c \in DOMAIN row.columns : row.columns[c] # u
    BY <2>2
  <2> QED BY <1>0, <2>1, <2>3, KeyKinds DEF Marks
<1>2. q.query # "create_listing"
  <2> SUFFICES ASSUME q.query = "create_listing" PROVE FALSE
    OBVIOUS
  <2>1. k \in ListingKey
    BY InsertedKeys
  <2>2. row.columns = [c \in ListingColumns |-> s]
    BY DEF Inserted
  <2>3. \A c \in DOMAIN row.columns : row.columns[c] # u
    BY <2>2
  <2> QED BY <1>0, <2>1, <2>3, KeyKinds DEF Marks
<1>3. q.query # "save_listing"
  <2> SUFFICES ASSUME q.query = "save_listing" PROVE FALSE
    OBVIOUS
  <2>1. k \in SavedListingKey /\ row = [born |-> s]
    BY InsertedKeys DEF Inserted
  <2> QED BY <1>0, <2>1, KeyKinds DEF Marks
<1>4. q.query \notin {"store_address", "create_address", "create_conversation", "create_message"}
  <2> SUFFICES ASSUME q.query \in {"store_address", "create_address", "create_conversation", "create_message"} PROVE FALSE
    OBVIOUS
  <2>1. k \in AddressKey \cup ConversationKey \cup MessageKey
    BY InsertedKeys
  <2> QED BY <1>0, <2>1, KeyKinds DEF Marks
<1>5. CASE q.query \in {"insert_pfp", "change_pfp", "insert_media", "change_media"}
  <2>1. k \in PictureKey \cup MediaKey
    BY <1>5, InsertedKeys
  <2>2. row = [born |-> IF k \in DOMAIN db THEN db[k].born ELSE s, url |-> s]
    BY <1>5 DEF Inserted
  <2>3. u \in {row.born, row.url}
    BY <1>0, <2>1, KeyKinds DEF Marks
  <2>4. k \in DOMAIN db /\ u = db[k].born
    BY <2>2, <2>3
  <2> QED BY <2>1, <2>4 DEF Marks
<1> QED BY <1>1, <1>2, <1>3, <1>4, <1>5 DEF Inserts, Upserts, PlainInserts

(* The marks that an UPDATE leaves: its session's only if it sets a        *)
(* column, and then it returns its row.                                    *)
LEMMA UpdatedMarks ==
    ASSUME NEW s \in Sessions, NEW r \in Request, NEW q \in StatementOf(r), q.query \notin Inserts,
           NEW k \in Aims(s, r, q), NEW row \in RowOf(k), NEW u \in Sessions,
           Updated(row, s, r, q) # NoRow, Marks(k, Updated(row, s, r, q), u)
    PROVE  Marks(k, row, u) \/ (u = s /\ q.query \notin Unreturning)
<1> DEFINE new == Updated(row, s, r, q)
<1> SUFFICES ASSUME k[2] # u PROVE Marks(k, row, u) \/ (u = s /\ q.query \notin Unreturning)
  BY DEF Marks
<1>0. k \in Key /\ q.query \in Statements
  BY AimsAreKeys, StatementKinds
<1>1. q.query \notin {"forget_listing", "drop_extra_media"}
  BY DEF Updated
<1>2. k \in AccountKey \cup ListingKey \cup ConversationKey
  <2>1. q.query \in AccountUpdates \cup ListingUpdates \cup {"close_listings", "close_conversations", "close_conversation"}
    BY <1>0, <1>1 DEF Statements
  <2>2. q.query \in AccountUpdates => k[1] = "account"
    BY DEF Aims
  <2>3. q.query \in ListingUpdates => k[1] = "listing"
    BY DEF Aims
  <2> QED BY <1>0, <2>1, <2>2, <2>3, KeyKinds DEF Aims
<1>3. CASE k \in ConversationKey
  BY <1>0, <1>3, KeyKinds DEF Marks
<1>4. CASE k \in AccountKey \cup ListingKey
  <2>1. row \in AccountRow \cup ListingRow
    BY <1>0, <1>4, RowKinds
  <2>2. PICK c \in DOMAIN new.columns : new.columns[c] = u
    BY <1>0, <1>4, KeyKinds DEF Marks
  <2>3. CASE q.query = "change_email"
    <3>1. new = [row EXCEPT !.email = r.email]
      BY <2>3 DEF Updated
    <3>2. new.columns = row.columns
      BY <2>1, <3>1 DEF AccountRow, ListingRow
    <3> QED BY <1>4, <2>2, <3>2 DEF Marks
  <2>4. CASE q.query = "change_password"
    <3>1. new = [row EXCEPT !.password = r.newPassword]
      BY <2>4 DEF Updated
    <3>2. new.columns = row.columns
      BY <2>1, <3>1 DEF AccountRow, ListingRow
    <3> QED BY <1>4, <2>2, <3>2 DEF Marks
  <2>5. CASE q.query = "change_location"
    <3>1. new = [row EXCEPT !.address = AddressOf(s, r)]
      BY <2>5 DEF Updated
    <3>2. new.columns = row.columns
      BY <2>1, <3>1 DEF AccountRow, ListingRow
    <3> QED BY <1>4, <2>2, <3>2 DEF Marks
  <2>6. CASE q.query = "close_listing"
    <3>1. new = [row EXCEPT !.open = FALSE, !.receiver = r.receiver]
      BY <2>6 DEF Updated
    <3>2. new.columns = row.columns
      BY <2>1, <3>1 DEF AccountRow, ListingRow
    <3> QED BY <1>4, <2>2, <3>2 DEF Marks
  <2>7. CASE q.query \in {"close_account", "close_listings", "close_conversations", "close_conversation"}
    <3>1. new = [row EXCEPT !.open = FALSE]
      BY <2>7 DEF Updated
    <3>2. new.columns = row.columns
      BY <2>1, <3>1 DEF AccountRow, ListingRow
    <3> QED BY <1>4, <2>2, <3>2 DEF Marks
  <2>8. CASE q.query \in {"change_name", "change_dob", "change_title", "change_description", "change_category",
                          "change_condition"}
    <3>1. new = [row EXCEPT !.columns[ColumnOf(q)] = s]
      BY <2>8 DEF Updated
    <3>2. new.columns = [row.columns EXCEPT ![ColumnOf(q)] = s]
      BY <2>1, <3>1 DEF AccountRow, ListingRow
    <3>3. c \in DOMAIN row.columns /\ (u = s \/ row.columns[c] = u)
      BY <2>2, <3>2
    <3>4. q.query \notin Unreturning
      BY <2>8 DEF Unreturning
    <3> QED BY <1>4, <3>3, <3>4 DEF Marks
  <2> QED BY <1>0, <1>1, <2>3, <2>4, <2>5, <2>6, <2>7, <2>8 DEF Statements, AccountUpdates, ListingUpdates
<1> QED BY <1>2, <1>3, <1>4

(* The statements whose rows prepareResults drops: all of them but those   *)
(* of create-listing need the row of a statement that it keeps.            *)
LEMMA DroppedNeedKept ==
    ASSUME NEW r \in Request, NEW q \in StatementOf(r), r.op # "create-listing",
           q.query \in DropFromResults(r.op), q.query \notin Unreturning
    PROVE  ~(Backreference(r, q) \subseteq DropFromResults(r.op))
BY DEF DropFromResults, Unreturning, Backreference
-----------------------------------------------------------------------------
(* b is a list of statements, n times a statement, and one more list. *)
Laid(b, pre, n, name, post) ==
    /\ Len(pre) \in Nat /\ Len(post) \in Nat
    /\ Len(b) = Len(pre) + n + Len(post)
    /\ \A i \in 1..Len(b) :
         b[i] = IF i <= Len(pre) THEN pre[i]
                ELSE IF i <= Len(pre) + n THEN Named(name, i - Len(pre) - 1)
                ELSE post[i - Len(pre) - n]

(* Two concatenations, by index. *)
LEMMA Sequel ==
    ASSUME NEW pre \in Seq(AnyStatement), NEW n \in Nat, NEW name \in Statements, NEW post \in Seq(AnyStatement)
    PROVE  Laid(pre \o Times(n, name) \o post, pre, n, name, post)
<1> DEFINE t == Times(n, name)
           b == pre \o t \o post
<1>1. t \in Seq(AnyStatement) /\ Len(t) = n /\ \A i \in 1..n : t[i] = Named(name, i - 1)
  <2>1. t \in Seq(AnyStatement)
    BY PiecesHave
  <2> QED BY <2>1 DEF Times, Named
<1> HIDE DEF t
<1>2. /\ Len(pre) \in Nat /\ Len(post) \in Nat
      /\ pre \o t \in Seq(AnyStatement) /\ Len(pre \o t) = Len(pre) + n
      /\ \A i \in 1..(Len(pre) + n) : (pre \o t)[i] = IF i <= Len(pre) THEN pre[i] ELSE t[i - Len(pre)]
  BY <1>1, ConcatProperties, LenProperties
<1>3. /\ Len(b) = Len(pre) + n + Len(post)
      /\ \A i \in 1..Len(b) : b[i] = IF i <= Len(pre) + n THEN (pre \o t)[i] ELSE post[i - Len(pre) - n]
  <2>1. /\ Len(b) = Len(pre \o t) + Len(post)
        /\ \A i \in 1..(Len(pre \o t) + Len(post)) :
             b[i] = IF i <= Len(pre \o t) THEN (pre \o t)[i] ELSE post[i - Len(pre \o t)]
    BY <1>2, ConcatProperties
  <2> HIDE DEF b
  <2>2. \A i \in 1..Len(b) : i - (Len(pre) + n) = i - Len(pre) - n
    BY <1>2, <2>1
  <2> QED BY <1>2, <2>1, <2>2
<1>4. ASSUME NEW i \in 1..Len(b)
      PROVE  b[i] = IF i <= Len(pre) THEN pre[i]
                    ELSE IF i <= Len(pre) + n THEN Named(name, i - Len(pre) - 1)
                    ELSE post[i - Len(pre) - n]
  <2>1. CASE i <= Len(pre)
    BY <1>2, <1>3, <1>4, <2>1
  <2>2. CASE ~(i <= Len(pre)) /\ i <= Len(pre) + n
    <3>1. b[i] = t[i - Len(pre)] /\ i - Len(pre) \in 1..n
      BY <1>2, <1>3, <1>4, <2>2
    <3> QED BY <1>1, <2>2, <3>1
  <2>3. CASE ~(i <= Len(pre) + n)
    BY <1>2, <1>3, <1>4, <2>3
  <2> QED BY <2>1, <2>2, <2>3
<1> HIDE DEF b
<1>5. Laid(b, pre, n, name, post)
  BY <1>2, <1>3, <1>4 DEF Laid
<1> QED BY <1>5 DEF b, t

(* The statements before those for media. *)
ColumnStatement == {q \in AnyStatement : q.query \in {"create_address", "create_listing"} \cup ListingUpdates}

(* The pieces of a template that come before those for media. *)
LEMMA ColumnPieces ==
    /\ \A name \in {"create_address", "create_listing"} \cup ListingUpdates : Query(name) \in Seq(ColumnStatement)
    /\ \A c : \A name \in {"create_address", "create_listing"} \cup ListingUpdates : When(c, name) \in Seq(ColumnStatement)
    /\ \A a, b \in Seq(ColumnStatement) : a \o b \in Seq(ColumnStatement)
    /\ Seq(ColumnStatement) \subseteq Seq(AnyStatement)
<1>1. \A name \in {"create_address", "create_listing"} \cup ListingUpdates : [query |-> name, index |-> 0] \in ColumnStatement
  BY DEF ColumnStatement, AnyStatement, ListingUpdates, Statements, Inserts, PlainInserts
<1>2. ColumnStatement \subseteq AnyStatement
  BY DEF ColumnStatement
<1>3. \A name \in {"create_address", "create_listing"} \cup ListingUpdates : Query(name) \in Seq(ColumnStatement)
  BY <1>1, Pieces
<1>4. <<>> \in Seq(ColumnStatement) /\ \A a, b \in Seq(ColumnStatement) : a \o b \in Seq(ColumnStatement)
  BY Pieces
<1>5. Seq(ColumnStatement) \subseteq Seq(AnyStatement)
  BY <1>2
<1> QED BY <1>3, <1>4, <1>5 DEF When

(* Columns first, then the media by index, then the one that drops the     *)
(* others: what stands before a statement.                                 *)
InOrder(b, pre, n, name, post) ==
    \A i \in 1..Len(b) :
      /\ b[i].query = name =>
           /\ b[i].index \in 0..(n - 1)
           /\ \A j \in 0..(b[i].index - 1) : \E h \in 1..(i - 1) : b[h] = Named(name, j)
      /\ b[i].query = "drop_extra_media" =>
           /\ Len(post) = 1
           /\ \A j \in 0..(n - 1) : \E h \in 1..(i - 1) : b[h] = Named(name, j)
      /\ b[i].query \in {name, "drop_extra_media"} =>
           \A h \in 1..Len(b) : b[h].query \in ListingUpdates => h < i
      /\ b[i].query \notin {name, "drop_extra_media"} => \E h \in 1..Len(pre) : b[i] = pre[h]

(* A template with its media last is in that order. *)
LEMMA Layout ==
    ASSUME NEW pre \in Seq(ColumnStatement), NEW n \in Nat, NEW name \in {"insert_media", "change_media"},
           NEW post \in Seq(AnyStatement), Len(post) <= 1, Len(post) = 1 => post[1] = Named("drop_extra_media", 0)
    PROVE  InOrder(pre \o Times(n, name) \o post, pre, n, name, post)
<1> SUFFICES ASSUME NEW b, b = pre \o Times(n, name) \o post, NEW i \in 1..Len(b)
             PROVE  /\ b[i].query = name =>
                         /\ b[i].index \in 0..(n - 1)
                         /\ \A j \in 0..(b[i].index - 1) : \E h \in 1..(i - 1) : b[h] = Named(name, j)
                    /\ b[i].query = "drop_extra_media" =>
                         /\ Len(post) = 1
                         /\ \A j \in 0..(n - 1) : \E h \in 1..(i - 1) : b[h] = Named(name, j)
                    /\ b[i].query \in {name, "drop_extra_media"} =>
                         \A h \in 1..Len(b) : b[h].query \in ListingUpdates => h < i
                    /\ b[i].query \notin {name, "drop_extra_media"} => \E h \in 1..Len(pre) : b[i] = pre[h]
  BY DEF InOrder
<1>0. pre \in Seq(AnyStatement) /\ name \in Statements /\ name # "drop_extra_media"
  BY ColumnPieces DEF Statements, Inserts, Upserts, PlainInserts
<1>1. /\ Len(pre) \in Nat /\ Len(post) \in Nat
      /\ Len(b) = Len(pre) + n + Len(post)
      /\ \A h \in 1..Len(b) :
           b[h] = IF h <= Len(pre) THEN pre[h]
                  ELSE IF h <= Len(pre) + n THEN Named(name, h - Len(pre) - 1)
                  ELSE post[h - Len(pre) - n]
  <2>1. Laid(pre \o Times(n, name) \o post, pre, n, name, post)
    BY <1>0, Sequel
  <2>2. Laid(b, pre, n, name, post)
    BY <2>1
  <2> QED BY <2>2 DEF Laid
<1>2. ASSUME NEW h \in 1..Len(b), h <= Len(pre)
      PROVE  /\ b[h] = pre[h] /\ h \in 1..Len(pre)
             /\ b[h].query \notin {name, "drop_extra_media"}
  <2>1. b[h] = pre[h] /\ h \in 1..Len(pre)
    BY <1>1, <1>2
  <2>2. pre[h] \in ColumnStatement
    BY <2>1, ElementOfSeq
  <2> QED BY <2>1, <2>2 DEF ColumnStatement, ListingUpdates
<1>3. ASSUME NEW h \in 1..Len(b), ~(h <= Len(pre)), h <= Len(pre) + n
      PROVE  b[h].query = name /\ b[h].index = h - Len(pre) - 1
  <2>1. b[h] = Named(name, h - Len(pre) - 1)
    BY <1>1, <1>3
  <2> QED BY <2>1 DEF Named
<1>4. ASSUME NEW h \in 1..Len(b), ~(h <= Len(pre) + n)
      PROVE  h = Len(pre) + n + 1 /\ Len(post) = 1 /\ b[h].query = "drop_extra_media"
  <2> DEFINE x == Len(pre)
             y == Len(post)
             z == Len(b)
  <2>0. x \in Nat /\ y \in Nat /\ z = x + n + y /\ y <= 1 /\ h \in 1..z /\ ~(h <= x + n)
    BY <1>1, <1>4
  <2>1. h = Len(pre) + n + 1 /\ Len(post) = 1
    <3> HIDE DEF x, y, z
    <3>1. h = x + n + 1 /\ y = 1
      BY <2>0
    <3> QED BY <3>1 DEF x, y
  <2>2. b[h] = post[1]
    <3>1. ~(h <= Len(pre)) /\ h - Len(pre) - n = 1
      BY <1>1, <2>1
    <3> QED BY <1>1, <1>4, <3>1
  <2> QED BY <2>1, <2>2 DEF Named
<1>5. ASSUME NEW j \in 0..(n - 1), Len(pre) + j + 1 < i
      PROVE  \E h \in 1..(i - 1) : b[h] = Named(name, j)
  <2>1. /\ Len(pre) + j + 1 \in 1..(i - 1) /\ Len(pre) + j + 1 \in 1..Len(b)
        /\ ~(Len(pre) + j + 1 <= Len(pre)) /\ Len(pre) + j + 1 <= Len(pre) + n
        /\ Len(pre) + j + 1 - Len(pre) - 1 = j
    BY <1>1, <1>5
  <2>2. b[Len(pre) + j + 1] = Named(name, j)
    BY <1>1, <2>1
  <2> QED BY <2>1, <2>2
<1>6. CASE i <= Len(pre)
  BY <1>2, <1>6
<1>7. CASE ~(i <= Len(pre)) /\ i <= Len(pre) + n
  <2>1. b[i].query = name /\ b[i].index = i - Len(pre) - 1
    BY <1>3, <1>7
  <2>2. b[i].index \in 0..(n - 1)
    BY <1>1, <1>7, <2>1
  <2>3. ASSUME NEW j \in 0..(b[i].index - 1) PROVE \E h \in 1..(i - 1) : b[h] = Named(name, j)
    <3>1. j \in 0..(n - 1) /\ Len(pre) + j + 1 < i
      BY <1>1, <1>7, <2>1, <2>2
    <3> QED BY <1>5, <3>1
  <2>4. ASSUME NEW h \in 1..Len(b), b[h].query \in ListingUpdates PROVE h < i
    <3>1. h <= Len(pre)
      BY <1>1, <1>3, <1>4, <2>4 DEF ListingUpdates
    <3> QED BY <1>1, <1>7, <3>1
  <2> QED BY <1>0, <2>1, <2>2, <2>3, <2>4
<1>8. CASE ~(i <= Len(pre) + n)
  <2>1. i = Len(pre) + n + 1 /\ Len(post) = 1 /\ b[i].query = "drop_extra_media"
    BY <1>4, <1>8
  <2>2. ASSUME NEW j \in 0..(n - 1) PROVE \E h \in 1..(i - 1) : b[h] = Named(name, j)
    <3>1. Len(pre) + j + 1 < i
      BY <1>1, <2>1
    <3> QED BY <1>5, <3>1
  <2>4. ASSUME NEW h \in 1..Len(b), b[h].query \in ListingUpdates PROVE h < i
    <3>1. h <= Len(pre)
      BY <1>1, <1>3, <1>4, <2>4 DEF ListingUpdates
    <3> QED BY <1>1, <2>1, <3>1
  <2> QED BY <1>0, <2>1, <2>2, <2>4
<1> QED BY <1>6, <1>7, <1>8

(* The statements of modify-listing that write its columns.                *)
ColumnUpdates == {"change_title", "change_description", "change_category", "change_condition"}

(* How the statements of create-listing are laid out. *)
LEMMA CreateLaid ==
    ASSUME NEW r \in Request, r.op = "create-listing"
    PROVE  /\ r.media \in Nat
           /\ \E pre \in Seq(ColumnStatement) : Build(r) = pre \o Times(r.media, "insert_media") \o <<>>
<1> DEFINE pre == When(r.location = New, "create_address") \o Query("create_listing")
           t == Times(r.media, "insert_media")
<1>1. r.media \in Nat
  BY RequestKinds, SchemaAssumption DEF CreateListingRequest
<1>2. pre \in Seq(ColumnStatement)
  BY ColumnPieces
<1>3. t \in Seq(AnyStatement)
  BY <1>1, PiecesHave DEF Statements, Inserts, PlainInserts
<1>4. Build(r) = pre \o t
  BY DEF Build, CreateListingTemplate
<1> HIDE DEF pre, t
<1>5. pre \o t \in Seq(AnyStatement)
  BY <1>2, <1>3, ColumnPieces, HasOneOf
<1>6. (pre \o t) \o <<>> = pre \o t
  BY <1>5
<1>7. Build(r) = pre \o t \o <<>>
  BY <1>4, <1>6
<1> QED BY <1>1, <1>2, <1>7 DEF t

(* The columns first, then the media, then drop_extra_media. *)
LEMMA ModifyLaid ==
    ASSUME NEW r \in Request, r.op = "modify-listing"
    PROVE  /\ r.media \in Nat
           /\ \E pre \in Seq(ColumnStatement) :
                /\ Build(r) = pre \o Times(r.media, "change_media") \o When(r.media > 0, "drop_extra_media")
                /\ \A c \in r.columns : \E q : Has(pre, q) /\ q.query \in ColumnUpdates /\ ColumnOf(q) = c
                /\ r.location # Null => Has(pre, Named("change_location", 0))
<1> DEFINE P == ColumnStatement
           p1 == When(r.location = New, "create_address")
           p2 == When("title" \in r.columns, "change_title")
           p3 == When("description" \in r.columns, "change_description")
           p4 == When(r.location # Null, "change_location")
           p5 == When("category" \in r.columns, "change_category")
           p6 == When("condition" \in r.columns, "change_condition")
           pre == p1 \o p2 \o p3 \o p4 \o p5 \o p6
<1>1. r.media \in Nat /\ r.columns \subseteq ListingColumns
  BY RequestKinds, SchemaAssumption DEF ModifyListingRequest
<1>2. Build(r) = pre \o Times(r.media, "change_media") \o When(r.media > 0, "drop_extra_media")
  BY DEF Build, ModifyListingTemplate
<1>3. /\ <<>> \in Seq(P)
      /\ Query("create_address") \in Seq(P)
      /\ \A name \in ListingUpdates : Query(name) \in Seq(P)
  <2>1. \A name \in ListingUpdates : [query |-> name, index |-> 0] \in P
    BY DEF ColumnStatement, AnyStatement, ListingUpdates, Statements
  <2>2. [query |-> "create_address", index |-> 0] \in P
    BY DEF ColumnStatement, AnyStatement, Statements, Inserts, PlainInserts
  <2> HIDE DEF P
  <2> QED BY <2>1, <2>2, Pieces
<1>4. /\ p1 \in Seq(P) /\ p2 \in Seq(P) /\ p3 \in Seq(P) /\ p4 \in Seq(P) /\ p5 \in Seq(P) /\ p6 \in Seq(P)
  <2> HIDE DEF P
  <2> QED BY <1>3 DEF When, ListingUpdates
<1>5. /\ "title" \in r.columns => Has(p2, Named("change_title", 0))
      /\ "description" \in r.columns => Has(p3, Named("change_description", 0))
      /\ r.location # Null => Has(p4, Named("change_location", 0))
      /\ "category" \in r.columns => Has(p5, Named("change_category", 0))
      /\ "condition" \in r.columns => Has(p6, Named("change_condition", 0))
  BY PiecesHave DEF Statements, ListingUpdates
<1> HIDE DEF p1, p2, p3, p4, p5, p6, P
<1>j. \A a, b \in Seq(P) : a \o b \in Seq(P) /\ \A q : Has(a, q) \/ Has(b, q) => Has(a \o b, q)
  BY HasOneOf
<1>6. /\ pre \in Seq(P)
      /\ \A q : Has(p2, q) \/ Has(p3, q) \/ Has(p4, q) \/ Has(p5, q) \/ Has(p6, q) => Has(pre, q)
  BY <1>4, <1>j
<1> HIDE DEF pre
<1>7. ASSUME NEW c \in r.columns PROVE \E q : Has(pre, q) /\ q.query \in ColumnUpdates /\ ColumnOf(q) = c
  <2>1. c \in {"title", "description", "category", "condition"}
    BY <1>1 DEF ListingColumns
  <2>2. CASE c = "title"
    BY <1>5, <1>6, <2>2 DEF Named, ColumnUpdates, ColumnOf
  <2>3. CASE c = "description"
    BY <1>5, <1>6, <2>3 DEF Named, ColumnUpdates, ColumnOf
  <2>4. CASE c = "category"
    BY <1>5, <1>6, <2>4 DEF Named, ColumnUpdates, ColumnOf
  <2>5. CASE c = "condition"
    BY <1>5, <1>6, <2>5 DEF Named, ColumnUpdates, ColumnOf
  <2> QED BY <2>1, <2>2, <2>3, <2>4, <2>5
<1>8. r.location # Null => Has(pre, Named("change_location", 0))
  BY <1>5, <1>6
<1> QED BY <1>1, <1>2, <1>6, <1>7, <1>8 DEF P

(* The order of the statements for media: by index, after those for the    *)
(* columns, and the one that drops the others last.                        *)
LEMMA MediaOrder ==
    ASSUME NEW r \in Request, r.op = "modify-listing", NEW i \in 1..Len(Build(r))
    PROVE  /\ Build(r)[i].query = "change_media" =>
                /\ Build(r)[i].index \in 0..(r.media - 1)
                /\ \A j \in 0..(Build(r)[i].index - 1) : \E h \in 1..(i - 1) : Build(r)[h] = Named("change_media", j)
           /\ Build(r)[i].query = "drop_extra_media" =>
                /\ r.media > 0
                /\ \A j \in 0..(r.media - 1) : \E h \in 1..(i - 1) : Build(r)[h] = Named("change_media", j)
           /\ Build(r)[i].query \in {"change_media", "drop_extra_media"} =>
                \A h \in 1..Len(Build(r)) : Build(r)[h].query \in ListingUpdates => h < i
<1> DEFINE P == ColumnStatement
           b == Build(r)
           post == When(r.media > 0, "drop_extra_media")
<1>1. /\ r.media \in Nat
      /\ \E pre \in Seq(P) : b = pre \o Times(r.media, "change_media") \o post
  BY ModifyLaid
<1>2. PICK pre \in Seq(P) : b = pre \o Times(r.media, "change_media") \o post
  BY <1>1
<1>3. /\ post \in Seq(AnyStatement) /\ Len(post) = IF r.media > 0 THEN 1 ELSE 0
      /\ Len(post) = 1 => post[1] = Named("drop_extra_media", 0)
  <2>1. post \in Seq(AnyStatement)
    BY PiecesHave DEF Statements
  <2> QED BY <2>1 DEF When, Query, Named
<1>4. pre \in Seq(ColumnStatement)
  BY <1>2
<1> HIDE DEF post, b
<1>5. i \in 1..Len(b)
  BY DEF b
<1>L. InOrder(b, pre, r.media, "change_media", post)
  <2>1. InOrder(pre \o Times(r.media, "change_media") \o post, pre, r.media, "change_media", post)
    <3>1. r.media \in Nat /\ "change_media" \in {"insert_media", "change_media"} /\ Len(post) <= 1
      BY <1>1, <1>3
    <3> HIDE DEF P
    <3> QED BY <1>3, <1>4, <3>1, Layout
  <2> QED BY <1>2, <2>1
<1>6. /\ b[i].query = "change_media" =>
           /\ b[i].index \in 0..(r.media - 1)
           /\ \A j \in 0..(b[i].index - 1) : \E h \in 1..(i - 1) : b[h] = Named("change_media", j)
      /\ b[i].query = "drop_extra_media" =>
           /\ Len(post) = 1
           /\ \A j \in 0..(r.media - 1) : \E h \in 1..(i - 1) : b[h] = Named("change_media", j)
      /\ b[i].query \in {"change_media", "drop_extra_media"} =>
           \A h \in 1..Len(b) : b[h].query \in ListingUpdates => h < i
      /\ b[i].query \notin {"change_media", "drop_extra_media"} => \E h \in 1..Len(pre) : b[i] = pre[h]
  BY <1>5, <1>L DEF InOrder
<1>7. b[i].query = "drop_extra_media" => r.media > 0
  <2> SUFFICES ASSUME b[i].query = "drop_extra_media", ~(r.media > 0) PROVE FALSE
    OBVIOUS
  <2>1. Len(post) = 0
    BY <1>3
  <2>2. Len(post) = 1
    BY <1>6
  <2> QED BY <2>1, <2>2
<1> QED BY <1>6, <1>7 DEF b

(* The media of a new listing are inserted by index. *)
LEMMA InsertOrder ==
    ASSUME NEW r \in Request, NEW i \in 1..Len(Build(r)), Build(r)[i].query = "insert_media"
    PROVE  \A j \in 0..(Build(r)[i].index - 1) : \E h \in 1..(i - 1) : Build(r)[h] = Named("insert_media", j)
<1> DEFINE b == Build(r)
<1>0. r.op = "create-listing"
  BY BuildElements, StatementKinds DEF CreateListingRequest
<1>1. r.media \in Nat /\ \E pre \in Seq(ColumnStatement) : b = pre \o Times(r.media, "insert_media") \o <<>>
  BY <1>0, CreateLaid
<1>2. PICK pre \in Seq(ColumnStatement) : b = pre \o Times(r.media, "insert_media") \o <<>>
  BY <1>1
<1>3. i \in 1..Len(b) /\ b[i].query = "insert_media"
  OBVIOUS
<1>4. <<>> \in Seq(AnyStatement) /\ Len(<<>>) = 0
  OBVIOUS
<1> HIDE DEF b
<1>5. \A j \in 0..(b[i].index - 1) : \E h \in 1..(i - 1) : b[h] = Named("insert_media", j)
  <2>1. InOrder(pre \o Times(r.media, "insert_media") \o <<>>, pre, r.media, "insert_media", <<>>)
    <3>1. r.media \in Nat /\ "insert_media" \in {"insert_media", "change_media"} /\ Len(<<>>) <= 1 /\ Len(<<>>) # 1
      BY <1>1, <1>4
    <3> DEFINE none == <<>>
    <3>3. none \in Seq(AnyStatement) /\ Len(none) <= 1 /\ Len(none) # 1
      BY <1>4, <3>1
    <3> HIDE DEF none
    <3>4. InOrder(pre \o Times(r.media, "insert_media") \o none, pre, r.media, "insert_media", none)
      BY <3>1, <3>3, Layout
    <3> QED BY <3>4 DEF none
  <2>2. InOrder(b, pre, r.media, "insert_media", <<>>)
    BY <1>2, <2>1
  <2> QED BY <1>3, <2>2 DEF InOrder
<1> QED BY <1>5 DEF b

(* The statements that modify-listing has for certain. *)
LEMMA ModifyHas ==
    ASSUME NEW r \in Request, r.op = "modify-listing"
    PROVE  /\ \A c \in r.columns : \E i \in 1..Len(Build(r)) : Build(r)[i].query \in ColumnUpdates /\ ColumnOf(Build(r)[i]) = c
           /\ r.location # Null => \E i \in 1..Len(Build(r)) : Build(r)[i].query = "change_location"
           /\ \A j \in 0..(r.media - 1) : \E i \in 1..Len(Build(r)) : Build(r)[i] = Named("change_media", j)
           /\ r.media > 0 => \E i \in 1..Len(Build(r)) : Build(r)[i].query = "drop_extra_media"
<1> DEFINE P == ColumnStatement
           t == Times(r.media, "change_media")
           post == When(r.media > 0, "drop_extra_media")
           S == Seq(AnyStatement)
<1>1. /\ r.media \in Nat
      /\ \E pre \in Seq(P) :
                /\ Build(r) = pre \o t \o post
                /\ \A c \in r.columns : \E q : Has(pre, q) /\ q.query \in ColumnUpdates /\ ColumnOf(q) = c
                /\ r.location # Null => Has(pre, Named("change_location", 0))
  BY ModifyLaid
<1>2. PICK pre \in Seq(P) :
                /\ Build(r) = pre \o t \o post
                /\ \A c \in r.columns : \E q : Has(pre, q) /\ q.query \in ColumnUpdates /\ ColumnOf(q) = c
                /\ r.location # Null => Has(pre, Named("change_location", 0))
  BY <1>1
<1>3. pre \in S
  BY <1>2, ColumnPieces
<1>4. t \in S /\ \A j \in 1..r.media : Has(t, Named("change_media", j - 1))
  BY <1>1, PiecesHave DEF Statements, Inserts, Upserts
<1>5. post \in S /\ (r.media > 0 => Has(post, Named("drop_extra_media", 0)))
  BY PiecesHave DEF Statements
<1> HIDE DEF S, t, post
<1>j. \A a, b \in S : a \o b \in S /\ \A q : Has(a, q) \/ Has(b, q) => Has(a \o b, q)
  BY HasOneOf DEF S
<1>6. \A q : Has(pre, q) \/ Has(t, q) \/ Has(post, q) => Has(Build(r), q)
  BY <1>2, <1>3, <1>4, <1>5, <1>j
<1>7. \A c \in r.columns : \E i \in 1..Len(Build(r)) : Build(r)[i].query \in ColumnUpdates /\ ColumnOf(Build(r)[i]) = c
  BY <1>2, <1>6 DEF Has
<1>8. r.location # Null => \E i \in 1..Len(Build(r)) : Build(r)[i].query = "change_location"
  BY <1>2, <1>6 DEF Has, Named
<1>9. ASSUME NEW j \in 0..(r.media - 1) PROVE \E i \in 1..Len(Build(r)) : Build(r)[i] = Named("change_media", j)
  <2>1. j + 1 \in 1..r.media /\ (j + 1) - 1 = j
    BY <1>1
  <2>2. Has(t, Named("change_media", j))
    BY <1>4, <2>1
  <2> QED BY <1>6, <2>2 DEF Has
<1>10. ASSUME r.media > 0 PROVE \E i \in 1..Len(Build(r)) : Build(r)[i].query = "drop_extra_media"
  <2>1. Has(Build(r), Named("drop_extra_media", 0))
    BY <1>5, <1>6, <1>10
  <2> QED BY <2>1 DEF Has, Named
<1> QED BY <1>7, <1>8, <1>9, <1>10

(* The statements of a change of a profile: what each is listed for. *)
Asks(r, name) ==
    \/ name = "change_name" /\ "name" \in r.columns
    \/ name = "change_email" /\ r.email # Null
    \/ name = "change_password" /\ r.newPassword # Null
    \/ name = "change_dob" /\ "dob" \in r.columns
    \/ name = "change_pfp" /\ r.picture

(* A change of a profile has these statements and no others.               *)
LEMMA ProfileLists ==
    ASSUME NEW r \in Request, r.op = "modify-account"
    PROVE  /\ \A i \in 1..Len(Build(r)) : Asks(r, Build(r)[i].query)
           /\ \A name : Asks(r, name) => \E i \in 1..Len(Build(r)) : Build(r)[i] = Named(name, 0)
<1> DEFINE P == {q \in AnyStatement : Asks(r, q.query)}
           p1 == When("name" \in r.columns, "change_name")
           p2 == When(r.email # Null, "change_email")
           p3 == When(r.newPassword # Null, "change_password")
           p4 == When("dob" \in r.columns, "change_dob")
           p5 == When(r.picture, "change_pfp")
           b == p1 \o p2 \o p3 \o p4 \o p5
<1>1. Build(r) = b
  BY DEF Build, ModifyAccountTemplate
<1>2. {"change_name", "change_email", "change_password", "change_dob", "change_pfp"} \subseteq Statements
  BY DEF Statements, AccountUpdates, Inserts, Upserts
<1>3. \A c : \A name \in Statements : (c => Asks(r, name)) => When(c, name) \in Seq(P)
  <2> SUFFICES ASSUME NEW c, NEW name \in Statements, c => Asks(r, name) PROVE When(c, name) \in Seq(P)
    OBVIOUS
  <2>1. c => [query |-> name, index |-> 0] \in P
    BY DEF AnyStatement
  <2> HIDE DEF P
  <2>2. c => Query(name) \in Seq(P)
    BY <2>1, Pieces
  <2> QED BY <2>2, Pieces DEF When
<1>4. p1 \in Seq(P) /\ p2 \in Seq(P) /\ p3 \in Seq(P) /\ p4 \in Seq(P) /\ p5 \in Seq(P)
  <2>1. /\ "name" \in r.columns => Asks(r, "change_name")
        /\ r.email # Null => Asks(r, "change_email")
        /\ r.newPassword # Null => Asks(r, "change_password")
        /\ "dob" \in r.columns => Asks(r, "change_dob")
        /\ r.picture => Asks(r, "change_pfp")
    BY DEF Asks
  <2> HIDE DEF P
  <2> QED BY <1>2, <1>3, <2>1
<1>5. /\ "name" \in r.columns => Has(p1, Named("change_name", 0))
      /\ r.email # Null => Has(p2, Named("change_email", 0))
      /\ r.newPassword # Null => Has(p3, Named("change_password", 0))
      /\ "dob" \in r.columns => Has(p4, Named("change_dob", 0))
      /\ r.picture => Has(p5, Named("change_pfp", 0))
  BY <1>2, PiecesHave
<1> HIDE DEF p1, p2, p3, p4, p5, P
<1>6. \A x, y \in Seq(P) : x \o y \in Seq(P) /\ \A q : Has(x, q) \/ Has(y, q) => Has(x \o y, q)
  BY HasOneOf
<1>7. /\ b \in Seq(P)
      /\ \A q : Has(p1, q) \/ Has(p2, q) \/ Has(p3, q) \/ Has(p4, q) \/ Has(p5, q) => Has(b, q)
  BY <1>4, <1>6
<1> HIDE DEF b
<1>8. \A i \in 1..Len(b) : Asks(r, b[i].query)
  <2>1. \A i \in 1..Len(b) : b[i] \in P
    BY <1>7, ElementOfSeq
  <2> QED BY <2>1 DEF P
<1>9. ASSUME NEW name, Asks(r, name) PROVE Has(b, Named(name, 0))
  BY <1>5, <1>7, <1>9 DEF Asks
<1> QED BY <1>1, <1>8, <1>9 DEF Has
-----------------------------------------------------------------------------
(* What is always so needs no fairness: it is so as well when these        *)
(* requests run next to others.                                            *)
SafetySpec == Init /\ [][Next]_vars

(* A row that a statement is to visit: one that it may aim at, and that    *)
(* was there when it was chosen, unless the statement is an INSERT.        *)
Visits(s, t) ==
    /\ t \in Key \X (Row \cup {NoRow})
    /\ t[1] \in Aims(s, req[s], Statement(s))
    /\ Statement(s).query \notin Inserts => t[2] # NoRow

(* Where session s is: at one of the statements of its request, and, when  *)
(* it is among the rows of it, at one of those that are left.              *)
Position(s) ==
    /\ pc[s] # "idle" => req[s] \in Request
    /\ pc[s] \in {"idle", "password", "store"} => step[s] = 1
    /\ pc[s] \in {"query", "rows"} => step[s] \in 1..Len(Build(req[s]))
    /\ pc[s] = "rows" => cur[s] \in todo[s] /\ \A t \in todo[s] : Visits(s, t)

TypeInv == TypeOK /\ \A s \in Sessions : Position(s)
-----------------------------------------------------------------------------
(* The statement a session is at is one of its request's. *)
LEMMA StatementType ==
    ASSUME TypeInv, NEW s \in Sessions, pc[s] \in {"query", "rows"}
    PROVE  /\ req[s] \in Request
           /\ Statement(s) \in StatementOf(req[s])
           /\ Statement(s).query \in Statements
<1>1. req[s] \in Request /\ step[s] \in 1..Len(Build(req[s]))
  BY DEF TypeInv, Position
<1>2. Statement(s) \in StatementOf(req[s])
  BY <1>1, BuildType, ElementOfSeq DEF Statement
<1>3. Statement(s).query \in Statements
  BY <1>1, <1>2, StatementKinds
<1> QED BY <1>1, <1>2, <1>3

(* What a session sees is a database. *)
LEMMA ViewType ==
    ASSUME TypeOK, NEW s \in Sessions
    PROVE  /\ IsDatabase(View(s))
           /\ \A k : k \in DOMAIN View(s) =>
                View(s)[k] = IF k \in DOMAIN writes[s] THEN writes[s][k] ELSE store[k]
           /\ \A k : k \in DOMAIN View(s) <=>
                IF k \in DOMAIN writes[s] THEN writes[s][k] # NoRow ELSE k \in DOMAIN store
<1>1. /\ \A k : k \in DOMAIN View(s) =>
           View(s)[k] = IF k \in DOMAIN writes[s] THEN writes[s][k] ELSE store[k]
      /\ \A k : k \in DOMAIN View(s) <=>
           IF k \in DOMAIN writes[s] THEN writes[s][k] # NoRow ELSE k \in DOMAIN store
  BY DEF View
<1>2. /\ \A k \in DOMAIN store : k \in Key /\ store[k] \in RowOf(k)
      /\ \A k \in DOMAIN writes[s] : k \in Key /\ writes[s][k] \in RowOf(k) \cup {NoRow}
  BY DEF TypeOK, IsDatabase
<1>3. \A k \in DOMAIN View(s) : k \in Key /\ View(s)[k] \in RowOf(k)
  BY <1>1, <1>2
<1> QED BY <1>1, <1>3 DEF IsDatabase

(* Looking up a key finds its row, which is never taken for no row. *)
LEMMA LookupType ==
    ASSUME NEW db, IsDatabase(db), NEW k
    PROVE  /\ Lookup(db, k) \in Row \cup {NoRow}
           /\ k \in DOMAIN db => Lookup(db, k) = db[k] /\ Lookup(db, k) # NoRow
           /\ k \notin DOMAIN db => Lookup(db, k) = NoRow
<1>1. \A j \in DOMAIN db : db[j] \in Row
  BY RowsAreRows DEF IsDatabase
<1>2. NoRow \notin Row
  BY MarketplaceAssumption
<1> QED BY <1>1, <1>2 DEF Lookup

(* PrepareResults finds nothing wrong, or raises an error. *)
LEMMA PrepareType ==
    \A op, names : PrepareResults(op, names) \in Errors \cup {"null"}
BY DEF PrepareResults, Errors

(* The rows a statement chooses are rows it may visit. *)
LEMMA ChosenVisits ==
    ASSUME TypeInv, NEW s \in Sessions, pc[s] = "query"
    PROVE  \A k \in Chosen(View(s), s, req[s], Statement(s)) : Visits(s, <<k, Lookup(View(s), k)>>)
<1> SUFFICES ASSUME NEW k \in Chosen(View(s), s, req[s], Statement(s))
             PROVE  Visits(s, <<k, Lookup(View(s), k)>>)
  OBVIOUS
<1>1. IsDatabase(View(s))
  BY ViewType DEF TypeInv
<1>2. /\ k \in Aims(s, req[s], Statement(s)) /\ k \in Key
      /\ Statement(s).query \notin Inserts => k \in DOMAIN View(s)
  BY <1>1, StatementType, ChosenAims, AimsAreKeys
<1>3. /\ Lookup(View(s), k) \in Row \cup {NoRow}
      /\ Statement(s).query \notin Inserts => Lookup(View(s), k) # NoRow
  BY <1>1, <1>2, LookupType
<1> QED BY <1>2, <1>3 DEF Visits

(* A session that is let alone stays where it is. *)
LEMMA OtherPosition ==
    ASSUME NEW u \in Sessions, Position(u), pc'[u] = pc[u], req'[u] = req[u], step'[u] = step[u],
           todo'[u] = todo[u], cur'[u] = cur[u]
    PROVE  Position(u)'
<1>1. Statement(u)' = Statement(u)
  BY DEF Statement
<1> QED BY <1>1 DEF Position, Visits

(* An UPDATE or DELETE that does not skip its row finds it in its view. *)
LEMMA RowThere ==
    ASSUME TypeInv, NEW s \in Sessions, pc[s] = "rows", Statement(s).query \notin Inserts, ~Skips(s)
    PROVE  cur[s][1] \in DOMAIN View(s)
<1>1. cur[s][2] # NoRow
  BY DEF TypeInv, Position, Visits
<1>2. ~Gone(s)
  BY DEF Skips
<1>3. Lookup(View(s), cur[s][1]) # NoRow
  BY <1>1, <1>2 DEF Gone
<1> QED BY <1>3 DEF Lookup

(* Continue and Fail leave every session where it can be. *)
LEMMA ContinueType ==
    ASSUME TypeInv, NEW s \in Sessions, pc[s] \in {"query", "rows"}, UNCHANGED req,
           NEW rest, \A t \in rest : Visits(s, t),
           NEW names \in SUBSET Statements, Continue(s, rest, names)
    PROVE  /\ pc' \in [Sessions -> {"idle", "password", "store", "done"} \cup InTransaction]
           /\ step' \in [Sessions -> Nat \ {0}]
           /\ todo' \in [Sessions -> SUBSET (Key \X (Row \cup {NoRow}))]
           /\ cur' \in [Sessions -> (Key \X (Row \cup {NoRow})) \cup {Null}]
           /\ returned' \in [Sessions -> SUBSET Statements]
           /\ \A u \in Sessions : Position(u)'
<1>1. rest \subseteq Key \X (Row \cup {NoRow})
  BY DEF Visits
<1>2. req[s] \in Request /\ step[s] \in 1..Len(Build(req[s]))
  BY DEF TypeInv, Position
<1>3. Len(Build(req[s])) \in Nat
  BY <1>2, BuildType, LenProperties
<1>4. /\ todo' \in [Sessions -> SUBSET (Key \X (Row \cup {NoRow}))]
      /\ returned' \in [Sessions -> SUBSET Statements]
  BY <1>1 DEF Continue, TypeInv, TypeOK
<1>5. /\ pc' \in [Sessions -> {"idle", "password", "store", "done"} \cup InTransaction]
      /\ step' \in [Sessions -> Nat \ {0}]
      /\ cur' \in [Sessions -> (Key \X (Row \cup {NoRow})) \cup {Null}]
  <2> DEFINE T == Key \X (Row \cup {NoRow})
  <2>0. /\ pc \in [Sessions -> {"idle", "password", "store", "done"} \cup InTransaction]
        /\ step \in [Sessions -> Nat \ {0}]
        /\ cur \in [Sessions -> T \cup {Null}]
        /\ rest \subseteq T
    BY <1>1 DEF TypeInv, TypeOK
  <2> HIDE DEF T
  <2>1. cur' \in [Sessions -> T \cup {Null}]
    BY <2>0 DEF Continue
  <2>2. step' \in [Sessions -> Nat \ {0}]
    BY <2>0 DEF Continue
  <2>3. pc' \in [Sessions -> {"idle", "password", "store", "done"} \cup InTransaction]
    BY <2>0 DEF Continue, InTransaction
  <2> QED BY <2>1, <2>2, <2>3 DEF T
<1>6. ASSUME NEW u \in Sessions \ {s} PROVE Position(u)'
  <2>1. pc'[u] = pc[u] /\ step'[u] = step[u] /\ cur'[u] = cur[u] /\ todo'[u] = todo[u] /\ req'[u] = req[u]
    BY DEF Continue, TypeInv, TypeOK
  <2> QED BY <2>1, OtherPosition DEF TypeInv
<1>7. Position(s)'
  <2>1. req'[s] = req[s] /\ todo'[s] = rest
    BY DEF Continue, TypeInv, TypeOK
  <2>2. CASE rest # {}
    <3>1. pc'[s] = "rows" /\ step'[s] = step[s] /\ cur'[s] \in rest
      BY <2>2 DEF Continue, TypeInv, TypeOK
    <3>2. Statement(s)' = Statement(s)
      BY <2>1, <3>1 DEF Statement
    <3> QED BY <1>2, <2>1, <3>1, <3>2 DEF Position, Visits
  <2>3. CASE rest = {} /\ step[s] < Len(Build(req[s]))
    <3>1. pc'[s] = "query" /\ step'[s] = step[s] + 1
      BY <2>3 DEF Continue, TypeInv, TypeOK
    <3> QED BY <1>2, <1>3, <2>1, <2>3, <3>1 DEF Position
  <2>4. CASE rest = {} /\ ~(step[s] < Len(Build(req[s])))
    <3>1. pc'[s] = "commit"
      BY <2>4 DEF Continue, TypeInv, TypeOK
    <3> QED BY <1>2, <2>1, <3>1 DEF Position
  <2> QED BY <2>2, <2>3, <2>4
<1> QED BY <1>4, <1>5, <1>6, <1>7

(* A statement that fails keeps the types. *)
LEMMA FailType ==
    ASSUME TypeInv, NEW s \in Sessions, pc[s] \in {"query", "rows", "commit"}, UNCHANGED <<store, req, step, returned>>,
           NEW e \in Errors, Fail(s, e), UNCHANGED writes
    PROVE  TypeInv'
<1>1. req[s] \in Request
  BY DEF TypeInv, Position
<1>2. TypeOK'
  BY DEF Fail, TypeInv, TypeOK, InTransaction
<1>3. ASSUME NEW u \in Sessions PROVE Position(u)'
  <2>1. CASE u = s
    <3>1. pc'[u] = "rollback" /\ req'[u] = req[u]
      BY <2>1 DEF Fail, TypeInv, TypeOK
    <3> QED BY <1>1, <2>1, <3>1 DEF Position
  <2>2. CASE u # s
    <3>1. pc'[u] = pc[u] /\ step'[u] = step[u] /\ cur'[u] = cur[u] /\ todo'[u] = todo[u] /\ req'[u] = req[u]
      BY <2>2 DEF Fail, TypeInv, TypeOK
    <3> QED BY <3>1, OtherPosition DEF TypeInv
  <2> QED BY <2>1, <2>2
<1> QED BY <1>2, <1>3 DEF TypeInv

(* A step that moves no session into a transaction, or out of its place.   *)
LEMMA MoveType ==
    ASSUME TypeInv, NEW s \in Sessions, TypeOK', UNCHANGED <<step, todo, cur>>,
           \A u \in Sessions \ {s} : pc'[u] = pc[u] /\ req'[u] = req[u],
           req'[s] \in Request, pc'[s] \notin {"query", "rows"},
           pc'[s] \in {"idle", "password", "store"} => step[s] = 1
    PROVE  TypeInv'
<1>1. Position(s)'
  BY DEF Position
<1>2. ASSUME NEW u \in Sessions \ {s} PROVE Position(u)'
  BY OtherPosition DEF TypeInv
<1> QED BY <1>1, <1>2 DEF TypeInv
-----------------------------------------------------------------------------
(* The initial state. *)
LEMMA TypeInit == Init => TypeInv
<1> SUFFICES ASSUME Init PROVE TypeInv
  OBVIOUS
<1>1. IsDatabase(store)
  BY MarketplaceAssumption DEF Init
<1>2. \A s \in Sessions : DOMAIN writes[s] = {}
  BY DEF Init, NoWrites
<1>3. TypeOK
  BY <1>1, <1>2 DEF Init, TypeOK
<1> QED BY <1>3 DEF Init, TypeInv, Position

(* The write of a row in a session's own transaction. *)
LEMMA WriteType ==
    ASSUME TypeOK, NEW s \in Sessions, NEW k \in Key, NEW row \in RowOf(k) \cup {NoRow},
           writes' = [writes EXCEPT ![s] = [j \in DOMAIN writes[s] \cup {k} |-> IF j = k THEN row ELSE writes[s][j]]]
    PROVE  /\ DOMAIN writes' = Sessions
           /\ \A u \in Sessions :
                /\ DOMAIN writes'[u] \subseteq Key
                /\ \A j \in DOMAIN writes'[u] : writes'[u][j] \in RowOf(j) \cup {NoRow}
<1>1. writes'[s] = [j \in DOMAIN writes[s] \cup {k} |-> IF j = k THEN row ELSE writes[s][j]]
  BY DEF TypeOK
<1>2. \A u \in Sessions \ {s} : writes'[u] = writes[u]
  BY DEF TypeOK
<1> QED BY <1>1, <1>2 DEF TypeOK

(* A session's step keeps the types. *)
LEMMA TypeStep ==
    ASSUME TypeInv, NEW s \in Sessions, Execute(s) \/ Handle(s) \/ QueryFails(s)
    PROVE  TypeInv'
<1>0. TypeOK
  BY DEF TypeInv
<1>1. CASE Execute(s)
  <2>1. req'[s] \in Request /\ TypeOK'
    BY <1>0, <1>1, MarketplaceAssumption DEF Execute, TypeOK
  <2>2. pc'[s] \notin {"query", "rows"} /\ step[s] = 1
    BY <1>0, <1>1 DEF Execute, TypeOK, TypeInv, Position
  <2> QED BY <1>0, <1>1, <2>1, <2>2, MoveType DEF Execute, TypeOK
<1>2. CASE IsUserPasswordValid(s)
  <2>1. req[s] \in Request /\ step[s] = 1
    BY <1>2 DEF IsUserPasswordValid, TypeInv, Position
  <2>2. pc'[s] \in {"store", "done"} /\ UNCHANGED <<store, writes, req, step, todo, cur, returned>>
    BY <1>0, <1>2 DEF IsUserPasswordValid, Reject, TypeOK
  <2>3. /\ pc' \in [Sessions -> {"idle", "password", "store", "done"} \cup InTransaction]
        /\ error' \in [Sessions -> Errors \cup {"null"}]
        /\ \A u \in Sessions \ {s} : pc'[u] = pc[u]
    BY <1>0, <1>2 DEF IsUserPasswordValid, Reject, TypeOK, Errors
  <2>4. TypeOK'
    BY <1>0, <2>2, <2>3 DEF TypeOK
  <2> QED BY <2>1, <2>2, <2>3, <2>4, MoveType
<1>3. CASE Store(s)
  <2>1. req[s] \in Request /\ step[s] = 1
    BY <1>3 DEF Store, TypeInv, Position
  <2>2. CASE Build(req[s]) = <<>>
    <3>1. TypeOK' /\ pc'[s] = "done" /\ \A u \in Sessions \ {s} : pc'[u] = pc[u]
      BY <1>0, <1>3, <2>2 DEF Store, Reject, TypeOK, Errors
    <3> QED BY <1>3, <2>1, <3>1, MoveType DEF Store
  <2>3. CASE Build(req[s]) # <<>>
    <3>1. TypeOK' /\ pc'[s] = "query" /\ (\A u \in Sessions \ {s} : pc'[u] = pc[u])
          /\ UNCHANGED <<req, step, todo, cur>>
      BY <1>0, <1>3, <2>3 DEF Store, TypeOK, InTransaction
    <3>2. 1 \in 1..Len(Build(req[s]))
      BY <2>1, <2>3, BuildType, LenProperties
    <3>3. Position(s)'
      BY <2>1, <3>1, <3>2 DEF Position
    <3>4. ASSUME NEW u \in Sessions \ {s} PROVE Position(u)'
      BY <3>1, OtherPosition DEF TypeInv
    <3> QED BY <3>1, <3>3, <3>4 DEF TypeInv
  <2> QED BY <2>2, <2>3
<1>4. CASE NextQuery(s)
  <2>1. pc[s] = "query"
    BY <1>4 DEF NextQuery
  <2>2. CASE Fail(s, "BackreferenceError") /\ UNCHANGED <<step, returned>>
    BY <1>4, <2>1, <2>2, FailType DEF NextQuery, Errors
  <2>3. CASE /\ Continue(s, {<<k, Lookup(View(s), k)>> : k \in Chosen(View(s), s, req[s], Statement(s))}, {})
             /\ UNCHANGED error
    <3> DEFINE chosen == {<<k, Lookup(View(s), k)>> : k \in Chosen(View(s), s, req[s], Statement(s))}
    <3>1. \A t \in chosen : Visits(s, t)
      BY <2>1, ChosenVisits
    <3>2. UNCHANGED <<store, writes, req, error>>
      BY <1>4, <2>3 DEF NextQuery
    <3> HIDE DEF chosen
    <3>3. Continue(s, chosen, {})
      BY <2>3 DEF chosen
    <3> QED BY <1>0, <2>1, <3>1, <3>2, <3>3, ContinueType DEF TypeInv, TypeOK
  <2> QED BY <1>4, <2>2, <2>3 DEF NextQuery
<1>5. CASE VisitRow(s)
  <2>1. /\ pc[s] = "rows" /\ cur[s] \in todo[s] /\ (\A t \in todo[s] : Visits(s, t))
        /\ UNCHANGED <<store, req>>
    BY <1>5 DEF VisitRow, TypeInv, Position
  <2> DEFINE rest == todo[s] \ {cur[s]}
  <2>2. \A t \in rest : Visits(s, t)
    BY <2>1
  <2> HIDE DEF rest
  <2>3. CASE Skips(s) /\ Continue(s, rest, {}) /\ UNCHANGED <<writes, error>>
    BY <1>0, <2>1, <2>2, <2>3, ContinueType DEF TypeInv, TypeOK
  <2>4. CASE ~Skips(s) /\ WriteRow(s)
    <3> DEFINE k == cur[s][1]
               row == Written(View(s), s, req[s], Statement(s), k)
    <3>1. Visits(s, cur[s])
      BY <2>1
    <3>2. k \in Key /\ k \in Aims(s, req[s], Statement(s))
      BY <3>1 DEF Visits
    <3>3. row \in RowOf(k) \cup {NoRow}
      <4>1. IsDatabase(View(s))
        BY <1>0, ViewType
      <4>2. Statement(s).query \in Inserts \/ k \in DOMAIN View(s)
        BY <2>1, <2>4, RowThere
      <4> QED BY <2>1, <3>2, <4>1, <4>2, StatementType, WrittenType
    <3>4. /\ writes' = [writes EXCEPT ![s] = [j \in DOMAIN writes[s] \cup {k} |->
                                                IF j = k THEN row ELSE writes[s][j]]]
          /\ Continue(s, rest, {Statement(s).query} \ Unreturning) /\ UNCHANGED error
      BY <2>4 DEF WriteRow, rest
    <3>5. {Statement(s).query} \ Unreturning \in SUBSET Statements
      BY <2>1, StatementType
    <3> HIDE DEF k, row
    <3>6. /\ DOMAIN writes' = Sessions
          /\ \A u \in Sessions :
               /\ DOMAIN writes'[u] \subseteq Key
               /\ \A j \in DOMAIN writes'[u] : writes'[u][j] \in RowOf(j) \cup {NoRow}
      BY <1>0, <3>2, <3>3, <3>4, WriteType
    <3> QED BY <1>0, <2>1, <2>2, <3>4, <3>5, <3>6, ContinueType DEF TypeInv, TypeOK
  <2>5. CASE /\ Violation(View(s), s, req[s], Statement(s), cur[s][1]) # "null"
             /\ Fail(s, Violation(View(s), s, req[s], Statement(s), cur[s][1]))
             /\ UNCHANGED <<writes, step, returned>>
    BY <2>1, <2>5, ViolationType, FailType
  <2> QED BY <1>5, <2>3, <2>4, <2>5 DEF VisitRow, rest
<1>6. CASE LockRow(s)
  <2> DEFINE k == cur[s][1]
             row == View(s)[k]
  <2>1. pc[s] = "rows" /\ Statement(s).query \notin Inserts /\ ~Skips(s)
    BY <1>6 DEF LockRow, Inserts, Upserts, PlainInserts
  <2>2. k \in DOMAIN View(s)
    BY <2>1, RowThere
  <2>3. k \in Key /\ row \in RowOf(k) \cup {NoRow}
    BY <1>0, <2>2, ViewType DEF IsDatabase
  <2>4. /\ writes' = [writes EXCEPT ![s] = [j \in DOMAIN writes[s] \cup {k} |->
                                             IF j = k THEN row ELSE writes[s][j]]]
        /\ UNCHANGED <<store, req, pc, step, todo, cur, returned, error>>
    BY <1>6 DEF LockRow
  <2> HIDE DEF k, row
  <2>5. TypeOK'
    BY <1>0, <2>3, <2>4, WriteType DEF TypeOK
  <2> QED BY <2>4, <2>5, OtherPosition DEF TypeInv
<1>7. CASE DeadlockDetected(s)
  <2>1. pc[s] = "rows"
    BY <1>7 DEF DeadlockDetected, OnCycle, WaitsFor
  <2> QED BY <1>7, <2>1, FailType DEF DeadlockDetected, Errors
<1>8. CASE QueryFails(s)
  <2>1. CASE pc[s] \in {"query", "rows", "commit"} /\ Fail(s, "QueryExecutionError")
    BY <1>8, <2>1, FailType DEF QueryFails, Errors
  <2>2. CASE pc[s] \in {"password", "store"} /\ Reject(s, "QueryExecutionError") /\ UNCHANGED <<todo, cur>>
    <3>1. req[s] \in Request
      BY <2>2 DEF TypeInv, Position
    <3>2. TypeOK' /\ pc'[s] = "done" /\ \A u \in Sessions \ {s} : pc'[u] = pc[u]
      BY <1>0, <1>8, <2>2 DEF QueryFails, Reject, TypeOK, Errors
    <3> QED BY <1>8, <2>2, <3>1, <3>2, MoveType DEF QueryFails
  <2> QED BY <1>8, <2>1, <2>2 DEF QueryFails
<1>9. CASE Commit(s) \/ CommitUnacknowledged(s)
  <2>0. PICK e \in Errors \cup {"null"} : TakesEffect(s, e)
    BY <1>9, PrepareType DEF Commit, CommitUnacknowledged, Errors
  <2>1. req[s] \in Request
    BY <2>0 DEF TakesEffect, TypeInv, Position
  <2>2. IsDatabase(store')
    BY <1>0, <2>0, ViewType DEF TakesEffect
  <2>3. error' \in [Sessions -> Errors \cup {"null"}]
    BY <1>0, <2>0 DEF TakesEffect, TypeOK
  <2>4. TypeOK' /\ pc'[s] = "done" /\ \A u \in Sessions \ {s} : pc'[u] = pc[u]
    BY <1>0, <2>0, <2>2, <2>3 DEF TakesEffect, TypeOK, NoWrites
  <2> QED BY <2>0, <2>1, <2>4, MoveType DEF TakesEffect
<1>10. CASE Rollback(s)
  <2>1. req[s] \in Request
    BY <1>10 DEF Rollback, TypeInv, Position
  <2>2. TypeOK' /\ pc'[s] = "done" /\ \A u \in Sessions \ {s} : pc'[u] = pc[u]
    BY <1>0, <1>10 DEF Rollback, TypeOK, NoWrites
  <2> QED BY <1>10, <2>1, <2>2, MoveType DEF Rollback
<1> QED BY <1>1, <1>2, <1>3, <1>4, <1>5, <1>6, <1>7, <1>8, <1>9, <1>10 DEF Handle

(* So does every step. *)
LEMMA TypeNext == TypeInv /\ [Next]_vars => TypeInv'
<1> SUFFICES ASSUME TypeInv, [Next]_vars PROVE TypeInv'
  OBVIOUS
<1>1. CASE \E s \in Sessions : Execute(s) \/ Handle(s) \/ QueryFails(s)
  BY <1>1, TypeStep
<1>2. CASE UNCHANGED vars
  <2>1. TypeOK'
    BY <1>2 DEF vars, TypeInv, TypeOK
  <2>2. ASSUME NEW u \in Sessions PROVE Position(u)'
    BY <1>2, OtherPosition DEF vars, TypeInv
  <2> QED BY <2>1, <2>2 DEF TypeInv
<1> QED BY <1>1, <1>2 DEF Next, Terminating

(* Every variable keeps its type, and a session is always at a statement   *)
(* of its own request and at a row of it that exists: the invariant of     *)
(* nextQueryHandler's walk through the queries that build returned.        *)
THEOREM TypeIsInvariant == SafetySpec => []TypeInv
BY TypeInit, TypeNext, PTL DEF SafetySpec

(* Every variable has its type: the rows of a table are rows of that table *)
(* in every reachable state, whatever the requests and however they        *)
(* interleave.                                                             *)
THEOREM Types == Spec => []TypeOK
<1>1. TypeInv => TypeOK
  BY DEF TypeInv
<1> QED BY <1>1, TypeIsInvariant, PTL DEF Spec, SafetySpec
-----------------------------------------------------------------------------
(* What the argument needs of the types: one place and one set of rows per *)
(* session.                                                                *)
ShapeInv ==
    /\ pc \in [Sessions -> {"idle", "password", "store", "done"} \cup InTransaction]
    /\ DOMAIN writes = Sessions

IInv == ShapeInv /\ LocksExclusive
-----------------------------------------------------------------------------
(* The row that s is at is free for it when nobody makes it wait. *)
LEMMA FreeRow ==
    ASSUME NEW s \in Sessions, pc[s] = "rows", \A t \in Sessions : ~WaitsFor(s, t),
           NEW t \in Sessions, t # s
    PROVE  cur[s][1] \notin DOMAIN writes[t]
BY DEF WaitsFor, HasRow

(* A step that writes at most the row it is at, while nobody else has it,  *)
(* and that stays in its transaction, keeps the locks exclusive.           *)
LEMMA WriteKeepsLocks ==
    ASSUME IInv, NEW s \in Sessions, ShapeInv', NEW k,
           pc[s] = "rows", pc'[s] \in InTransaction,
           \A t \in Sessions \ {s} : k \notin DOMAIN writes[t],
           \A t \in Sessions \ {s} : writes'[t] = writes[t] /\ pc'[t] = pc[t],
           DOMAIN writes'[s] \subseteq DOMAIN writes[s] \cup {k}
    PROVE  LocksExclusive'
<1>1. \A t, u \in Sessions : t # u => DOMAIN writes'[t] \cap DOMAIN writes'[u] = {}
  <2> SUFFICES ASSUME NEW t \in Sessions, NEW u \in Sessions, t # u
               PROVE  DOMAIN writes'[t] \cap DOMAIN writes'[u] = {}
    OBVIOUS
  <2>0. DOMAIN writes[t] \cap DOMAIN writes[u] = {}
    BY DEF IInv, LocksExclusive
  <2>1. CASE t = s
    BY <2>0, <2>1
  <2>2. CASE u = s
    BY <2>0, <2>2
  <2>3. CASE t # s /\ u # s
    BY <2>0, <2>3
  <2> QED BY <2>1, <2>2, <2>3
<1>2. \A t \in Sessions : pc'[t] \notin InTransaction => DOMAIN writes'[t] = {}
  <2> SUFFICES ASSUME NEW t \in Sessions, pc'[t] \notin InTransaction
               PROVE  DOMAIN writes'[t] = {}
    OBVIOUS
  <2>1. t # s
    OBVIOUS
  <2> QED BY <2>1 DEF IInv, LocksExclusive
<1> QED BY <1>1, <1>2 DEF LocksExclusive, InTransaction

(* A step that changes no lock, and takes no transaction with locks out of *)
(* the database, keeps them exclusive.                                     *)
LEMMA MoveKeepsLocks ==
    ASSUME IInv, NEW s \in Sessions, UNCHANGED writes,
           \A t \in Sessions \ {s} : pc'[t] = pc[t],
           pc'[s] \in InTransaction \/ pc[s] \notin InTransaction
    PROVE  LocksExclusive'
<1>1. \A t, u \in Sessions : t # u => DOMAIN writes'[t] \cap DOMAIN writes'[u] = {}
  BY DEF IInv, LocksExclusive
<1>2. \A t \in Sessions : pc'[t] \notin InTransaction => DOMAIN writes'[t] = {}
  <2> SUFFICES ASSUME NEW t \in Sessions, pc'[t] \notin InTransaction
               PROVE  DOMAIN writes'[t] = {}
    OBVIOUS
  <2>1. pc[t] \notin InTransaction
    OBVIOUS
  <2> QED BY <2>1 DEF IInv, LocksExclusive
<1> QED BY <1>1, <1>2 DEF LocksExclusive, InTransaction

(* So does one that ends a transaction and drops its locks. *)
LEMMA EndKeepsLocks ==
    ASSUME IInv, NEW s \in Sessions,
           writes' = [writes EXCEPT ![s] = NoWrites],
           \A t \in Sessions \ {s} : pc'[t] = pc[t]
    PROVE  LocksExclusive'
<1>0. DOMAIN writes'[s] = {} /\ \A t \in Sessions \ {s} : writes'[t] = writes[t]
  BY DEF NoWrites, IInv, ShapeInv
<1>1. \A t, u \in Sessions : t # u => DOMAIN writes'[t] \cap DOMAIN writes'[u] = {}
  <2> SUFFICES ASSUME NEW t \in Sessions, NEW u \in Sessions, t # u
               PROVE  DOMAIN writes'[t] \cap DOMAIN writes'[u] = {}
    OBVIOUS
  <2>1. CASE t = s \/ u = s
    BY <1>0, <2>1
  <2>2. CASE t # s /\ u # s
    BY <1>0, <2>2 DEF IInv, LocksExclusive
  <2> QED BY <2>1, <2>2
<1>2. \A t \in Sessions : pc'[t] \notin InTransaction => DOMAIN writes'[t] = {}
  <2> SUFFICES ASSUME NEW t \in Sessions, pc'[t] \notin InTransaction
               PROVE  DOMAIN writes'[t] = {}
    OBVIOUS
  <2>1. CASE t = s
    BY <1>0, <2>1
  <2>2. CASE t # s
    BY <1>0, <2>2 DEF IInv, LocksExclusive
  <2> QED BY <2>1, <2>2
<1> QED BY <1>1, <1>2 DEF LocksExclusive, InTransaction
-----------------------------------------------------------------------------
(* Where a statement that goes on can be next. *)
LEMMA ContinueFacts ==
    ASSUME IInv, NEW s \in Sessions, NEW rest, NEW names, Continue(s, rest, names)
    PROVE  /\ pc' \in [Sessions -> {"idle", "password", "store", "done"} \cup InTransaction]
           /\ pc'[s] \in InTransaction
           /\ \A t \in Sessions \ {s} : pc'[t] = pc[t]
<1>1. PICK l \in {"rows", "query", "commit"} : pc' = [pc EXCEPT ![s] = l]
  BY DEF Continue
<1> QED BY <1>1 DEF IInv, ShapeInv, InTransaction

(* And one that fails. *)
LEMMA FailFacts ==
    ASSUME IInv, NEW s \in Sessions, NEW e, Fail(s, e)
    PROVE  /\ pc' \in [Sessions -> {"idle", "password", "store", "done"} \cup InTransaction]
           /\ pc'[s] \in InTransaction
           /\ \A t \in Sessions \ {s} : pc'[t] = pc[t]
BY DEF Fail, IInv, ShapeInv, InTransaction

(* No request holds a row before its first one. *)
THEOREM InitInv == Init => IInv
BY DEF Init, IInv, ShapeInv, LocksExclusive, NoWrites, InTransaction

(* The steps outside a transaction, and the one that opens it. *)
LEMMA OutsideInv ==
    ASSUME IInv, NEW s \in Sessions,
           \/ Execute(s) \/ IsUserPasswordValid(s) \/ Store(s)
           \/ QueryFails(s) /\ pc[s] \in {"password", "store"}
    PROVE  IInv'
<1>1. /\ pc[s] \in {"idle", "password", "store"}
      /\ UNCHANGED writes
      /\ \E l \in {"password", "store", "query", "done"} : pc' = [pc EXCEPT ![s] = l]
  <2>1. CASE Execute(s)
    BY <2>1 DEF Execute
  <2>2. CASE IsUserPasswordValid(s)
    BY <2>2 DEF IsUserPasswordValid, Reject
  <2>3. CASE Store(s)
    BY <2>3 DEF Store, Reject
  <2>4. CASE QueryFails(s) /\ pc[s] \in {"password", "store"}
    BY <2>4 DEF QueryFails, Reject
  <2> QED BY <2>1, <2>2, <2>3, <2>4
<1>2. ShapeInv'
  BY <1>1 DEF IInv, ShapeInv, InTransaction
<1>3. LocksExclusive'
  <2>1. pc[s] \notin InTransaction /\ \A t \in Sessions \ {s} : pc'[t] = pc[t]
    BY <1>1 DEF InTransaction, IInv, ShapeInv
  <2> QED BY <1>1, <2>1, MoveKeepsLocks
<1> QED BY <1>2, <1>3 DEF IInv

(* The steps within a transaction that lock nothing. *)
LEMMA InsideInv ==
    ASSUME IInv, NEW s \in Sessions,
           NextQuery(s) \/ DeadlockDetected(s) \/ (QueryFails(s) /\ pc[s] \notin {"password", "store"})
    PROVE  IInv'
<1>1. UNCHANGED writes
  BY DEF NextQuery, DeadlockDetected, QueryFails
<1>2. (\E e : Fail(s, e)) \/ (\E rest, names : Continue(s, rest, names))
  BY DEF NextQuery, DeadlockDetected, QueryFails
<1>3. /\ pc' \in [Sessions -> {"idle", "password", "store", "done"} \cup InTransaction]
      /\ pc'[s] \in InTransaction
      /\ \A t \in Sessions \ {s} : pc'[t] = pc[t]
  BY <1>2, ContinueFacts, FailFacts
<1>4. LocksExclusive'
  BY <1>1, <1>3, MoveKeepsLocks
<1> QED BY <1>1, <1>3, <1>4 DEF IInv, ShapeInv

(* A row is written only while nobody else has it. *)
LEMMA VisitRowInv ==
    ASSUME IInv, NEW s \in Sessions, VisitRow(s)
    PROVE  IInv'
<1>1. /\ pc[s] = "rows"
      /\ \A t \in Sessions \ {s} : cur[s][1] \notin DOMAIN writes[t]
  BY FreeRow DEF VisitRow
<1>2. (\E e : Fail(s, e)) \/ (\E rest, names : Continue(s, rest, names))
  BY DEF VisitRow, WriteRow
<1>3. /\ pc' \in [Sessions -> {"idle", "password", "store", "done"} \cup InTransaction]
      /\ pc'[s] \in InTransaction
      /\ \A t \in Sessions \ {s} : pc'[t] = pc[t]
  BY <1>2, ContinueFacts, FailFacts
<1>4. \/ UNCHANGED writes
      \/ \E row : writes' = [writes EXCEPT ![s] = [j \in DOMAIN writes[s] \cup {cur[s][1]} |->
                                                     IF j = cur[s][1] THEN row ELSE writes[s][j]]]
  BY DEF VisitRow, WriteRow
<1>5. CASE UNCHANGED writes
  <2>1. LocksExclusive'
    BY <1>3, <1>5, MoveKeepsLocks
  <2> QED BY <1>3, <1>5, <2>1 DEF IInv, ShapeInv
<1>6. ASSUME NEW row,
             writes' = [writes EXCEPT ![s] = [j \in DOMAIN writes[s] \cup {cur[s][1]} |->
                                                IF j = cur[s][1] THEN row ELSE writes[s][j]]]
      PROVE  IInv'
  <2>1. ShapeInv'
    BY <1>3, <1>6 DEF IInv, ShapeInv
  <2>2. /\ DOMAIN writes'[s] = DOMAIN writes[s] \cup {cur[s][1]}
        /\ \A t \in Sessions \ {s} : writes'[t] = writes[t]
    BY <1>6 DEF IInv, ShapeInv
  <2>3. LocksExclusive'
    BY <1>1, <1>3, <2>1, <2>2, WriteKeepsLocks
  <2> QED BY <2>1, <2>3 DEF IInv
<1> QED BY <1>4, <1>5, <1>6

(* And so it is when change_email locks its row first. *)
LEMMA LockRowInv ==
    ASSUME IInv, NEW s \in Sessions, LockRow(s)
    PROVE  IInv'
<1>1. /\ pc[s] = "rows" /\ UNCHANGED pc
      /\ \A t \in Sessions \ {s} : cur[s][1] \notin DOMAIN writes[t]
  BY DEF LockRow, HasRow
<1>2. ShapeInv'
  BY <1>1 DEF LockRow, IInv, ShapeInv
<1>3. /\ DOMAIN writes'[s] = DOMAIN writes[s] \cup {cur[s][1]}
      /\ \A t \in Sessions \ {s} : writes'[t] = writes[t]
  BY DEF LockRow, IInv, ShapeInv
<1>4. LocksExclusive'
  BY <1>1, <1>2, <1>3, WriteKeepsLocks DEF InTransaction
<1> QED BY <1>2, <1>4 DEF IInv

(* COMMIT and ROLLBACK drop every lock before the client is released. *)
LEMMA EndInv ==
    ASSUME IInv, NEW s \in Sessions, Commit(s) \/ CommitUnacknowledged(s) \/ Rollback(s)
    PROVE  IInv'
<1>1. writes' = [writes EXCEPT ![s] = NoWrites] /\ pc' = [pc EXCEPT ![s] = "done"]
  BY DEF Commit, CommitUnacknowledged, TakesEffect, Rollback
<1>2. ShapeInv' /\ \A t \in Sessions \ {s} : pc'[t] = pc[t]
  BY <1>1 DEF IInv, ShapeInv
<1>3. LocksExclusive'
  BY <1>1, <1>2, EndKeepsLocks
<1> QED BY <1>2, <1>3 DEF IInv

(* Every step keeps the invariant. *)
THEOREM NextInv == IInv /\ [Next]_vars => IInv'
<1> SUFFICES ASSUME IInv, [Next]_vars PROVE IInv'
  OBVIOUS
<1>1. ASSUME NEW s \in Sessions, Execute(s) \/ Handle(s) \/ QueryFails(s) PROVE IInv'
  BY <1>1, OutsideInv, InsideInv, VisitRowInv, LockRowInv, EndInv DEF Handle
<1>2. CASE UNCHANGED vars
  BY <1>2 DEF vars, IInv, ShapeInv, LocksExclusive, InTransaction
<1> QED BY <1>1, <1>2 DEF Next, Terminating
-----------------------------------------------------------------------------
(* No row is written by two open transactions, and no client is released   *)
(* with its transaction open, however many requests there are.             *)
THEOREM Locks == Spec => []LocksExclusive
<1>1. IInv => LocksExclusive
  BY DEF IInv
<1> QED BY <1>1, InitInv, NextInv, PTL DEF Spec, SafetySpec
-----------------------------------------------------------------------------
(* Session s leaves row under key k, in its own transaction. *)
Puts(s, k, row) ==
    writes' = [writes EXCEPT ![s] = [j \in DOMAIN writes[s] \cup {k} |->
                                       IF j = k THEN row ELSE writes[s][j]]]

(* Session s writes the row it is at: nobody holds the row, or is about to *)
(* decide whether the email is free, and no constraint is broken.          *)
Writes(s) ==
    /\ \A t \in Sessions : ~WaitsFor(s, t)
    /\ Violation(View(s), s, req[s], Statement(s), cur[s][1]) = "null"
    /\ Puts(s, cur[s][1], Written(View(s), s, req[s], Statement(s), cur[s][1]))

(* change_email locks its row as it is. *)
LocksRow(s) == cur[s][1] \in DOMAIN View(s) /\ Puts(s, cur[s][1], View(s)[cur[s][1]])

(* The effects of a step on the rows: none, the end of a transaction, or   *)
(* one row in one transaction.                                             *)
LEMMA Effects ==
    ASSUME TypeInv, NEW s \in Sessions, Execute(s) \/ Handle(s) \/ QueryFails(s)
    PROVE  \/ UNCHANGED <<store, writes>> /\ (Execute(s) \/ UNCHANGED req)
           \/ /\ store' = View(s) \/ UNCHANGED store
              /\ writes' = [writes EXCEPT ![s] = NoWrites]
              /\ UNCHANGED req /\ pc'[s] = "done"
           \/ /\ UNCHANGED <<store, req>>
              /\ pc[s] = "rows" /\ ~Skips(s)
              /\ \A t \in Sessions \ {s} : cur[s][1] \notin DOMAIN writes[t]
              /\ Writes(s) \/ LocksRow(s)
<1>1. CASE Execute(s)
  BY <1>1 DEF Execute
<1>2. CASE IsUserPasswordValid(s) \/ Store(s) \/ NextQuery(s) \/ DeadlockDetected(s) \/ QueryFails(s)
  BY <1>2 DEF IsUserPasswordValid, Store, NextQuery, DeadlockDetected, QueryFails
<1>3. CASE VisitRow(s)
  <2>1. /\ pc[s] = "rows" /\ UNCHANGED <<store, req>>
        /\ \A t \in Sessions : ~WaitsFor(s, t)
        /\ \A t \in Sessions \ {s} : cur[s][1] \notin DOMAIN writes[t]
    BY <1>3, FreeRow DEF VisitRow
  <2> QED BY <1>3, <2>1 DEF VisitRow, WriteRow, Writes, Puts
<1>4. CASE LockRow(s)
  <2>1. pc[s] = "rows" /\ ~Skips(s) /\ Statement(s).query \notin Inserts
    BY <1>4 DEF LockRow, Inserts, Upserts, PlainInserts
  <2>2. cur[s][1] \in DOMAIN View(s)
    BY <2>1, RowThere
  <2> QED BY <1>4, <2>1, <2>2 DEF LockRow, HasRow, LocksRow, Puts
<1>5. CASE Commit(s) \/ CommitUnacknowledged(s) \/ Rollback(s)
  BY <1>5 DEF Commit, CommitUnacknowledged, TakesEffect, Rollback, TypeInv, TypeOK
<1> QED BY <1>1, <1>2, <1>3, <1>4, <1>5 DEF Handle

(* What the row it is at has to do with its statement. *)
LEMMA RowAt ==
    ASSUME TypeInv, NEW s \in Sessions, pc[s] = "rows", ~Skips(s)
    PROVE  /\ req[s] \in Request /\ Statement(s) \in StatementOf(req[s])
           /\ cur[s][1] \in Key /\ cur[s][1] \in Aims(s, req[s], Statement(s))
           /\ IsDatabase(View(s))
           /\ Statement(s).query \in Inserts => cur[s][1] = InsertedKey(s, req[s], Statement(s))
           /\ Statement(s).query \notin Inserts =>
                /\ cur[s][1] \in DOMAIN View(s)
                /\ View(s)[cur[s][1]] \in RowOf(cur[s][1])
                /\ StillSelects(Statement(s), View(s)[cur[s][1]])
<1>1. Visits(s, cur[s])
  BY DEF TypeInv, Position
<1>2. req[s] \in Request /\ Statement(s) \in StatementOf(req[s])
  BY StatementType
<1>3. cur[s][1] \in Key /\ cur[s][1] \in Aims(s, req[s], Statement(s))
  BY <1>1 DEF Visits
<1>4. IsDatabase(View(s))
  BY ViewType DEF TypeInv
<1>5. Statement(s).query \in Inserts => cur[s][1] = InsertedKey(s, req[s], Statement(s))
  BY <1>3 DEF Aims
<1>6. ASSUME Statement(s).query \notin Inserts
      PROVE  /\ cur[s][1] \in DOMAIN View(s)
             /\ View(s)[cur[s][1]] \in RowOf(cur[s][1])
             /\ StillSelects(Statement(s), View(s)[cur[s][1]])
  <2>1. cur[s][1] \in DOMAIN View(s)
    BY <1>6, RowThere
  <2>2. StillSelects(Statement(s), View(s)[cur[s][1]])
    BY <1>6 DEF Skips
  <2> QED BY <1>4, <2>1, <2>2 DEF IsDatabase
<1> QED BY <1>2, <1>3, <1>4, <1>5, <1>6

(* Kept rows are never deleted.  A version new may follow old: a closed    *)
(* account or listing does not change, nor does an address, and a listing  *)
(* keeps its contributor.                                                  *)
Kept == AccountKey \cup ListingKey \cup AddressKey \cup ConversationKey \cup MessageKey \cup PictureKey

Follows(k, old, new) ==
    /\ k \in AccountKey \cup ListingKey /\ ~old.open => new = old
    /\ k \in AddressKey => new = old
    /\ k \in ListingKey => new.contributor = old.contributor

(* The row that a session leaves in its transaction, against the one it saw. *)
LEMMA RowLeft ==
    ASSUME TypeInv, NEW s \in Sessions, pc[s] = "rows", ~Skips(s), Writes(s) \/ LocksRow(s)
    PROVE  \E row \in RowOf(cur[s][1]) \cup {NoRow} :
             /\ Puts(s, cur[s][1], row)
             /\ cur[s][1] \in Kept => row # NoRow
             /\ cur[s][1] \in DOMAIN View(s) => Follows(cur[s][1], View(s)[cur[s][1]], row)
<1> DEFINE k == cur[s][1]
           old == View(s)[k]
           row == Written(View(s), s, req[s], Statement(s), k)
<1>0. /\ req[s] \in Request /\ Statement(s) \in StatementOf(req[s])
      /\ k \in Key /\ k \in Aims(s, req[s], Statement(s)) /\ IsDatabase(View(s))
  BY RowAt
<1>1. CASE LocksRow(s)
  <2>1. k \in DOMAIN View(s) /\ old \in RowOf(k) /\ Puts(s, k, old)
    BY <1>0, <1>1 DEF LocksRow, IsDatabase
  <2>2. old # NoRow
    BY <1>0, <2>1, RowsAreRows, MarketplaceAssumption
  <2> QED BY <2>1, <2>2 DEF Follows
<1>2. CASE Writes(s) /\ Statement(s).query \in Inserts
  <2>1. k = InsertedKey(s, req[s], Statement(s)) /\ row = Inserted(View(s), s, req[s], Statement(s), k)
    BY <1>2, RowAt DEF Written
  <2>2. row \in RowOf(k) /\ Puts(s, k, row)
    BY <1>0, <1>2, <2>1, InsertedType DEF Writes
  <2>3. row # NoRow
    BY <1>0, <2>2, RowsAreRows, MarketplaceAssumption
  <2>4. k \in AccountKey \cup ListingKey \cup AddressKey => k \notin DOMAIN View(s)
    BY <1>0, <1>2, <2>1, InsertedKeeps DEF Writes
  <2> HIDE DEF row
  <2> QED BY <2>2, <2>3, <2>4 DEF Follows
<1>3. CASE Writes(s) /\ Statement(s).query \notin Inserts
  <2>1. /\ k \in DOMAIN View(s) /\ old \in RowOf(k) /\ row = Updated(old, s, req[s], Statement(s))
        /\ StillSelects(Statement(s), old)
    BY <1>3, RowAt DEF Written
  <2>2. row \in RowOf(k) \cup {NoRow} /\ Puts(s, k, row)
    BY <1>0, <1>3, <2>1, UpdatedType DEF Writes
  <2>3. /\ k \in AccountKey => Statement(s).query \in AccountUpdates
        /\ k \in ListingKey => /\ Statement(s).query \in ListingUpdates \cup {"close_listings"}
                               /\ row.contributor = old.contributor
                               /\ Statement(s).query = "close_listings" /\ ~old.open => row = old
        /\ k \notin AddressKey
    BY <1>0, <1>3, <2>1, UpdatedKeeps
  <2>4. Statement(s).query \in AccountUpdates \cup ListingUpdates => old.open
    BY <2>1 DEF StillSelects
  <2>5. Statement(s).query \notin {"forget_listing", "drop_extra_media"} => row \in RowOf(k)
    BY <1>0, <1>3, <2>1, UpdatedType
  <2>6. k \in Kept => Statement(s).query \notin {"forget_listing", "drop_extra_media"}
    BY <1>0, <1>3, KeyKinds DEF Aims, Kept
  <2>7. k \in Kept => row # NoRow
    BY <1>0, <2>5, <2>6, RowsAreRows, MarketplaceAssumption
  <2> HIDE DEF row
  <2> QED BY <2>1, <2>2, <2>3, <2>4, <2>7 DEF Follows
<1> QED BY <1>1, <1>2, <1>3
-----------------------------------------------------------------------------
(* Every open transaction's version of a row follows the committed one.    *)
VersionsInv ==
    \A s \in Sessions : \A k \in DOMAIN writes[s] :
        /\ k \in Kept => writes[s][k] # NoRow
        /\ k \in DOMAIN store => Follows(k, store[k], writes[s][k])

SafeInv == TypeInv /\ IInv /\ VersionsInv

(* What a session sees of a kept row follows the committed one. *)
LEMMA SeenFollows ==
    ASSUME TypeOK, VersionsInv, NEW s \in Sessions, NEW k \in DOMAIN store \cap Kept
    PROVE  k \in DOMAIN View(s) /\ Follows(k, store[k], View(s)[k])
<1>1. CASE k \in DOMAIN writes[s]
  BY <1>1, ViewType DEF VersionsInv
<1>2. CASE k \notin DOMAIN writes[s]
  BY <1>2, ViewType DEF Follows
<1> QED BY <1>1, <1>2

(* A version of a version of a row is a version of the row. *)
LEMMA FollowsTransitive ==
    ASSUME NEW k, NEW a, NEW b, NEW c, Follows(k, a, b), Follows(k, b, c)
    PROVE  Follows(k, a, c)
BY DEF Follows

(* Writing a row keeps the versions in order. *)
LEMMA WriteKeepsVersions ==
    ASSUME SafeInv, NEW s \in Sessions, NEW k, NEW row, Puts(s, k, row), UNCHANGED store,
           k \in Kept => row # NoRow,
           k \in DOMAIN View(s) => Follows(k, View(s)[k], row)
    PROVE  VersionsInv'
<1> SUFFICES ASSUME NEW t \in Sessions, NEW j \in DOMAIN writes'[t]
             PROVE  /\ j \in Kept => writes'[t][j] # NoRow
                    /\ j \in DOMAIN store => Follows(j, store[j], writes'[t][j])
  BY DEF VersionsInv
<1>1. /\ writes'[s] = [i \in DOMAIN writes[s] \cup {k} |-> IF i = k THEN row ELSE writes[s][i]]
      /\ \A u \in Sessions \ {s} : writes'[u] = writes[u]
  BY DEF Puts, SafeInv, IInv, ShapeInv
<1>2. CASE t # s \/ j # k
  <2>1. j \in DOMAIN writes[t] /\ writes'[t][j] = writes[t][j]
    BY <1>1, <1>2
  <2> QED BY <2>1 DEF SafeInv, VersionsInv
<1>3. CASE t = s /\ j = k
  <2>1. writes'[t][j] = row
    BY <1>1, <1>3
  <2>2. ASSUME k \in DOMAIN store PROVE Follows(k, store[k], row)
    <3>1. CASE k \in Kept
      BY <2>2, <3>1, SeenFollows, FollowsTransitive DEF SafeInv, TypeInv
    <3>2. CASE k \notin Kept
      BY <3>2 DEF Follows, Kept
    <3> QED BY <3>1, <3>2
  <2> QED BY <1>3, <2>1, <2>2
<1> QED BY <1>2, <1>3

(* The end of a transaction keeps what its writes and those of the others *)
(* follow.                                                                *)
LEMMA EndKeepsVersions ==
    ASSUME SafeInv, NEW s \in Sessions, writes' = [writes EXCEPT ![s] = NoWrites],
           store' = View(s) \/ UNCHANGED store
    PROVE  VersionsInv'
<1> SUFFICES ASSUME NEW t \in Sessions, NEW j \in DOMAIN writes'[t]
             PROVE  /\ j \in Kept => writes'[t][j] # NoRow
                    /\ j \in DOMAIN store' => Follows(j, store'[j], writes'[t][j])
  BY DEF VersionsInv
<1>1. t # s /\ writes'[t] = writes[t] /\ j \in DOMAIN writes[t]
  BY DEF NoWrites, SafeInv, IInv, ShapeInv
<1>2. j \notin DOMAIN writes[s]
  BY <1>1 DEF SafeInv, IInv, LocksExclusive
<1>3. j \in DOMAIN store' => j \in DOMAIN store /\ store'[j] = store[j]
  BY <1>2, ViewType DEF SafeInv, TypeInv
<1> QED BY <1>1, <1>3 DEF SafeInv, VersionsInv

(* Every step keeps what the versions of a row follow. *)
LEMMA SafeStep ==
    ASSUME SafeInv, NEW s \in Sessions, Execute(s) \/ Handle(s) \/ QueryFails(s)
    PROVE  VersionsInv'
<1>1. CASE UNCHANGED <<store, writes>>
  BY <1>1 DEF SafeInv, VersionsInv
<1>2. CASE (store' = View(s) \/ UNCHANGED store) /\ writes' = [writes EXCEPT ![s] = NoWrites]
  BY <1>2, EndKeepsVersions
<1>3. CASE UNCHANGED store /\ pc[s] = "rows" /\ ~Skips(s) /\ (Writes(s) \/ LocksRow(s))
  BY <1>3, RowLeft, WriteKeepsVersions DEF SafeInv
<1> QED BY <1>1, <1>2, <1>3, Effects DEF SafeInv

(* The invariant, for every reachable state. *)
THEOREM SafeIsInvariant == SafetySpec => []SafeInv
<1>1. Init => SafeInv
  BY TypeInit, InitInv DEF Init, NoWrites, SafeInv, VersionsInv
<1>2. SafeInv /\ [Next]_vars => SafeInv'
  <2> SUFFICES ASSUME SafeInv, [Next]_vars PROVE SafeInv'
    OBVIOUS
  <2>1. TypeInv' /\ IInv'
    BY TypeNext, NextInv DEF SafeInv
  <2>2. CASE \E s \in Sessions : Execute(s) \/ Handle(s) \/ QueryFails(s)
    BY <2>1, <2>2, SafeStep DEF SafeInv
  <2>3. CASE UNCHANGED vars
    BY <2>1, <2>3 DEF vars, SafeInv, VersionsInv
  <2> QED BY <2>2, <2>3 DEF Next, Terminating
<1> QED BY <1>1, <1>2, PTL DEF SafetySpec

(* A closed account or listing stays as it was closed, whatever was under  *)
(* way when it was closed and in whatever order the transactions commit:   *)
(* the ClosedDate IS NULL of every change_* and close_*, re-evaluated on   *)
(* the row that a statement waited for.                                    *)
THEOREM ClosedStays == Spec => ClosedIsFinal
<1> DEFINE Final == \A k \in DOMAIN store \cap (ListingKey \cup AccountKey) :
                      ~store[k].open => k \in DOMAIN store' /\ store'[k] = store[k]
<1>1. SafeInv /\ [Next]_vars => [Final]_vars
  <2> SUFFICES ASSUME SafeInv, [Next]_vars PROVE Final
    OBVIOUS
  <2>1. UNCHANGED store \/ \E s \in Sessions : store' = View(s)
    BY Effects DEF Next, Terminating, vars, SafeInv
  <2>2. CASE UNCHANGED store
    BY <2>2
  <2>3. ASSUME NEW s \in Sessions, store' = View(s) PROVE Final
    BY <2>3, SeenFollows DEF SafeInv, TypeInv, Follows, Kept
  <2> QED BY <2>1, <2>2, <2>3
<1> QED BY <1>1, SafeIsInvariant, PTL DEF Spec, SafetySpec, ClosedIsFinal
-----------------------------------------------------------------------------
(* Some version of account k, committed or in a transaction, has email e.  *)
HasVersion(k, e) ==
    \/ k \in DOMAIN store /\ store[k].email = e
    \/ \E s \in Sessions : k \in DOMAIN writes[s] /\ writes[s][k].email = e

(* The account that a request can write. *)
OwnAccount(s) ==
    IF req[s].op = "create-account" THEN <<"account", s>> ELSE <<"account", req[s].actor>>

EmailInv ==
    /\ \A j, k \in AccountKey, e \in Emails : HasVersion(j, e) /\ HasVersion(k, e) => j = k
    /\ \A s \in Sessions : \A k \in DOMAIN writes[s] \cap AccountKey : k = OwnAccount(s)

(* A request writes no account but its own. *)
LEMMA OwnAccountOnly ==
    ASSUME TypeInv, NEW s \in Sessions, pc[s] = "rows", ~Skips(s), cur[s][1] \in AccountKey
    PROVE  cur[s][1] = OwnAccount(s)
<1> DEFINE k == cur[s][1]
           q == Statement(s)
<1>0. req[s] \in Request /\ q \in StatementOf(req[s]) /\ k \in Key /\ k \in Aims(s, req[s], q)
  BY RowAt
<1>1. q.query \in Statements
  BY <1>0, StatementKinds
<1>2. CASE q.query \in Inserts
  <2>1. k = InsertedKey(s, req[s], q)
    BY <1>2, RowAt
  <2>2. q.query = "create_account" /\ k = <<"account", s>>
    BY <1>0, <1>2, <2>1, InsertedKeys, KeyKinds DEF Inserts, Upserts, PlainInserts
  <2> QED BY <1>0, <2>2, StatementKinds DEF OwnAccount, CreateAccountRequest
<1>3. CASE q.query \notin Inserts
  <2>1. q.query \in AccountUpdates
    BY <1>0, <1>1, <1>3, KeyKinds DEF Aims, Statements
  <2>2. k = <<"account", req[s].actor>>
    BY <1>0, <1>3, <2>1 DEF Aims
  <2>3. req[s] \in ModifyAccountRequest \cup CloseAccountRequest
    BY <1>0, <2>1, StatementKinds DEF AccountUpdates
  <2> QED BY <2>2, <2>3 DEF OwnAccount, ModifyAccountRequest, CloseAccountRequest
<1> QED BY <1>2, <1>3

(* The email that a written account gets: the one the session saw, or one  *)
(* that is free, in what it sees and in every transaction that is open.    *)
LEMMA EmailLeft ==
    ASSUME TypeInv, NEW s \in Sessions, pc[s] = "rows", ~Skips(s), Writes(s) \/ LocksRow(s),
           cur[s][1] \in AccountKey
    PROVE  \E row \in AccountRow :
             /\ Puts(s, cur[s][1], row)
             /\ \/ cur[s][1] \in DOMAIN View(s) /\ row.email = View(s)[cur[s][1]].email
                \/ /\ row.email = req[s].email
                   /\ WantsEmail(s)
                   /\ \A t \in Sessions : ~WaitsFor(s, t)
                   /\ ~EmailTaken(View(s), req[s].email, cur[s][1])
<1> DEFINE k == cur[s][1]
           old == View(s)[k]
           q == Statement(s)
           row == Written(View(s), s, req[s], Statement(s), k)
<1>0. /\ req[s] \in Request /\ Statement(s) \in StatementOf(req[s])
      /\ k \in Key /\ k \in Aims(s, req[s], Statement(s)) /\ IsDatabase(View(s))
      /\ RowOf(k) = AccountRow
  BY RowAt, RowKinds
<1>1. CASE LocksRow(s)
  BY <1>0, <1>1 DEF LocksRow, IsDatabase
<1>2. CASE Writes(s) /\ Statement(s).query \in Inserts
  <2>1. k = InsertedKey(s, req[s], Statement(s)) /\ row = Inserted(View(s), s, req[s], Statement(s), k)
    BY <1>2, RowAt DEF Written
  <2>2. row \in AccountRow /\ Puts(s, k, row)
    BY <1>0, <1>2, <2>1, InsertedType DEF Writes
  <2>3. Statement(s).query = "create_account" /\ k = <<"account", s>> /\ row.email = req[s].email
    BY <1>0, <1>2, <2>1, InsertedKeeps DEF Writes
  <2>4. WantsEmail(s) /\ ~EmailTaken(View(s), req[s].email, k)
    BY <1>2, <2>3 DEF WantsEmail, Skips
  <2> HIDE DEF row, k
  <2>5. \A t \in Sessions : ~WaitsFor(s, t)
    BY <1>2 DEF Writes
  <2> QED BY <2>2, <2>3, <2>4, <2>5 DEF k
<1>3. CASE Writes(s) /\ Statement(s).query \notin Inserts
  <2>1. k \in DOMAIN View(s) /\ old \in RowOf(k) /\ row = Updated(old, s, req[s], Statement(s))
    BY <1>3, RowAt DEF Written
  <2>2. /\ Statement(s).query \in AccountUpdates
        /\ row.email = IF Statement(s).query = "change_email" THEN req[s].email ELSE old.email
    BY <1>0, <1>3, <2>1, UpdatedKeeps
  <2>3. row \in AccountRow /\ Puts(s, k, row)
    BY <1>0, <1>3, <2>1, <2>2, UpdatedType DEF Writes, AccountUpdates
  <2>4. Statement(s).query = "change_email" => WantsEmail(s) /\ ~EmailTaken(View(s), req[s].email, k)
    BY <1>3 DEF Writes, Violation, WantsEmail
  <2> HIDE DEF row, k, old
  <2>5. \A t \in Sessions : ~WaitsFor(s, t)
    BY <1>3 DEF Writes
  <2> QED BY <2>1, <2>2, <2>3, <2>4, <2>5 DEF k, old
<1> QED BY <1>1, <1>2, <1>3

(* Such an email is free: no version of another account has it. *)
LEMMA FreeEmail ==
    ASSUME SafeInv, EmailInv, NEW s \in Sessions, pc[s] = "rows", cur[s][1] \in AccountKey,
           ~Skips(s), WantsEmail(s), \A t \in Sessions : ~WaitsFor(s, t), ~EmailTaken(View(s), req[s].email, cur[s][1]),
           NEW j \in AccountKey, j # cur[s][1]
    PROVE  ~HasVersion(j, req[s].email)
<1> DEFINE k == cur[s][1]
           e == req[s].email
<1>1. \A t \in Sessions \ {s} : ~HasEmail(t, e, k)
  BY DEF WaitsFor
<1>2. j \notin DOMAIN writes[s]
  BY OwnAccountOnly DEF EmailInv, SafeInv
<1>3. ~(j \in DOMAIN store /\ store[j].email = e)
  BY <1>2, ViewType DEF EmailTaken, SafeInv, TypeInv
<1>4. \A t \in Sessions \ {s} : ~(j \in DOMAIN writes[t] /\ writes[t][j].email = e)
  BY <1>1 DEF HasEmail
<1> QED BY <1>2, <1>3, <1>4 DEF HasVersion

(* A write leaves emails apart. *)
LEMMA WriteKeepsEmails ==
    ASSUME SafeInv, EmailInv, NEW s \in Sessions, UNCHANGED <<store, req>>,
           pc[s] = "rows", ~Skips(s), Writes(s) \/ LocksRow(s)
    PROVE  EmailInv'
<1>0. TypeInv /\ cur[s][1] \in Key
  BY RowAt DEF SafeInv
<1>k. PICK k \in Key : k = cur[s][1]
  BY <1>0
<1>1. PICK row \in RowOf(k) \cup {NoRow} : Puts(s, k, row)
  BY <1>0, <1>k, RowLeft
<1>2. /\ writes'[s] = [i \in DOMAIN writes[s] \cup {k} |-> IF i = k THEN row ELSE writes[s][i]]
      /\ \A u \in Sessions \ {s} : writes'[u] = writes[u]
  BY <1>1 DEF Puts, SafeInv, IInv, ShapeInv
<1>3. \A j \in AccountKey : \A e : HasVersion(j, e)' => HasVersion(j, e) \/ (j = k /\ row.email = e)
  BY <1>2 DEF HasVersion
<1>4. \A s1 \in Sessions : OwnAccount(s1)' = OwnAccount(s1)
  BY DEF OwnAccount
<1>5. CASE k \notin AccountKey
  BY <1>2, <1>3, <1>4, <1>5 DEF EmailInv
<1>6. CASE k \in AccountKey
  <2>1. PICK new \in AccountRow :
          /\ Puts(s, k, new)
          /\ \/ k \in DOMAIN View(s) /\ new.email = View(s)[k].email
             \/ /\ new.email = req[s].email
                /\ WantsEmail(s)
                /\ \A t \in Sessions : ~WaitsFor(s, t)
                /\ ~EmailTaken(View(s), req[s].email, k)
    BY <1>0, <1>k, <1>6, EmailLeft
  <2>2. row = new
    BY <1>2, <2>1 DEF Puts, SafeInv, IInv, ShapeInv
  <2>3. \A j \in AccountKey, e \in Emails : HasVersion(j, e) /\ HasVersion(k, e)' => j = k
    <3> SUFFICES ASSUME NEW j \in AccountKey, NEW e \in Emails, HasVersion(j, e), j # k
                 PROVE  ~HasVersion(k, e)'
      OBVIOUS
    <3>1. ~HasVersion(k, e)
      BY <1>6 DEF EmailInv
    <3>2. row.email # e
      <4>1. CASE k \in DOMAIN View(s) /\ row.email = View(s)[k].email
        <5>1. HasVersion(k, row.email)
          BY <4>1, ViewType DEF HasVersion, SafeInv, TypeInv
        <5> QED BY <3>1, <5>1
      <4>2. CASE ~(k \in DOMAIN View(s) /\ row.email = View(s)[k].email)
        <5>1. ~HasVersion(j, req[s].email)
          BY <1>k, <1>6, <2>1, <2>2, <4>2, FreeEmail
        <5> QED BY <2>1, <2>2, <4>2, <5>1
      <4> QED BY <4>1, <4>2
    <3> QED BY <1>3, <1>6, <3>1, <3>2
  <2>4. \A i, j \in AccountKey, e \in Emails : HasVersion(i, e)' /\ HasVersion(j, e)' => i = j
    BY <1>3, <2>3 DEF EmailInv
  <2>5. k = OwnAccount(s)
    BY <1>0, <1>k, <1>6, OwnAccountOnly
  <2>6. \A t \in Sessions : \A j \in DOMAIN writes'[t] \cap AccountKey : j = OwnAccount(t)'
    BY <1>2, <1>4, <2>5 DEF EmailInv
  <2> QED BY <2>4, <2>6 DEF EmailInv
<1> QED BY <1>5, <1>6

(* So does the end of a transaction. *)
LEMMA EndKeepsEmails ==
    ASSUME SafeInv, EmailInv, NEW s \in Sessions, UNCHANGED req,
           writes' = [writes EXCEPT ![s] = NoWrites], store' = View(s) \/ UNCHANGED store
    PROVE  EmailInv'
<1>1. DOMAIN writes'[s] = {} /\ \A u \in Sessions \ {s} : writes'[u] = writes[u]
  BY DEF NoWrites, SafeInv, IInv, ShapeInv
<1>2. \A k \in DOMAIN store' :
        \/ k \in DOMAIN store /\ store'[k] = store[k]
        \/ k \in DOMAIN writes[s] /\ store'[k] = writes[s][k]
  BY ViewType DEF SafeInv, TypeInv
<1>3. ASSUME NEW j \in AccountKey, NEW e, HasVersion(j, e)' PROVE HasVersion(j, e)
  <2>1. CASE j \in DOMAIN store' /\ store'[j].email = e
    BY <1>2, <2>1 DEF HasVersion
  <2>2. CASE \E t \in Sessions : j \in DOMAIN writes'[t] /\ writes'[t][j].email = e
    BY <1>1, <2>2 DEF HasVersion
  <2> QED BY <1>3, <2>1, <2>2 DEF HasVersion
<1>4. \A t \in Sessions : OwnAccount(t)' = OwnAccount(t)
  BY DEF OwnAccount
<1> QED BY <1>1, <1>3, <1>4 DEF EmailInv

(* And a new request, which has written nothing yet. *)
LEMMA ExecuteKeepsEmails ==
    ASSUME SafeInv, EmailInv, NEW s \in Sessions, Execute(s)
    PROVE  EmailInv'
<1>1. UNCHANGED <<store, writes>> /\ DOMAIN writes[s] = {}
  BY DEF Execute, SafeInv, IInv, LocksExclusive, InTransaction
<1>2. \A t \in Sessions \ {s} : OwnAccount(t)' = OwnAccount(t)
  BY DEF Execute, OwnAccount, SafeInv, TypeInv, TypeOK
<1>3. \A j, e : HasVersion(j, e)' = HasVersion(j, e)
  BY <1>1 DEF HasVersion
<1> QED BY <1>1, <1>2, <1>3 DEF EmailInv

(* Every step keeps the emails of distinct accounts apart, in all versions. *)
THEOREM EmailIsInvariant == SafetySpec => []EmailInv
<1>1. Init => EmailInv
  BY MarketplaceAssumption DEF Init, NoWrites, EmailInv, HasVersion, EmailTaken
<1>2. SafeInv /\ EmailInv /\ [Next]_vars => EmailInv'
  <2> SUFFICES ASSUME SafeInv, EmailInv, [Next]_vars PROVE EmailInv'
    OBVIOUS
  <2>1. CASE UNCHANGED <<store, writes, req>>
    BY <2>1 DEF EmailInv, HasVersion, OwnAccount
  <2>2. ASSUME NEW s \in Sessions, Execute(s) \/ Handle(s) \/ QueryFails(s) PROVE EmailInv'
    BY <2>1, <2>2, Effects, WriteKeepsEmails, EndKeepsEmails, ExecuteKeepsEmails DEF SafeInv
  <2> QED BY <2>1, <2>2 DEF Next, Terminating, vars
<1> QED BY <1>1, <1>2, SafeIsInvariant, PTL DEF SafetySpec

(* No two accounts ever have the same email, by create-account or by       *)
(* modify-account: two that want one and the same email wait for each      *)
(* other at the unique index, and the second finds it taken.               *)
THEOREM EmailsStayUnique == Spec => []EmailUnique
<1>1. TypeInv /\ EmailInv => EmailUnique
  <2> SUFFICES ASSUME TypeInv, EmailInv, NEW j \in DOMAIN store \cap AccountKey,
                      NEW k \in DOMAIN store \cap AccountKey, store[j].email = store[k].email
               PROVE  j = k
    BY DEF EmailUnique
  <2>1. store[j] \in AccountRow
    BY RowKinds DEF TypeInv, TypeOK, IsDatabase
  <2>2. store[j].email \in Emails
    BY <2>1 DEF AccountRow
  <2> QED BY <2>2 DEF EmailInv, HasVersion
<1> QED BY <1>1, TypeIsInvariant, EmailIsInvariant, PTL DEF Spec, SafetySpec
-----------------------------------------------------------------------------
(* Database new is later than db: it has every kept row, in a version that *)
(* follows.                                                                *)
Later(db, new) == \A k \in DOMAIN db \cap Kept : k \in DOMAIN new /\ Follows(k, db[k], new[k])

(* What a statement has made sure of in the view it chose its row in:      *)
(* change_location of the contributor, create_conversation of the listing, *)
(* create_message of the conversation.                                     *)
Source(db, r, q, k) ==
    /\ q.query = "change_location" => k \in DOMAIN db /\ db[k].contributor = r.actor
    /\ q.query = "create_conversation" => <<"listing", r.listing>> \in DOMAIN db /\ ~Owns(db, r.actor, r.listing)
    /\ q.query = "create_message" => r.conversation \in DOMAIN db /\ IsParty(db, r.actor, r.conversation)

AgreeInv ==
    /\ Agrees(store)
    /\ \A s \in Sessions :
         /\ Agrees(View(s))
         /\ pc[s] = "rows" => \A t \in todo[s] : Source(View(s), req[s], Statement(s), t[1])

(* Owning a listing or an address, and being a party, are for good. *)
LEMMA LaterKeeps ==
    ASSUME NEW db, NEW new, IsDatabase(db), Later(db, new)
    PROVE  /\ \A a, l : <<"listing", l>> \in DOMAIN db =>
                /\ <<"listing", l>> \in DOMAIN new
                /\ Owns(new, a, l) <=> Owns(db, a, l)
           /\ \A a, d : OwnsAddress(db, a, d) => OwnsAddress(new, a, d)
           /\ \A a, c : IsParty(db, a, c) => IsParty(new, a, c)
           /\ \A k \in DOMAIN db \cap Kept : k \in DOMAIN new
<1>1. ASSUME NEW l, <<"listing", l>> \in DOMAIN db
      PROVE  /\ <<"listing", l>> \in DOMAIN new
             /\ new[<<"listing", l>>].contributor = db[<<"listing", l>>].contributor
  <2>1. <<"listing", l>> \in ListingKey
    BY <1>1, KeyKinds DEF IsDatabase
  <2> QED BY <1>1, <2>1 DEF Later, Follows, Kept
<1>2. ASSUME NEW d, <<"address", d>> \in DOMAIN db
      PROVE  <<"address", d>> \in DOMAIN new /\ new[<<"address", d>>] = db[<<"address", d>>]
  <2>1. <<"address", d>> \in AddressKey
    BY <1>2, KeyKinds DEF IsDatabase
  <2> QED BY <1>2, <2>1 DEF Later, Follows, Kept
<1>3. \A a, l : <<"listing", l>> \in DOMAIN db =>
        <<"listing", l>> \in DOMAIN new /\ (Owns(new, a, l) <=> Owns(db, a, l))
  BY <1>1 DEF Owns
<1>4. \A a, d : OwnsAddress(db, a, d) => OwnsAddress(new, a, d)
  BY <1>2 DEF OwnsAddress
<1>5. \A a, c : IsParty(db, a, c) => IsParty(new, a, c)
  BY <1>1 DEF IsParty, Owns
<1>6. \A k \in DOMAIN db \cap Kept : k \in DOMAIN new
  BY DEF Later
<1> QED BY <1>3, <1>4, <1>5, <1>6

(* So a row that agrees with a database agrees with a later one.           *)
LEMMA AgreesOn ==
    ASSUME NEW db, NEW new, IsDatabase(db), Later(db, new), NEW k, NEW row, RowAgrees(db, k, row),
           k \in MessageKey => row.conversation \in ConversationKey
    PROVE  RowAgrees(new, k, row)
<1>1. k \in ConversationKey => <<"listing", k[3]>> \in DOMAIN new /\ ~Owns(new, k[2], k[3])
  <2> SUFFICES ASSUME k \in ConversationKey PROVE <<"listing", k[3]>> \in DOMAIN new /\ ~Owns(new, k[2], k[3])
    OBVIOUS
  <2>1. <<"listing", k[3]>> \in DOMAIN db /\ ~Owns(db, k[2], k[3])
    BY DEF RowAgrees
  <2> QED BY <2>1, LaterKeeps
<1>2. k \in MessageKey => row.conversation \in DOMAIN new /\ IsParty(new, row.sender, row.conversation)
  BY LaterKeeps DEF RowAgrees, Kept
<1>3. k \in ListingKey => OwnsAddress(new, row.contributor, row.address)
  BY LaterKeeps DEF RowAgrees
<1> QED BY <1>1, <1>2, <1>3 DEF RowAgrees

(* What a statement has made sure of stays so in a later database. *)
LEMMA SourceOn ==
    ASSUME NEW db, NEW new, IsDatabase(db), Later(db, new),
           NEW r \in Request, NEW q \in StatementOf(r), NEW s \in Sessions, NEW k \in Aims(s, r, q), Source(db, r, q, k)
    PROVE  Source(new, r, q, k)
<1>1. q.query = "change_location" => k \in ListingKey
  BY AimsAreKeys, KeyKinds DEF Aims, ListingUpdates, Inserts, Upserts, PlainInserts
<1>2. q.query = "create_message" => r.conversation \in ConversationKey
  BY StatementKinds DEF ConversationRequest
<1>3. CASE q.query = "change_location"
  BY <1>1, <1>3 DEF Source, Later, Follows, Kept
<1>4. CASE q.query = "create_conversation"
  BY <1>4, LaterKeeps DEF Source
<1>5. CASE q.query = "create_message"
  BY <1>2, <1>5, LaterKeeps DEF Source, Kept
<1> QED BY <1>3, <1>4, <1>5 DEF Source

(* The rows of messages name conversations. *)
LEMMA MessageRows ==
    ASSUME NEW db, IsDatabase(db), NEW k \in DOMAIN db, k \in MessageKey
    PROVE  db[k].conversation \in ConversationKey
<1>1. db[k] \in MessageRow
  BY RowKinds DEF IsDatabase
<1> QED BY <1>1 DEF MessageRow, ConversationKey

(* Of two databases that agree, one that is later than both, and has its   *)
(* rows from them, agrees.                                                 *)
LEMMA MixedAgrees ==
    ASSUME NEW a, NEW b, NEW new, IsDatabase(a), IsDatabase(b), Agrees(a), Agrees(b),
           Later(a, new), Later(b, new),
           \A k \in DOMAIN new : (k \in DOMAIN a /\ new[k] = a[k]) \/ (k \in DOMAIN b /\ new[k] = b[k])
    PROVE  Agrees(new)
<1> SUFFICES ASSUME NEW k \in DOMAIN new PROVE RowAgrees(new, k, new[k])
  BY DEF Agrees
<1>1. CASE k \in DOMAIN a /\ new[k] = a[k]
  BY <1>1, AgreesOn, MessageRows DEF Agrees
<1>2. CASE k \in DOMAIN b /\ new[k] = b[k]
  BY <1>2, AgreesOn, MessageRows DEF Agrees
<1> QED BY <1>1, <1>2

(* The row that a session leaves agrees with what it saw. *)
LEMMA RowLeftAgrees ==
    ASSUME TypeInv, NEW s \in Sessions, pc[s] = "rows", ~Skips(s), Writes(s) \/ LocksRow(s),
           Agrees(View(s)), Source(View(s), req[s], Statement(s), cur[s][1])
    PROVE  \E row \in RowOf(cur[s][1]) \cup {NoRow} :
             /\ Puts(s, cur[s][1], row)
             /\ cur[s][1] \in Kept => RowAgrees(View(s), cur[s][1], row)
<1> DEFINE k == cur[s][1]
           old == View(s)[k]
           row == Written(View(s), s, req[s], Statement(s), k)
<1>0. /\ req[s] \in Request /\ Statement(s) \in StatementOf(req[s])
      /\ k \in Key /\ k \in Aims(s, req[s], Statement(s)) /\ IsDatabase(View(s))
  BY RowAt
<1>1. CASE LocksRow(s)
  <2>1. k \in DOMAIN View(s) /\ old \in RowOf(k) /\ Puts(s, k, old)
    BY <1>0, <1>1 DEF LocksRow, IsDatabase
  <2> QED BY <2>1 DEF Agrees
<1>2. CASE Writes(s) /\ Statement(s).query \in Inserts
  <2>1. k = InsertedKey(s, req[s], Statement(s)) /\ row = Inserted(View(s), s, req[s], Statement(s), k)
    BY <1>2, RowAt DEF Written
  <2>2. row \in RowOf(k) /\ Puts(s, k, row)
    BY <1>0, <1>2, <2>1, InsertedType DEF Writes
  <2>3. /\ k \in ListingKey => OwnsAddress(View(s), row.contributor, row.address)
        /\ k \in MessageKey => /\ Statement(s).query = "create_message"
                               /\ row.sender = req[s].actor /\ row.conversation = req[s].conversation
        /\ k \in ConversationKey => Statement(s).query = "create_conversation"
    BY <1>0, <1>2, <2>1, InsertedKeeps DEF Writes
  <2>4. Statement(s).query = "create_conversation" => k[2] = req[s].actor /\ k[3] = req[s].listing
    BY <2>1 DEF InsertedKey
  <2>5. /\ k \in ConversationKey => <<"listing", k[3]>> \in DOMAIN View(s) /\ ~Owns(View(s), k[2], k[3])
        /\ k \in MessageKey => row.conversation \in DOMAIN View(s) /\ IsParty(View(s), row.sender, row.conversation)
    BY <2>3, <2>4 DEF Source
  <2> QED BY <2>2, <2>3, <2>5 DEF RowAgrees
<1>3. CASE Writes(s) /\ Statement(s).query \notin Inserts
  <2>1. k \in DOMAIN View(s) /\ old \in RowOf(k) /\ row = Updated(old, s, req[s], Statement(s))
    BY <1>3, RowAt DEF Written
  <2>2. row \in RowOf(k) \cup {NoRow} /\ Puts(s, k, row)
    BY <1>0, <1>3, <2>1, UpdatedType DEF Writes
  <2>3. /\ k \in ListingKey =>
             /\ row.contributor = old.contributor
             /\ row.address = IF Statement(s).query = "change_location" THEN AddressOf(s, req[s]) ELSE old.address
        /\ k \notin MessageKey
    BY <1>0, <1>3, <2>1, UpdatedKeeps
  <2>4. RowAgrees(View(s), k, old)
    BY <2>1 DEF Agrees
  <2>5. Statement(s).query = "change_location" =>
          OwnsAddress(View(s), req[s].actor, AddressOf(s, req[s])) /\ old.contributor = req[s].actor
    BY <1>3 DEF Writes, Violation, Source, Inserts, Upserts, PlainInserts
  <2>6. k \in ListingKey => OwnsAddress(View(s), row.contributor, row.address)
    <3>1. CASE Statement(s).query = "change_location"
      BY <2>3, <2>5, <3>1
    <3>2. CASE Statement(s).query # "change_location"
      BY <2>3, <2>4, <3>2 DEF RowAgrees
    <3> QED BY <3>1, <3>2
  <2> QED BY <2>2, <2>3, <2>4, <2>6 DEF RowAgrees
<1> QED BY <1>1, <1>2, <1>3

(* What a session sees before and after a write of its own. *)
LEMMA WrittenView ==
    ASSUME TypeInv, TypeInv', NEW s \in Sessions, NEW k, NEW row, Puts(s, k, row), UNCHANGED store
    PROVE  /\ \A j \in DOMAIN View(s)' : IF j = k THEN View(s)'[j] = row ELSE j \in DOMAIN View(s) /\ View(s)'[j] = View(s)[j]
           /\ \A j \in DOMAIN View(s) : j # k => j \in DOMAIN View(s)' /\ View(s)'[j] = View(s)[j]
           /\ row # NoRow => k \in DOMAIN View(s)' /\ View(s)'[k] = row
           /\ \A t \in Sessions \ {s} : View(t)' = View(t)
<1>1. /\ writes'[s] = [j \in DOMAIN writes[s] \cup {k} |-> IF j = k THEN row ELSE writes[s][j]]
      /\ \A u \in Sessions \ {s} : writes'[u] = writes[u]
  BY DEF Puts, TypeInv, TypeOK
<1>2. \A t \in Sessions \ {s} : View(t)' = View(t)
  BY <1>1 DEF View
<1>3. /\ \A j : j \in DOMAIN View(s)' =>
           View(s)'[j] = IF j \in DOMAIN writes'[s] THEN writes'[s][j] ELSE store[j]
      /\ \A j : j \in DOMAIN View(s)' <=>
           IF j \in DOMAIN writes'[s] THEN writes'[s][j] # NoRow ELSE j \in DOMAIN store
  BY DEF View
<1>4. /\ \A j : j \in DOMAIN View(s) =>
           View(s)[j] = IF j \in DOMAIN writes[s] THEN writes[s][j] ELSE store[j]
      /\ \A j : j \in DOMAIN View(s) <=>
           IF j \in DOMAIN writes[s] THEN writes[s][j] # NoRow ELSE j \in DOMAIN store
  BY DEF View
<1> QED BY <1>1, <1>2, <1>3, <1>4

(* The rows still to be visited: as they were, or as just chosen. *)
LEMMA TodoStep ==
    ASSUME TypeInv, NEW s \in Sessions, Execute(s) \/ Handle(s) \/ QueryFails(s), pc'[s] = "rows"
    PROVE  /\ req'[s] = req[s] /\ Statement(s)' = Statement(s)
           /\ \/ pc[s] = "rows" /\ todo'[s] \subseteq todo[s]
              \/ /\ pc[s] = "query" /\ UNCHANGED <<store, writes>>
                 /\ \A t \in todo'[s] : t[1] \in Chosen(View(s), s, req[s], Statement(s))
<1>0. /\ pc \in [Sessions -> {"idle", "password", "store", "done"} \cup InTransaction]
      /\ step \in [Sessions -> Nat \ {0}]
      /\ todo \in [Sessions -> SUBSET (Key \X (Row \cup {NoRow}))]
  BY DEF TypeInv, TypeOK
<1>1. CASE \/ Execute(s) \/ IsUserPasswordValid(s) \/ Store(s) \/ DeadlockDetected(s) \/ QueryFails(s)
           \/ Commit(s) \/ CommitUnacknowledged(s) \/ Rollback(s)
  BY <1>0, <1>1 DEF Execute, IsUserPasswordValid, Reject, Store, DeadlockDetected, QueryFails, Fail,
                    Commit, CommitUnacknowledged, TakesEffect, Rollback
<1>2. ASSUME NEW rest, NEW names, Continue(s, rest, names), UNCHANGED req
      PROVE  /\ req'[s] = req[s] /\ Statement(s)' = Statement(s)
             /\ todo'[s] = rest
  <2>1. UNCHANGED step /\ todo'[s] = rest
    BY <1>0, <1>2 DEF Continue
  <2> QED BY <1>2, <2>1 DEF Statement
<1>3. CASE NextQuery(s)
  <2>1. pc[s] = "query" /\ UNCHANGED <<store, writes, req>>
    BY <1>3 DEF NextQuery
  <2> DEFINE chosen == {<<k, Lookup(View(s), k)>> : k \in Chosen(View(s), s, req[s], Statement(s))}
  <2>2. Continue(s, chosen, {})
    BY <1>0, <1>3 DEF NextQuery, Fail
  <2>3. \A t \in chosen : t[1] \in Chosen(View(s), s, req[s], Statement(s))
    OBVIOUS
  <2> HIDE DEF chosen
  <2> QED BY <1>2, <2>1, <2>2, <2>3
<1>4. CASE VisitRow(s)
  <2>1. pc[s] = "rows" /\ UNCHANGED req
    BY <1>4 DEF VisitRow
  <2>2. \E names : Continue(s, todo[s] \ {cur[s]}, names)
    BY <1>0, <1>4 DEF VisitRow, WriteRow, Fail
  <2> QED BY <1>2, <2>1, <2>2
<1>5. CASE LockRow(s)
  <2>1. pc[s] = "rows" /\ UNCHANGED <<req, step, todo>>
    BY <1>5 DEF LockRow
  <2> QED BY <2>1 DEF Statement
<1> QED BY <1>1, <1>3, <1>4, <1>5 DEF Handle

(* The other sessions stay where they are. *)
LEMMA StepFrame ==
    ASSUME TypeInv, NEW s \in Sessions, Execute(s) \/ Handle(s) \/ QueryFails(s),
           NEW t \in Sessions, t # s
    PROVE  /\ pc'[t] = pc[t] /\ req'[t] = req[t] /\ returned'[t] = returned[t]
           /\ error'[t] = error[t] /\ writes'[t] = writes[t]
           /\ todo'[t] = todo[t] /\ step'[t] = step[t]
<1>0. /\ pc \in [Sessions -> {"idle", "password", "store", "done"} \cup InTransaction]
      /\ req \in [Sessions -> Request \cup {Null}]
      /\ returned \in [Sessions -> SUBSET Statements]
      /\ error \in [Sessions -> Errors \cup {"null"}]
      /\ todo \in [Sessions -> SUBSET (Key \X (Row \cup {NoRow}))]
      /\ step \in [Sessions -> Nat \ {0}]
      /\ DOMAIN writes = Sessions
  BY DEF TypeInv, TypeOK
<1>1. CASE Execute(s)
  BY <1>0, <1>1 DEF Execute
<1>2. CASE IsUserPasswordValid(s)
  BY <1>0, <1>2 DEF IsUserPasswordValid, Reject
<1>3. CASE Store(s)
  BY <1>0, <1>3 DEF Store, Reject
<1>4. CASE NextQuery(s)
  BY <1>0, <1>4 DEF NextQuery, Fail, Continue
<1>5. CASE VisitRow(s)
  BY <1>0, <1>5 DEF VisitRow, WriteRow, Fail, Continue
<1>6. CASE LockRow(s)
  BY <1>0, <1>6 DEF LockRow
<1>7. CASE DeadlockDetected(s)
  BY <1>0, <1>7 DEF DeadlockDetected, Fail
<1>8. CASE QueryFails(s)
  BY <1>0, <1>8 DEF QueryFails, Fail, Reject
<1>9. CASE Commit(s) \/ CommitUnacknowledged(s)
  BY <1>0, <1>9 DEF Commit, CommitUnacknowledged, TakesEffect
<1>10. CASE Rollback(s)
  BY <1>0, <1>10 DEF Rollback
<1> QED BY <1>1, <1>2, <1>3, <1>4, <1>5, <1>6, <1>7, <1>8, <1>9, <1>10 DEF Handle

(* A statement chooses a row only where it has made sure of its source. *)
LEMMA ChosenSource ==
    ASSUME NEW db, NEW s, NEW r, NEW q, NEW k \in Chosen(db, s, r, q)
    PROVE  Source(db, r, q, k)
<1>1. CASE q.query = "change_location"
  <2>1. k \in DOMAIN db /\ Selects(db, r, q, k)
    BY <1>1 DEF Chosen, Inserts, Upserts, PlainInserts
  <2>2. db[k].contributor = r.actor
    BY <1>1, <2>1 DEF Selects, AccountUpdates, ListingUpdates
  <2> QED BY <1>1, <2>1, <2>2 DEF Source
<1>2. CASE q.query = "create_conversation"
  <2>1. SelectsSource(db, r, q)
    BY <1>2 DEF Chosen, Inserts, Upserts, PlainInserts
  <2>2. MayConverse(db, r)
    BY <1>2, <2>1 DEF SelectsSource
  <2> QED BY <1>2, <2>2 DEF MayConverse, IsOpenListing, Source
<1>3. CASE q.query = "create_message"
  <2>1. SelectsSource(db, r, q)
    BY <1>3 DEF Chosen, Inserts, Upserts, PlainInserts
  <2>2. MayWrite(db, r)
    BY <1>3, <2>1 DEF SelectsSource
  <2> QED BY <1>3, <2>2 DEF MayWrite, Source
<1> QED BY <1>1, <1>2, <1>3 DEF Source

(* What a step does to what a session sees: rows of it follow, and agree.  *)
(* (Whoever rolls back has seen what never was.)                           *)
LEMMA ViewStep ==
    ASSUME SafeInv, SafeInv', AgreeInv, NEW s \in Sessions, Execute(s) \/ Handle(s) \/ QueryFails(s)
    PROVE  /\ Agrees(store')
           /\ \A t \in Sessions : Agrees(View(t)') /\ (Later(View(t), View(t)') \/ pc'[t] = "done")
<1>0. /\ TypeInv /\ TypeInv' /\ Agrees(store) /\ IsDatabase(store)
      /\ \A t \in Sessions : Agrees(View(t)) /\ IsDatabase(View(t)) /\ Later(View(t), View(t))
  BY ViewType DEF SafeInv, AgreeInv, TypeInv, TypeOK, Later, Follows
<1>1. CASE UNCHANGED <<store, writes>>
  BY <1>0, <1>1 DEF View
<1>2. CASE UNCHANGED store /\ pc[s] = "rows" /\ ~Skips(s) /\ (Writes(s) \/ LocksRow(s))
  <2>k. PICK k \in Key : k = cur[s][1]
    BY <1>0, <1>2, RowAt
  <2>1. PICK row \in RowOf(k) \cup {NoRow} :
          /\ Puts(s, k, row)
          /\ k \in Kept => row # NoRow
          /\ k \in DOMAIN View(s) => Follows(k, View(s)[k], row)
    BY <1>0, <1>2, <2>k, RowLeft
  <2>2. PICK new :
          /\ Puts(s, k, new)
          /\ k \in Kept => RowAgrees(View(s), k, new)
    <3>1. cur[s] \in todo[s]
      BY <1>2 DEF SafeInv, TypeInv, Position
    <3>2. Source(View(s), req[s], Statement(s), k)
      BY <1>2, <2>k, <3>1 DEF AgreeInv
    <3> QED BY <1>0, <1>2, <2>k, <3>2, RowLeftAgrees
  <2>3. new = row
    <3>1. k \in DOMAIN writes'[s] /\ writes'[s][k] = row
      BY <1>0, <2>1 DEF Puts, TypeInv, TypeOK
    <3>2. k \in DOMAIN writes'[s] /\ writes'[s][k] = new
      BY <1>0, <2>2 DEF Puts, TypeInv, TypeOK
    <3> QED BY <3>1, <3>2
  <2>4. /\ \A j \in DOMAIN View(s)' :
             IF j = k THEN View(s)'[j] = row ELSE j \in DOMAIN View(s) /\ View(s)'[j] = View(s)[j]
        /\ \A j \in DOMAIN View(s) : j # k => j \in DOMAIN View(s)' /\ View(s)'[j] = View(s)[j]
        /\ row # NoRow => k \in DOMAIN View(s)' /\ View(s)'[k] = row
        /\ \A t \in Sessions \ {s} : View(t)' = View(t)
    BY <1>0, <1>2, <2>1, WrittenView
  <2>5. Later(View(s), View(s)')
    BY <2>1, <2>4 DEF Later, Follows
  <2>6. ASSUME NEW j \in DOMAIN View(s)' PROVE RowAgrees(View(s)', j, View(s)'[j])
    <3>0. j \in Key /\ View(s)'[j] \in RowOf(j)
      <4>1. /\ j \in DOMAIN View(s)' <=>
                 IF j \in DOMAIN writes'[s] THEN writes'[s][j] # NoRow ELSE j \in DOMAIN store'
            /\ View(s)'[j] = IF j \in DOMAIN writes'[s] THEN writes'[s][j] ELSE store'[j]
        BY DEF View
      <4> QED BY <1>0, <4>1 DEF TypeInv, TypeOK, IsDatabase
    <3>1. RowAgrees(View(s), j, View(s)'[j])
      <4>1. CASE j = k
        BY <2>2, <2>3, <2>4, <4>1 DEF RowAgrees, Kept
      <4>2. CASE j # k
        BY <1>0, <2>4, <4>2 DEF Agrees
      <4> QED BY <4>1, <4>2
    <3>2. j \in MessageKey => View(s)'[j].conversation \in ConversationKey
      <4>1. j \in MessageKey => View(s)'[j] \in MessageRow
        BY <3>0, RowKinds
      <4> QED BY <4>1 DEF MessageRow, ConversationKey
    <3> QED BY <1>0, <2>5, <3>1, <3>2, AgreesOn
  <2> QED BY <1>0, <1>2, <2>4, <2>5, <2>6 DEF Agrees
<1>3. CASE (store' = View(s) \/ UNCHANGED store) /\ writes' = [writes EXCEPT ![s] = NoWrites] /\ pc'[s] = "done"
  <2>1. Agrees(store')
    BY <1>0, <1>3
  <2>2. /\ DOMAIN writes'[s] = {} /\ \A t \in Sessions \ {s} : writes'[t] = writes[t]
    BY <1>3 DEF NoWrites, SafeInv, TypeInv, TypeOK
  <2>3. ASSUME NEW t \in Sessions
        PROVE  /\ \A k : k \in DOMAIN View(t)' =>
                    View(t)'[k] = IF k \in DOMAIN writes'[t] THEN writes'[t][k] ELSE store'[k]
               /\ \A k : k \in DOMAIN View(t)' <=>
                    IF k \in DOMAIN writes'[t] THEN writes'[t][k] # NoRow ELSE k \in DOMAIN store'
    BY DEF View
  <2>4. Agrees(View(s)')
    <3>1. \A k : k \in DOMAIN View(s)' <=> k \in DOMAIN store'
      BY <2>2, <2>3
    <3>2. \A k \in DOMAIN store' : View(s)'[k] = store'[k]
      BY <2>2, <2>3, <3>1
    <3>3. Later(store', View(s)')
      BY <3>1, <3>2 DEF Later, Follows
    <3>4. IsDatabase(store')
      BY <1>0 DEF TypeInv, TypeOK
    <3> QED BY <2>1, <3>1, <3>2, <3>3, <3>4, MixedAgrees
  <2>5. ASSUME NEW t \in Sessions \ {s} PROVE Agrees(View(t)') /\ Later(View(t), View(t)')
    <3>1. CASE UNCHANGED store
      <4>1. View(t)' = View(t)
        BY <2>2, <3>1 DEF View
      <4> QED BY <1>0, <4>1
    <3>2. CASE store' = View(s)
      <4>1. Later(View(t), View(t)')
        <5> SUFFICES ASSUME NEW k \in DOMAIN View(t) \cap Kept
                     PROVE  k \in DOMAIN View(t)' /\ Follows(k, View(t)[k], View(t)'[k])
          BY DEF Later
        <5>1. CASE k \in DOMAIN writes[t]
          BY <1>0, <2>2, <2>3, <5>1, ViewType DEF Follows, TypeInv
        <5>2. CASE k \notin DOMAIN writes[t]
          <6>1. k \in DOMAIN store /\ View(t)[k] = store[k]
            BY <1>0, <5>2, ViewType DEF TypeInv
          <6>2. k \in DOMAIN View(s) /\ Follows(k, store[k], View(s)[k])
            BY <6>1, SeenFollows DEF SafeInv, TypeInv
          <6>3. k \in DOMAIN View(t)' /\ View(t)'[k] = View(s)[k]
            BY <2>2, <2>3, <3>2, <5>2, <6>2
          <6> QED BY <6>1, <6>2, <6>3
        <5> QED BY <5>1, <5>2
      <4>2. Later(View(s), View(t)')
        <5> SUFFICES ASSUME NEW k \in DOMAIN View(s) \cap Kept
                     PROVE  k \in DOMAIN View(t)' /\ Follows(k, View(s)[k], View(t)'[k])
          BY DEF Later
        <5>1. CASE k \in DOMAIN writes[t]
          <6>1. k \notin DOMAIN writes[s]
            BY <5>1 DEF SafeInv, IInv, LocksExclusive
          <6>2. k \in DOMAIN store /\ View(s)[k] = store[k]
            BY <1>0, <6>1, ViewType DEF TypeInv
          <6>3. writes[t][k] # NoRow /\ Follows(k, store[k], writes[t][k])
            BY <5>1, <6>2 DEF SafeInv, VersionsInv
          <6> QED BY <2>2, <2>3, <5>1, <6>2, <6>3
        <5>2. CASE k \notin DOMAIN writes[t]
          BY <2>2, <2>3, <3>2, <5>2 DEF Follows
        <5> QED BY <5>1, <5>2
      <4>3. \A k \in DOMAIN View(t)' :
              \/ k \in DOMAIN View(t) /\ View(t)'[k] = View(t)[k]
              \/ k \in DOMAIN View(s) /\ View(t)'[k] = View(s)[k]
        BY <1>0, <2>2, <2>3, <3>2, ViewType DEF TypeInv
      <4> QED BY <1>0, <4>1, <4>2, <4>3, MixedAgrees
    <3> QED BY <1>3, <3>1, <3>2
  <2> QED BY <1>3, <2>1, <2>4, <2>5
<1> QED BY <1>0, <1>1, <1>2, <1>3, Effects
(* Tables that agree still agree after a step. *)
LEMMA AgreeStep ==
    ASSUME SafeInv, SafeInv', AgreeInv, NEW s \in Sessions, Execute(s) \/ Handle(s) \/ QueryFails(s)
    PROVE  AgreeInv'
<1>1. /\ Agrees(store')
      /\ \A t \in Sessions : Agrees(View(t)') /\ (Later(View(t), View(t)') \/ pc'[t] = "done")
  BY ViewStep
<1>2. ASSUME NEW t \in Sessions, pc[t] = "rows", Later(View(t), View(t)'),
             req'[t] = req[t], Statement(t)' = Statement(t), todo'[t] \subseteq todo[t],
             NEW r \in todo'[t]
      PROVE  Source(View(t)', req'[t], Statement(t)', r[1])
  <2>1. /\ req[t] \in Request /\ Statement(t) \in StatementOf(req[t])
        /\ r[1] \in Aims(t, req[t], Statement(t))
    BY <1>2, StatementType DEF SafeInv, TypeInv, Position, Visits
  <2>2. Source(View(t), req[t], Statement(t), r[1])
    BY <1>2 DEF AgreeInv
  <2>3. IsDatabase(View(t))
    BY ViewType DEF SafeInv, TypeInv
  <2> QED BY <1>2, <2>1, <2>2, <2>3, SourceOn
<1>3. ASSUME NEW t \in Sessions, pc'[t] = "rows", NEW r \in todo'[t]
      PROVE  Source(View(t)', req'[t], Statement(t)', r[1])
  <2>1. Later(View(t), View(t)')
    BY <1>1, <1>3
  <2>2. CASE t # s
    <3>1. pc[t] = "rows" /\ req'[t] = req[t] /\ todo'[t] = todo[t] /\ step'[t] = step[t]
      BY <1>3, <2>2, StepFrame DEF SafeInv
    <3>2. Statement(t)' = Statement(t)
      BY <3>1 DEF Statement
    <3> QED BY <1>2, <1>3, <2>1, <3>1, <3>2
  <2>3. CASE t = s
    <3>1. req'[s] = req[s] /\ Statement(s)' = Statement(s)
      BY <1>3, <2>3, TodoStep DEF SafeInv
    <3>2. CASE pc[s] = "rows" /\ todo'[s] \subseteq todo[s]
      BY <1>2, <1>3, <2>1, <2>3, <3>1, <3>2
    <3>3. CASE UNCHANGED <<store, writes>> /\ r[1] \in Chosen(View(s), s, req[s], Statement(s))
      <4>1. View(s)' = View(s)
        BY <3>3 DEF View
      <4>2. Source(View(s), req[s], Statement(s), r[1])
        BY <3>3, ChosenSource
      <4> QED BY <2>3, <3>1, <4>1, <4>2
    <3> QED BY <1>3, <2>3, <3>2, <3>3, TodoStep DEF SafeInv
  <2> QED BY <2>2, <2>3
<1> QED BY <1>1, <1>3 DEF AgreeInv

(* The tables agree in the database and in whatever a session sees of it.  *)
THEOREM AgreeIsInvariant == SafetySpec => []AgreeInv
<1>1. SafeInv /\ Init => AgreeInv
  <2> SUFFICES ASSUME SafeInv, Init PROVE AgreeInv
    OBVIOUS
  <2>1. Agrees(store) /\ IsDatabase(store)
    BY MarketplaceAssumption DEF Init
  <2>2. ASSUME NEW s \in Sessions PROVE Agrees(View(s))
    <3>1. DOMAIN writes[s] = {}
      BY DEF Init, NoWrites
    <3>2. /\ \A k : k \in DOMAIN View(s) <=> k \in DOMAIN store
          /\ \A k \in DOMAIN View(s) : View(s)[k] = store[k]
      BY <3>1, ViewType DEF SafeInv, TypeInv
    <3>3. Later(store, View(s))
      BY <3>2 DEF Later, Follows
    <3> QED BY <2>1, <3>2, <3>3, MixedAgrees
  <2> QED BY <2>1, <2>2 DEF AgreeInv, Init
<1>2. SafeInv /\ SafeInv' /\ AgreeInv /\ [Next]_vars => AgreeInv'
  <2> SUFFICES ASSUME SafeInv, SafeInv', AgreeInv, [Next]_vars PROVE AgreeInv'
    OBVIOUS
  <2>1. CASE UNCHANGED vars
    BY <2>1 DEF AgreeInv, View, Statement, vars
  <2>2. ASSUME NEW s \in Sessions, Execute(s) \/ Handle(s) \/ QueryFails(s) PROVE AgreeInv'
    BY <2>2, AgreeStep
  <2> QED BY <2>1, <2>2 DEF Next, Terminating
<1> QED BY <1>1, <1>2, SafeIsInvariant, PTL DEF SafetySpec

(* However requests interleave, a conversation is never between an account *)
(* and itself, a message is from one of its two parties, and a listing is  *)
(* at an address of its contributor.                                       *)
THEOREM PartiesStayAgreed == Spec => []PartiesAgree
<1>1. AgreeInv => PartiesAgree
  BY DEF AgreeInv, PartiesAgree
<1> QED BY <1>1, AgreeIsInvariant, PTL DEF Spec, SafetySpec
=============================================================================
