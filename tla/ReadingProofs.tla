---------------------------- MODULE ReadingProofs ----------------------------
(***************************************************************************)
(* What the readers of module Reading are shown, for any sessions and      *)
(* readers, menus, database and pool: however writers commit between the   *)
(* SELECTs of an answer, its parts belong together, its media are whole    *)
(* and not older than its texts, and the answer is current.                *)
(***************************************************************************)
EXTENDS Reading, MarketplaceChangeProofs

(* An open listing has no receiver.  And a transaction leaves a column of  *)
(* a listing as it was committed, or makes it its own when its request is  *)
(* to create or to modify that listing.                                    *)
Titled(t, r, k, row, db) ==
    k \in ListingKey =>
        /\ row.open => row.receiver = Null
        /\ \A c \in ListingColumns :
             \/ row.columns[c] = t /\ (Modifies(r, k[2]) \/ (r.op = "create-listing" /\ k[2] = t))
             \/ k \in DOMAIN db /\ row.columns[c] = db[k].columns[c]

Unreceived(db) == \A k \in DOMAIN db \cap ListingKey : db[k].open => db[k].receiver = Null

ListingInv ==
    /\ Unreceived(store)
    /\ \A t \in Sessions : \A k \in DOMAIN writes[t] : Titled(t, req[t], k, writes[t][k], store)

(* What an UPDATE makes of a listing. *)
LEMMA ListingUpdated ==
    ASSUME NEW s \in Sessions, NEW r \in Request, NEW q \in StatementOf(r),
           q.query \in ListingUpdates \cup {"close_listings"}, NEW row \in ListingRow
    PROVE  LET new == Updated(row, s, r, q) IN
           /\ ~new.open \/ (new.open = row.open /\ new.receiver = row.receiver)
           /\ \A c \in ListingColumns : new.columns[c] = row.columns[c] \/ (new.columns[c] = s /\ r.op = "modify-listing")
<1> DEFINE new == Updated(row, s, r, q)
<1>1. CASE q.query \in {"close_listing", "close_listings"}
  <2>1. new = [row EXCEPT !.open = FALSE, !.receiver = r.receiver] \/ new = [row EXCEPT !.open = FALSE]
    BY <1>1 DEF Updated
  <2>2. ~new.open /\ new.columns = row.columns
    BY <2>1 DEF ListingRow
  <2> QED BY <2>2
<1>2. CASE q.query = "change_location"
  <2>1. new = [row EXCEPT !.address = AddressOf(s, r)]
    BY <1>2 DEF Updated
  <2>2. new.open = row.open /\ new.receiver = row.receiver /\ new.columns = row.columns
    BY <2>1 DEF ListingRow
  <2> QED BY <2>2
<1>3. CASE q.query \in ColumnUpdates
  <2>1. new = [row EXCEPT !.columns[ColumnOf(q)] = s]
    BY <1>3 DEF Updated, ColumnUpdates
  <2>2. r.op = "modify-listing"
    BY <1>3, StatementKinds DEF ColumnUpdates, ModifyListingRequest
  <2>3. /\ new.open = row.open /\ new.receiver = row.receiver
        /\ new.columns = [row.columns EXCEPT ![ColumnOf(q)] = s] /\ DOMAIN row.columns = ListingColumns
    BY <2>1 DEF ListingRow
  <2> QED BY <2>2, <2>3
<1> QED BY <1>1, <1>2, <1>3 DEF ListingUpdates, ColumnUpdates

(* So does the row that a session writes. *)
LEMMA RowTitled ==
    ASSUME TypeInv, ListingInv, NEW s \in Sessions, WroteRow(s) \/ LockedRow(s)
    PROVE  \E row : Puts(s, cur[s][1], row) /\ Titled(s, req[s], cur[s][1], row, store)
<1> DEFINE k == cur[s][1]
           old == View(s)[k]
           q == Statement(s)
           r == req[s]
           row == Written(View(s), s, r, q, k)
<1>0. /\ pc[s] = "rows" /\ ~Skips(s)
      /\ r \in Request /\ q \in StatementOf(r) /\ q.query \in Statements
      /\ k \in Key /\ k \in Aims(s, r, q) /\ IsDatabase(View(s))
      /\ q.query \in Inserts => k = InsertedKey(s, r, q)
      /\ q.query \notin Inserts => k \in DOMAIN View(s) /\ old \in RowOf(k)
  BY RowAt, StatementKinds DEF WroteRow, LockedRow
<1>1. Puts(s, k, old) \/ Puts(s, k, row)
  BY DEF WroteRow, Writes, LockedRow, LocksRow
<1>2. CASE k \notin ListingKey
  BY <1>1, <1>2 DEF Titled
<1>3. CASE k \in ListingKey /\ q.query \in Inserts
  <2>1. q.query = "create_listing" /\ k = <<"listing", s>>
    BY <1>0, <1>3, InsertedKeys, KeyKinds DEF Inserts, Upserts, PlainInserts
  <2>2. r.op = "create-listing"
    BY <1>0, <2>1, StatementKinds DEF CreateListingRequest
  <2>3. row = [contributor |-> r.actor, open |-> TRUE, receiver |-> Null,
               address |-> AddressOf(s, r), columns |-> [c \in ListingColumns |-> s]]
    BY <2>1 DEF Written, Inserted, Inserts, PlainInserts
  <2>4. row.receiver = Null /\ \A c \in ListingColumns : row.columns[c] = s
    BY <2>3
  <2>5. Puts(s, k, row)
    <3>1. q.query # "change_email"
      BY <2>1
    <3> QED BY <3>1 DEF WroteRow, Writes, LockedRow
  <2>6. k[2] = s
    BY <2>1
  <2> HIDE DEF row, k, r
  <2>7. Titled(s, r, k, row, store)
    BY <2>2, <2>4, <2>6 DEF Titled
  <2> QED BY <2>5, <2>7 DEF k, r
<1>4. CASE k \in ListingKey /\ q.query \notin Inserts
  <2>1. q.query \in ListingUpdates \cup {"close_listings"} /\ k \in DOMAIN View(s) /\ old \in ListingRow
    BY <1>0, <1>4, UpdatedKeeps, RowKinds
  <2>2. Titled(s, r, k, old, store)
    <3>1. old = (IF k \in DOMAIN writes[s] THEN writes[s][k] ELSE store[k]) /\ (k \notin DOMAIN writes[s] => k \in DOMAIN store)
      BY <2>1, ViewType DEF TypeInv
    <3> HIDE DEF old, k, r
    <3>2. CASE k \in DOMAIN writes[s]
      BY <3>1, <3>2 DEF ListingInv, r
    <3>3. CASE k \notin DOMAIN writes[s]
      BY <1>4, <3>1, <3>3 DEF ListingInv, Unreceived, Titled
    <3> QED BY <3>2, <3>3
  <2>3. row = Updated(old, s, r, q)
    BY <1>4 DEF Written
  <2>4. r.op = "modify-listing" => Modifies(r, k[2])
    <3> SUFFICES ASSUME r.op = "modify-listing" PROVE k[2] = r.listing
      BY DEF Modifies
    <3>1. q.query # "close_listings"
      BY <1>0, StatementKinds DEF CloseAccountRequest
    <3>2. k = <<"listing", r.listing>>
      BY <1>0, <1>4, <2>1, <3>1 DEF Aims
    <3> QED BY <3>2
  <2>5. Titled(s, r, k, row, store)
    <3>1. /\ ~row.open \/ (row.open = old.open /\ row.receiver = old.receiver)
          /\ \A c \in ListingColumns : row.columns[c] = old.columns[c] \/ (row.columns[c] = s /\ r.op = "modify-listing")
      BY <1>0, <2>1, <2>3, ListingUpdated
    <3> HIDE DEF row, old, k, r
    <3> QED BY <2>2, <2>4, <3>1 DEF Titled
  <2> HIDE DEF row, old
  <2> QED BY <1>1, <2>2, <2>5
<1> QED BY <1>2, <1>3, <1>4

(* Every step keeps it so: a listing that a transaction has written is     *)
(* changed by nobody else.                                                 *)
LEMMA ListingStep ==
    ASSUME SafeInv, SafeInv', ListingInv, NEW s \in Sessions, Execute(s) \/ Handle(s) \/ QueryFails(s)
    PROVE  ListingInv'
<1>0. TypeInv /\ TypeInv' /\ IsDatabase(store)
  BY DEF SafeInv, TypeInv, TypeOK
<1>1. Unreceived(store')
  <2>1. CASE store' = View(s)
    BY <1>0, <2>1, ViewType DEF ListingInv, Unreceived, Titled, TypeInv
  <2>2. CASE UNCHANGED store
    BY <2>2 DEF ListingInv
  <2> QED BY <1>0, <2>1, <2>2, Effects
<1>2. ASSUME NEW t \in Sessions, NEW k \in DOMAIN writes'[t]
      PROVE  Titled(t, req'[t], k, writes'[t][k], store')
  <2>1. ASSUME k \in DOMAIN writes[t], writes'[t][k] = writes[t][k]
        PROVE  Titled(t, req'[t], k, writes'[t][k], store')
    <3>1. Titled(t, req[t], k, writes[t][k], store)
      BY <2>1 DEF ListingInv
    <3>2. pc[t] # "idle"
      BY <2>1 DEF SafeInv, IInv, LocksExclusive, InTransaction
    <3>3. req'[t] = req[t]
      BY <1>0, <3>2, RequestStays
    <3>4. k \in DOMAIN store => k \in DOMAIN store' /\ store'[k] = store[k]
      <4>1. CASE UNCHANGED store
        BY <4>1
      <4>2. CASE ~UNCHANGED store
        <5>1. store' = View(s) /\ writes' = [writes EXCEPT ![s] = NoWrites]
          BY <1>0, <4>2, Effects
        <5>2. t # s
          BY <1>0, <1>2, <5>1 DEF NoWrites, TypeInv, TypeOK
        <5>3. k \notin DOMAIN writes[s]
          BY <2>1, <5>2 DEF SafeInv, IInv, LocksExclusive
        <5> QED BY <1>0, <5>1, <5>3, ViewType DEF TypeInv
      <4> QED BY <4>1, <4>2
    <3> QED BY <2>1, <3>1, <3>3, <3>4 DEF Titled
  <2>2. CASE t # s \/ StaysOutside(s) \/ Fails(s) \/ Chooses(s) \/ PassesRow(s)
    <3>1. writes'[t] = writes[t]
      BY <1>0, <2>2, StepFrame DEF StaysOutside, Fails, Chooses, PassesRow
    <3> QED BY <1>2, <2>1, <3>1
  <2>3. CASE t = s /\ Ends(s)
    BY <1>0, <1>2, <2>3 DEF Ends, NoWrites, TypeInv, TypeOK
  <2>4. CASE t = s /\ (WroteRow(s) \/ LockedRow(s))
    <3>1. PICK row : Puts(s, cur[s][1], row) /\ Titled(s, req[s], cur[s][1], row, store)
      BY <1>0, <2>4, RowTitled
    <3>2. IF k = cur[s][1] THEN writes'[s][k] = row ELSE k \in DOMAIN writes[s] /\ writes'[s][k] = writes[s][k]
      BY <1>0, <1>2, <2>4, <3>1, PutsOne
    <3>3. UNCHANGED <<req, store>>
      BY <2>4 DEF WroteRow, LockedRow
    <3>4. CASE k = cur[s][1]
      BY <2>4, <3>1, <3>2, <3>3, <3>4
    <3> QED BY <2>1, <2>4, <3>2, <3>4
  <2> QED BY <1>0, <2>2, <2>3, <2>4, Steps
<1> QED BY <1>1, <1>2 DEF ListingInv

(* Only close-listing gives a listing a receiver, and only its creation    *)
(* and its modifications change its columns.                               *)
THEOREM ListingIsInvariant == SafetySpec => []ListingInv
<1>1. Init => ListingInv
  BY ReadingAssumption DEF Init, ListingInv, Unreceived, NoWrites
<1>2. (SafeInv /\ SafeInv' /\ ListingInv /\ [Next]_vars) => ListingInv'
  <2> SUFFICES ASSUME SafeInv, SafeInv', ListingInv, [Next]_vars PROVE ListingInv'
    OBVIOUS
  <2>1. CASE UNCHANGED vars
    BY <2>1 DEF vars, ListingInv
  <2>2. ASSUME NEW s \in Sessions, Execute(s) \/ Handle(s) \/ QueryFails(s) PROVE ListingInv'
    BY <2>2, ListingStep
  <2> QED BY <2>1, <2>2 DEF Next, Terminating
<1> QED BY <1>1, <1>2, SafeIsInvariant, PTL DEF SafetySpec
-----------------------------------------------------------------------------
(* What one SELECT reads: a committed database, its rows in agreement, and *)
(* the media of its open listings whole.                                   *)
Sound(db, remade) ==
    /\ IsDatabase(db)
    /\ Agrees(db)
    /\ Unreceived(db)
    /\ \A l \in ListingID :
         IsOpenListing(db, l) /\ ~(l \in Sessions /\ l \in remade) => MediaWhole(db, l)

(* What a reader with request q has found, part by part: each is what its  *)
(* SELECT finds in one committed database (seen), not before the one in    *)
(* which the request came in (was), not after the present one (now), and   *)
(* in the order of the SELECTs.                                            *)
Saw(q, was, parts, seen, now, remade) ==
    \A i \in 1..Len(parts) :
        /\ Sound(seen[i], remade) /\ Later(was, seen[i]) /\ Later(seen[i], now)
        /\ \A j \in i..Len(parts) : Later(seen[i], seen[j])
        /\ parts[i] = [k \in Select(seen[i], q, ReadTemplate(q)[i], parts[1]) |-> seen[i][k]]

(* Where Execute is, and what it has made of the parts.                    *)
Progressed(q, at, parts, e) ==
    /\ at = "select" => Len(parts) < Len(ReadTemplate(q))
    /\ at = "answer" => Len(parts) = Len(ReadTemplate(q))
    /\ at # "idle" /\ IsView(q) /\ Len(parts) > 1 => parts[1] # NoWrites
    /\ at = "done" =>
         \/ e = "QueryExecutionError"
         \/ e = "BackreferenceError" /\ IsView(q) /\ Len(parts) >= 1 /\ parts[1] = NoWrites
         \/ e = "null" /\ Len(parts) = Len(ReadTemplate(q))

Reads(r) ==
    /\ phase[r] \in {"idle", "select", "answer", "done"}
    /\ \E S : found[r] \in Seq(S)
    /\ phase[r] = "idle" => found[r] = <<>>
    /\ phase[r] # "idle" =>
         /\ ask[r] \in ReadRequest
         /\ Sound(before[r], Remade) /\ Later(before[r], store)
         /\ Progressed(ask[r], phase[r], found[r], readError[r])
         /\ \E seen : Saw(ask[r], before[r], found[r], seen, store, Remade)

ReaderInv ==
    /\ /\ DOMAIN ask = Readers /\ DOMAIN phase = Readers /\ DOMAIN found = Readers
       /\ DOMAIN readError = Readers /\ DOMAIN before = Readers
    /\ \A r \in Readers : Reads(r)

(* Later is an order. *)
LEMMA LaterOrder ==
    /\ \A a : Later(a, a)
    /\ \A a, b, c : Later(a, b) /\ Later(b, c) => Later(a, c)
<1>1. \A a : Later(a, a)
  BY DEF Later, Follows
<1>2. ASSUME NEW a, NEW b, NEW c, Later(a, b), Later(b, c) PROVE Later(a, c)
  BY <1>2, FollowsTransitive DEF Later
<1> QED BY <1>1, <1>2

(* The requests of the readers. *)
LEMMA ReadKinds ==
    ASSUME NEW q \in ReadRequest
    PROVE  /\ q.op \in {"view-listing", "view-accountListing", "view-account", "view-conversation",
                        "search-listing", "search-accountListing", "search-savedListing",
                        "search-conversation", "search-address"}
           /\ q.op \in {"view-listing", "view-accountListing"} => q.listing \in ListingID
           /\ q.op \in {"view-accountListing", "view-conversation"} => q.actor \in AccountID
           /\ q.op = "view-account" => q.account \in AccountID
           /\ q.op = "view-conversation" => q.conversation \in ConversationKey
BY DEF ReadRequest, ViewListingRequest, ViewAccountListingRequest, ViewAccountRequest, ViewConversationRequest,
       SearchListingRequest, SearchRequest

(* The lengths of the templates. *)
LEMMA TemplateLengths ==
    ASSUME NEW q \in ReadRequest
    PROVE  Len(ReadTemplate(q)) = IF q.op = "view-conversation" THEN 2 ELSE IF IsView(q) THEN 3 ELSE 1
<1>1. CASE q.op \in {"view-listing", "view-accountListing"}
  <2>1. ReadTemplate(q) = <<"get_listing", "get_location", "get_media">>
    BY <1>1 DEF ReadTemplate, ListingTemplate
  <2> QED BY <1>1, <2>1 DEF IsView
<1>2. CASE q.op = "view-account"
  <2>1. ReadTemplate(q) = <<"get_account", "get_picture", "get_listings">>
    BY <1>2 DEF ReadTemplate
  <2> QED BY <1>2, <2>1 DEF IsView
<1>3. CASE q.op = "view-conversation"
  <2>1. ReadTemplate(q) = <<"get_conversation", "get_messages">>
    BY <1>3 DEF ReadTemplate
  <2> QED BY <1>3, <2>1 DEF IsView
<1>4. CASE q.op \notin {"view-listing", "view-accountListing", "view-account", "view-conversation"}
  <2>1. \E name : ReadTemplate(q) = <<name>>
    BY <1>4 DEF ReadTemplate
  <2> QED BY <1>4, <2>1 DEF IsView
<1> QED BY <1>1, <1>2, <1>3, <1>4

(* What the SELECTs of a view of a listing find. *)
LEMMA ListingSelects ==
    ASSUME NEW q \in ReadRequest, q.op \in {"view-listing", "view-accountListing"}, NEW db, NEW rows
    PROVE  /\ \A k : k \in Select(db, q, ReadTemplate(q)[1], rows) <=> k = <<"listing", q.listing>> /\ k \in Wanted(db, q)
           /\ \A k \in Select(db, q, ReadTemplate(q)[2], rows) : k[1] = "address"
           /\ \A j \in DOMAIN rows \cap ListingKey :
                <<"address", rows[j].address>> \in DOMAIN db =>
                  <<"address", rows[j].address>> \in Select(db, q, ReadTemplate(q)[2], rows)
           /\ \A k : k \in Select(db, q, ReadTemplate(q)[3], rows) <=> k \in MediaIn(db, q.listing)
<1>1. ReadTemplate(q) = <<"get_listing", "get_location", "get_media">>
  BY DEF ReadTemplate, ListingTemplate
<1>2. Select(db, q, "get_listing", rows) = Wanted(db, q)
  BY DEF Select, Wanted
<1>3. Select(db, q, "get_location", rows) = {<<"address", rows[k].address>> : k \in DOMAIN rows \cap ListingKey} \cap DOMAIN db
  BY DEF Select
<1>4. Select(db, q, "get_media", rows) = MediaIn(db, q.listing)
  BY DEF Select, Media, MediaIn
<1>5. \A k \in Wanted(db, q) : k = <<"listing", q.listing>>
  BY DEF Wanted
<1> QED BY <1>1, <1>2, <1>3, <1>4, <1>5

(* What those of a view of an account find. *)
LEMMA AccountSelects ==
    ASSUME NEW q \in ReadRequest, q.op = "view-account", NEW db, NEW rows
    PROVE  /\ \A k : k \in Select(db, q, ReadTemplate(q)[1], rows) <=> k = <<"account", q.account>> /\ k \in Wanted(db, q)
           /\ \A k \in Select(db, q, ReadTemplate(q)[2], rows) : k[1] = "picture"
           /\ \A k : k \in Select(db, q, ReadTemplate(q)[3], rows) <=> k \in AllMatching(db, q)
<1>1. ReadTemplate(q) = <<"get_account", "get_picture", "get_listings">>
  BY DEF ReadTemplate
<1>2. Select(db, q, "get_account", rows) = Wanted(db, q)
  BY DEF Select, Wanted
<1>3. Select(db, q, "get_picture", rows) = {<<"picture", k[2]>> : k \in DOMAIN rows \cap AccountKey} \cap DOMAIN db
  BY DEF Select
<1>4. Select(db, q, "get_listings", rows) = AllMatching(db, q)
  BY DEF Select
<1>5. \A k \in Wanted(db, q) : k = <<"account", q.account>>
  BY DEF Wanted
<1> QED BY <1>1, <1>2, <1>3, <1>4, <1>5

(* And what those of a view of a conversation find. *)
LEMMA ConversationSelects ==
    ASSUME NEW q \in ReadRequest, q.op = "view-conversation", NEW db, NEW rows
    PROVE  /\ \A k : k \in Select(db, q, ReadTemplate(q)[1], rows) <=>
                       MayRead(db, q) /\ k \in JoinedConversation(db, q.conversation)
           /\ \A k : k \in Select(db, q, ReadTemplate(q)[2], rows) <=>
                       k \in DOMAIN db \cap MessageKey /\ db[k].conversation \in DOMAIN rows \cap ConversationKey
<1>1. ReadTemplate(q) = <<"get_conversation", "get_messages">>
  BY DEF ReadTemplate
<1>2. Select(db, q, "get_conversation", rows) = UNION {JoinedConversation(db, c) : c \in {d \in {q.conversation} : MayRead(db, q)}}
  BY DEF Select
<1>3. Select(db, q, "get_messages", rows)
        = {k \in DOMAIN db \cap MessageKey : db[k].conversation \in DOMAIN rows \cap ConversationKey}
  BY DEF Select
<1> QED BY <1>1, <1>2, <1>3

(* What the SELECT of a search finds. *)
LEMMA SearchSelects ==
    ASSUME NEW q \in ReadRequest, ~IsView(q), NEW db, NEW rows
    PROVE  LET part == Select(db, q, ReadTemplate(q)[1], rows) IN
           /\ q.op \in {"search-listing", "search-accountListing", "search-savedListing"} =>
                \A k : k \in part <=> k \in AllMatching(db, q)
           /\ q.op = "search-conversation" =>
                \A k : k \in part <=> \E c \in DOMAIN db \cap ConversationKey :
                                        db[c].open /\ IsParty(db, q.actor, c) /\ k \in JoinedConversation(db, c)
           /\ q.op = "search-address" => part \subseteq DOMAIN db \cap AddressKey
<1> DEFINE name == ReadTemplate(q)[1]
<1>1. CASE q.op \in {"search-listing", "search-accountListing", "search-savedListing"}
  <2>1. ReadTemplate(q) = <<"get_listing">>
    BY <1>1 DEF ReadTemplate
  <2>2. name = "get_listing"
    BY <2>1
  <2> HIDE DEF name
  <2>3. Select(db, q, name, rows) = AllMatching(db, q)
    BY <1>1, <2>2 DEF Select
  <2> QED BY <1>1, <2>3 DEF name
<1>2. CASE q.op = "search-conversation"
  <2>1. ReadTemplate(q) = <<"get_conversations">>
    BY <1>2 DEF ReadTemplate
  <2>2. name = "get_conversations"
    BY <2>1
  <2> HIDE DEF name
  <2>3. Select(db, q, name, rows)
          = UNION {JoinedConversation(db, c) : c \in {d \in DOMAIN db \cap ConversationKey : db[d].open /\ IsParty(db, q.actor, d)}}
    BY <1>2, <2>2 DEF Select
  <2> QED BY <1>2, <2>3 DEF name
<1>3. CASE q.op = "search-address"
  <2>1. ReadTemplate(q) = <<"get_addresses">>
    BY <1>3 DEF ReadTemplate
  <2>2. name = "get_addresses"
    BY <2>1
  <2> HIDE DEF name
  <2>3. Select(db, q, name, rows) = {k \in DOMAIN db \cap AddressKey : db[k].owner = q.actor}
    BY <1>3, <2>2 DEF Select
  <2> QED BY <1>3, <2>3 DEF name
<1> QED BY <1>1, <1>2, <1>3, ReadKinds DEF IsView

(* Only the second SELECT of a view reads the rows of the first. *)
LEMMA FirstRowsOnly ==
    ASSUME NEW q \in ReadRequest, NEW db, NEW rows, NEW other, NEW i \in 1..Len(ReadTemplate(q)), i # 2
    PROVE  Select(db, q, ReadTemplate(q)[i], rows) = Select(db, q, ReadTemplate(q)[i], other)
<1> DEFINE name == ReadTemplate(q)[i]
<1>1. name \notin {"get_location", "get_picture", "get_messages"}
  <2>1. CASE q.op \in {"view-listing", "view-accountListing"}
    <3>1. ReadTemplate(q) = <<"get_listing", "get_location", "get_media">>
      BY <2>1 DEF ReadTemplate, ListingTemplate
    <3> QED BY <3>1
  <2>2. CASE q.op = "view-account"
    <3>1. ReadTemplate(q) = <<"get_account", "get_picture", "get_listings">>
      BY <2>2 DEF ReadTemplate
    <3> QED BY <3>1
  <2>3. CASE q.op = "view-conversation"
    <3>1. ReadTemplate(q) = <<"get_conversation", "get_messages">>
      BY <2>3 DEF ReadTemplate
    <3> QED BY <3>1
  <2>4. CASE q.op \notin {"view-listing", "view-accountListing", "view-account", "view-conversation"}
    <3>1. PICK x \in {"get_conversations", "get_addresses", "get_listing"} : ReadTemplate(q) = <<x>>
      BY <2>4 DEF ReadTemplate
    <3> QED BY <3>1
  <2> QED BY <2>1, <2>2, <2>3, <2>4
<1> HIDE DEF name
<1>2. Select(db, q, name, rows) = Select(db, q, name, other)
  BY <1>1 DEF Select
<1> QED BY <1>2 DEF name

(* An account or listing that is open was open before. *)
LEMMA OpenStays ==
    ASSUME NEW a, NEW b, Later(a, b), NEW k \in (AccountKey \cup ListingKey) \cap DOMAIN a
    PROVE  k \in DOMAIN b /\ (b[k].open => a[k].open)
BY DEF Later, Follows, Kept

(* What a request asks for in a database, in terms of the row it is about. *)
LEMMA WantedRows ==
    ASSUME NEW q \in ReadRequest, IsView(q), NEW db
    PROVE  LET k == Sought(q) IN
           /\ Wanted(db, q) \subseteq {k} \cap DOMAIN db
           /\ q.op \in {"view-listing", "view-account"} => (Wanted(db, q) # {} <=> k \in DOMAIN db /\ db[k].open)
           /\ q.op = "view-accountListing" =>
                (Wanted(db, q) # {} <=> k \in DOMAIN db /\ q.actor \in {db[k].contributor, db[k].receiver})
           /\ q.op = "view-conversation" => (Wanted(db, q) # {} <=> k \in DOMAIN db /\ IsParty(db, q.actor, k))
           /\ q.op \in {"view-listing", "view-accountListing"} => k = <<"listing", q.listing>> /\ k \in ListingKey
           /\ q.op = "view-account" => k = <<"account", q.account>> /\ k \in AccountKey
           /\ q.op = "view-conversation" => k = q.conversation /\ k \in ConversationKey
<1>1. CASE q.op = "view-listing"
  <2>1. q.listing \in ListingID
    BY <1>1, ReadKinds
  <2> QED BY <1>1, <2>1 DEF Wanted, Sought, IsOpenListing, ListingKey
<1>2. CASE q.op = "view-accountListing"
  <2>1. q.listing \in ListingID
    BY <1>2, ReadKinds
  <2> QED BY <1>2, <2>1 DEF Wanted, Sought, ListingKey
<1>3. CASE q.op = "view-account"
  <2>1. q.account \in AccountID
    BY <1>3, ReadKinds
  <2> QED BY <1>3, <2>1 DEF Wanted, Sought, AccountKey
<1>4. CASE q.op = "view-conversation"
  <2>1. q.conversation \in ConversationKey
    BY <1>4, ReadKinds
  <2> QED BY <1>4, <2>1 DEF Wanted, Sought
<1> QED BY <1>1, <1>2, <1>3, <1>4 DEF IsView

(* The first SELECT of a view finds just that. *)
LEMMA FirstFindsWanted ==
    ASSUME NEW q \in ReadRequest, IsView(q), NEW db, NEW rows
    PROVE  LET part == Select(db, q, ReadTemplate(q)[1], rows) IN
           /\ part # {} <=> Wanted(db, q) # {}
           /\ q.op # "view-conversation" => part = Wanted(db, q)
<1> DEFINE part == Select(db, q, ReadTemplate(q)[1], rows)
<1>1. CASE q.op # "view-conversation"
  <2>1. \A k : k \in part <=> k \in Wanted(db, q)
    <3>1. \A k : k \in part <=> k = Sought(q) /\ k \in Wanted(db, q)
      <4>1. CASE q.op \in {"view-listing", "view-accountListing"}
        <5>1. Sought(q) = <<"listing", q.listing>>
          BY <4>1 DEF Sought
        <5>2. \A k : k \in Select(db, q, ReadTemplate(q)[1], rows) <=> k = <<"listing", q.listing>> /\ k \in Wanted(db, q)
          BY <4>1, ListingSelects
        <5> QED BY <5>1, <5>2
      <4>2. CASE q.op = "view-account"
        <5>1. Sought(q) = <<"account", q.account>>
          BY <4>2 DEF Sought
        <5>2. \A k : k \in Select(db, q, ReadTemplate(q)[1], rows) <=> k = <<"account", q.account>> /\ k \in Wanted(db, q)
          BY <4>2, AccountSelects
        <5> QED BY <5>1, <5>2
      <4> QED BY <1>1, <4>1, <4>2 DEF IsView
    <3> HIDE DEF part
    <3> QED BY <3>1, WantedRows
  <2> HIDE DEF part
  <2> QED BY <1>1, <2>1 DEF part
<1>2. CASE q.op = "view-conversation"
  <2>1. \A k : k \in part <=> MayRead(db, q) /\ k \in JoinedConversation(db, q.conversation)
    BY <1>2, ConversationSelects
  <2>2. q.conversation \in JoinedConversation(db, q.conversation)
    BY DEF JoinedConversation
  <2>3. Wanted(db, q) # {} <=> MayRead(db, q)
    BY <1>2, WantedRows DEF MayRead, Sought
  <2> HIDE DEF part
  <2>4. part # {} <=> Wanted(db, q) # {}
    BY <2>1, <2>2, <2>3
  <2> QED BY <1>2, <2>4 DEF part
<1> QED BY <1>1, <1>2

(* What a request asks for at two moments it asks for in between. *)
LEMMA WantedBetween ==
    ASSUME NEW q \in ReadRequest, IsView(q), NEW a, NEW b, NEW c, Later(a, b), Later(b, c),
           IsDatabase(a), Unreceived(a), Wanted(a, q) \cap Wanted(c, q) # {}
    PROVE  Wanted(b, q) # {}
<1> DEFINE k == Sought(q)
<1>0. Wanted(a, q) # {} /\ Wanted(c, q) # {} /\ k \in DOMAIN a /\ k \in DOMAIN c
  BY WantedRows
<1>1. CASE q.op \in {"view-listing", "view-account"}
  <2>1. k \in AccountKey \cup ListingKey
    BY <1>1, WantedRows
  <2>2. k \in DOMAIN b
    BY <1>0, <2>1, OpenStays
  <2>3. c[k].open => b[k].open
    BY <2>1, <2>2, OpenStays
  <2> QED BY <1>0, <1>1, <2>2, <2>3, WantedRows
<1>2. CASE q.op = "view-accountListing"
  <2>1. k \in ListingKey /\ q.actor \in AccountID
    BY <1>2, WantedRows, ReadKinds
  <2>2. k \in DOMAIN b /\ Follows(k, a[k], b[k]) /\ Follows(k, b[k], c[k])
    BY <1>0, <2>1 DEF Later, Kept
  <2>3. q.actor \in {a[k].contributor, a[k].receiver} /\ q.actor \in {c[k].contributor, c[k].receiver}
    BY <1>0, <1>2, WantedRows
  <2>4. CASE q.actor = a[k].contributor
    <3>1. q.actor = b[k].contributor
      BY <2>1, <2>2, <2>4 DEF Follows
    <3> QED BY <1>2, <2>2, <3>1, WantedRows
  <2>5. CASE q.actor = a[k].receiver
    <3>1. q.actor # Null
      BY <2>1, SchemaAssumption DEF AccountID
    <3>2. ~a[k].open
      BY <1>0, <2>1, <2>5, <3>1 DEF Unreceived
    <3>3. b[k] = a[k]
      BY <2>1, <2>2, <3>2 DEF Follows
    <3> QED BY <1>2, <2>2, <2>5, <3>3, WantedRows
  <2> QED BY <2>3, <2>4, <2>5
<1>3. CASE q.op = "view-conversation"
  <2>1. k \in DOMAIN a \cap Kept /\ IsParty(a, q.actor, k)
    BY <1>0, <1>3, WantedRows DEF Kept
  <2>2. k \in DOMAIN b /\ IsParty(b, q.actor, k)
    BY <2>1, LaterKeeps
  <2> QED BY <1>3, <2>2, WantedRows
<1> QED BY <1>1, <1>2, <1>3 DEF IsView

(* And what it asks for at one moment, of a row that was there before, or  *)
(* is not there after, it asks for before or after.                        *)
LEMMA WantedAround ==
    ASSUME NEW q \in ReadRequest, IsView(q), NEW a, NEW b, NEW c, Later(a, b), Later(b, c),
           IsDatabase(b), Unreceived(b), Wanted(b, q) # {}, Sought(q) \in DOMAIN a \/ Sought(q) \notin DOMAIN c
    PROVE  Wanted(a, q) # {} \/ Wanted(c, q) # {}
<1> DEFINE k == Sought(q)
<1>0. k \in DOMAIN b /\ k \in Kept
  BY WantedRows DEF Kept, IsView
<1>1. k \in DOMAIN c /\ Follows(k, b[k], c[k]) /\ k \in DOMAIN a
  BY <1>0 DEF Later
<1>2. CASE q.op \in {"view-listing", "view-account"}
  <2>1. k \in AccountKey \cup ListingKey /\ b[k].open
    BY <1>2, WantedRows
  <2>2. a[k].open
    BY <1>1, <2>1, OpenStays
  <2> QED BY <1>1, <1>2, <2>2, WantedRows
<1>3. CASE q.op = "view-accountListing"
  <2>1. k \in ListingKey /\ q.actor \in AccountID /\ q.actor \in {b[k].contributor, b[k].receiver}
    BY <1>3, WantedRows, ReadKinds
  <2>2. CASE q.actor = b[k].contributor
    <3>1. q.actor = c[k].contributor
      BY <1>1, <2>1, <2>2 DEF Follows
    <3> QED BY <1>1, <1>3, <3>1, WantedRows
  <2>3. CASE q.actor = b[k].receiver
    <3>1. q.actor # Null
      BY <2>1, SchemaAssumption DEF AccountID
    <3>2. ~b[k].open
      BY <1>0, <2>1, <2>3, <3>1 DEF Unreceived
    <3>3. c[k] = b[k]
      BY <1>1, <2>1, <3>2 DEF Follows
    <3> QED BY <1>1, <1>3, <2>3, <3>3, WantedRows
  <2> QED BY <2>1, <2>2, <2>3
<1>4. CASE q.op = "view-conversation"
  <2>1. IsParty(c, q.actor, k)
    BY <1>4, WantedRows, LaterKeeps
  <2> QED BY <1>1, <1>4, <2>1, WantedRows
<1> QED BY <1>2, <1>3, <1>4 DEF IsView
-----------------------------------------------------------------------------
(* What is committed is sound, and every step of a writer leaves a later   *)
(* database.                                                               *)
LEMMA StoreIsSound ==
    ASSUME SafeInv, AgreeInv, ListingInv, MediaInv
    PROVE  Sound(store, Remade)
BY DEF Sound, SafeInv, TypeInv, TypeOK, AgreeInv, ListingInv, MediaInv, Exempt

(* Writers leave a later database, and take back no modification asked for. *)
LEMMA StoreOnward ==
    ASSUME SafeInv, [Next]_vars
    PROVE  Later(store, store') /\ Remade \subseteq Remade'
<1>1. CASE UNCHANGED vars
  BY <1>1, LaterOrder DEF vars, Remade
<1>2. ASSUME NEW s \in Sessions, Execute(s) \/ Handle(s) \/ QueryFails(s) PROVE Later(store, store') /\ Remade \subseteq Remade'
  <2>1. UNCHANGED store \/ store' = View(s)
    BY <1>2, Effects DEF SafeInv
  <2>2. Later(store, store')
    BY <2>1, SeenFollows, LaterOrder DEF Later, SafeInv, TypeInv
  <2> QED BY <1>2, <2>2, RequestStays DEF SafeInv
<1> QED BY <1>1, <1>2 DEF Next, Terminating

(* What a reader has seen stays what it is. *)
LEMMA SoundStays ==
    ASSUME NEW db, NEW R, NEW T, R \subseteq T, Sound(db, R)
    PROVE  Sound(db, T)
BY DEF Sound

(* So does the order of what it has seen.                                  *)
LEMMA SawStays ==
    ASSUME NEW q, NEW was, NEW parts, NEW seen, NEW now, NEW R, Saw(q, was, parts, seen, now, R),
           NEW new, Later(now, new), NEW T, R \subseteq T
    PROVE  Saw(q, was, parts, seen, new, T)
<1> SUFFICES ASSUME NEW i \in 1..Len(parts)
             PROVE  /\ Sound(seen[i], T) /\ Later(was, seen[i]) /\ Later(seen[i], new)
                    /\ \A j \in i..Len(parts) : Later(seen[i], seen[j])
                    /\ parts[i] = [k \in Select(seen[i], q, ReadTemplate(q)[i], parts[1]) |-> seen[i][k]]
  BY DEF Saw
<1>1. /\ Sound(seen[i], R) /\ Later(was, seen[i]) /\ Later(seen[i], now)
      /\ \A j \in i..Len(parts) : Later(seen[i], seen[j])
      /\ parts[i] = [k \in Select(seen[i], q, ReadTemplate(q)[i], parts[1]) |-> seen[i][k]]
  BY DEF Saw
<1>2. Later(seen[i], new)
  BY <1>1, LaterOrder
<1>3. Sound(seen[i], T)
  BY <1>1, SoundStays
<1> QED BY <1>1, <1>2, <1>3

(* One part more. *)
LEMMA Appended ==
    ASSUME NEW S, NEW p \in Seq(S), NEW x
    PROVE  LET n == Len(p)
               new == Append(p, x) IN
           /\ n \in Nat /\ Len(new) = n + 1 /\ new[n + 1] = x
           /\ \A i \in 1..n : new[i] = p[i]
           /\ \E T : new \in Seq(T)
<1>1. p \in Seq(S \cup {x}) /\ x \in S \cup {x}
  OBVIOUS
<1> QED BY <1>1, AppendProperties

(* The next SELECT, in what is committed now, is the latest. *)
LEMMA SawMore ==
    ASSUME NEW q \in ReadRequest, NEW was, NEW S, NEW parts \in Seq(S), NEW seen, NEW now, NEW R,
           Saw(q, was, parts, seen, now, R), Sound(now, R), Later(was, now), Len(parts) < Len(ReadTemplate(q)),
           NEW rows, Len(parts) = 1 => rows = parts[1],
           NEW x, x = [k \in Select(now, q, ReadTemplate(q)[Len(parts) + 1], rows) |-> now[k]]
    PROVE  \E more : Saw(q, was, Append(parts, x), more, now, R)
<1> DEFINE n == Len(parts)
           new == Append(parts, x)
           more == [i \in 1..(n + 1) |-> IF i <= n THEN seen[i] ELSE now]
<1>1. /\ n \in Nat /\ Len(new) = n + 1 /\ new[n + 1] = x
      /\ \A i \in 1..n : new[i] = parts[i]
  BY Appended
<1>2. \A i \in 1..n : more[i] = seen[i]
  BY <1>1
<1>3. more[n + 1] = now
  BY <1>1
<1>4. Len(ReadTemplate(q)) \in Nat /\ n + 1 \in 1..Len(ReadTemplate(q))
  BY <1>1, TemplateLengths
<1> SUFFICES Saw(q, was, new, more, now, R)
  OBVIOUS
<1> HIDE DEF more, new, n
<1> SUFFICES ASSUME NEW i \in 1..(n + 1)
             PROVE  /\ Sound(more[i], R) /\ Later(was, more[i]) /\ Later(more[i], now)
                    /\ \A j \in i..(n + 1) : Later(more[i], more[j])
                    /\ new[i] = [k \in Select(more[i], q, ReadTemplate(q)[i], new[1]) |-> more[i][k]]
  BY <1>1 DEF Saw
<1>5. CASE i \in 1..n
  <2>1. /\ Sound(seen[i], R) /\ Later(was, seen[i]) /\ Later(seen[i], now)
        /\ \A j \in i..n : Later(seen[i], seen[j])
        /\ parts[i] = [k \in Select(seen[i], q, ReadTemplate(q)[i], parts[1]) |-> seen[i][k]]
    BY <1>5 DEF Saw, n
  <2>2. \A j \in i..(n + 1) : Later(more[i], more[j])
    BY <1>1, <1>2, <1>3, <1>5, <2>1
  <2>3. new[1] = parts[1]
    BY <1>1, <1>5
  <2> QED BY <1>1, <1>2, <1>5, <2>1, <2>2, <2>3
<1>6. CASE i = n + 1
  <2>1. \A j \in i..(n + 1) : Later(more[i], more[j])
    BY <1>1, <1>3, <1>6, LaterOrder
  <2>2. Select(now, q, ReadTemplate(q)[i], rows) = Select(now, q, ReadTemplate(q)[i], new[1])
    <3>1. CASE n = 1
      <4>1. rows = new[1]
        BY <1>1, <3>1 DEF n
      <4> QED BY <4>1
    <3>2. CASE n # 1
      BY <1>1, <1>4, <1>6, <3>2, FirstRowsOnly
    <3> QED BY <3>1, <3>2
  <2>3. new[i] = [k \in Select(now, q, ReadTemplate(q)[i], rows) |-> now[k]]
    BY <1>1, <1>6 DEF n
  <2> QED BY <1>3, <1>6, <2>1, <2>2, <2>3, LaterOrder
<1> QED BY <1>1, <1>5, <1>6

(* A SELECT refers to the first one only, in views; their second does.     *)
LEMMA References ==
    ASSUME NEW q \in ReadRequest, NEW m \in 1..Len(ReadTemplate(q))
    PROVE  LET t == ReadTemplate(q) IN
           /\ \A i \in 1..Len(t) : t[i] \in RefersTo(t[m]) => i = 1 /\ IsView(q)
           /\ IsView(q) /\ m = 2 => t[1] \in RefersTo(t[m])
<1> DEFINE t == ReadTemplate(q)
<1>1. CASE q.op \in {"view-listing", "view-accountListing"}
  <2>1. t = <<"get_listing", "get_location", "get_media">>
    BY <1>1 DEF ReadTemplate, ListingTemplate
  <2>2. t[1] = "get_listing" /\ t[2] = "get_location" /\ t[3] = "get_media" /\ Len(t) = 3 /\ m \in 1..3
    BY <2>1
  <2> HIDE DEF t
  <2>3. RefersTo(t[m]) = IF m = 2 THEN {"get_listing"} ELSE {}
    BY <2>2 DEF RefersTo
  <2> QED BY <1>1, <2>2, <2>3 DEF IsView, t
<1>2. CASE q.op = "view-account"
  <2>1. t = <<"get_account", "get_picture", "get_listings">>
    BY <1>2 DEF ReadTemplate
  <2>2. t[1] = "get_account" /\ t[2] = "get_picture" /\ t[3] = "get_listings" /\ Len(t) = 3 /\ m \in 1..3
    BY <2>1
  <2> HIDE DEF t
  <2>3. RefersTo(t[m]) = IF m = 1 THEN {} ELSE {"get_account"}
    BY <2>2 DEF RefersTo
  <2> QED BY <1>2, <2>2, <2>3 DEF IsView, t
<1>3. CASE q.op = "view-conversation"
  <2>1. t = <<"get_conversation", "get_messages">>
    BY <1>3 DEF ReadTemplate
  <2>2. t[1] = "get_conversation" /\ t[2] = "get_messages" /\ Len(t) = 2 /\ m \in 1..2
    BY <2>1
  <2> HIDE DEF t
  <2>3. RefersTo(t[m]) = IF m = 1 THEN {} ELSE {"get_conversation"}
    BY <2>2 DEF RefersTo
  <2> QED BY <1>3, <2>2, <2>3 DEF IsView, t
<1>4. CASE q.op \notin {"view-listing", "view-accountListing", "view-account", "view-conversation"}
  <2>1. PICK x \in {"get_conversations", "get_addresses", "get_listing"} : t = <<x>>
    BY <1>4 DEF ReadTemplate
  <2>2. t[1] = x /\ Len(t) = 1 /\ m = 1
    BY <2>1
  <2> HIDE DEF t
  <2>3. RefersTo(t[m]) = {}
    BY <2>2 DEF RefersTo
  <2> QED BY <1>4, <2>2, <2>3 DEF IsView, t
<1> QED BY <1>1, <1>2, <1>3, <1>4

(* After one part, its rows are all there are. *)
LEMMA RowsOfOne ==
    ASSUME NEW r \in Readers, NEW S, found[r] \in Seq(S), Len(found[r]) = 1,
           NEW D, NEW db, found[r][1] = [k \in D |-> db[k]]
    PROVE  Rows(r) = found[r][1]
<1>1. DOMAIN found[r] = {1}
  OBVIOUS
<1>2. UNION {DOMAIN found[r][i] : i \in DOMAIN found[r]} = D
  BY <1>1
<1>3. ASSUME NEW k \in D PROVE (CHOOSE i \in DOMAIN found[r] : k \in DOMAIN found[r][i]) = 1
  BY <1>1
<1> QED BY <1>2, <1>3 DEF Rows

(* A reader that another reader's or a writer's step leaves alone. *)
LEMMA OtherReads ==
    ASSUME NEW r \in Readers, Reads(r), Later(store, store'), Remade \subseteq Remade',
           ask'[r] = ask[r], phase'[r] = phase[r], found'[r] = found[r],
           readError'[r] = readError[r], before'[r] = before[r]
    PROVE  Reads(r)'
<1>1. CASE phase[r] = "idle"
  BY <1>1 DEF Reads
<1>2. CASE phase[r] # "idle"
  <2>1. PICK seen : Saw(ask[r], before[r], found[r], seen, store, Remade)
    BY <1>2 DEF Reads
  <2>2. Saw(ask[r], before[r], found[r], seen, store', Remade')
    BY <2>1, SawStays
  <2>3. Sound(before[r], Remade') /\ Later(before[r], store')
    BY <1>2, SoundStays, LaterOrder DEF Reads
  <2>4. (\E any : Saw(ask[r], before[r], found[r], any, store, Remade))'
    BY <2>2
  <2> QED BY <1>2, <2>3, <2>4 DEF Reads
<1> QED BY <1>1, <1>2

(* The steps of a reader. *)
LEMMA AskReads ==
    ASSUME ReaderInv, Sound(store, Remade), NEW r \in Readers, Ask(r), UNCHANGED <<vars, order>>
    PROVE  Reads(r)'
<1>1. PICK q \in ReadMenu : ask' = [ask EXCEPT ![r] = q]
  BY DEF Ask
<1>2. /\ ask'[r] \in ReadRequest /\ phase'[r] = "select" /\ before'[r] = store /\ found'[r] = <<>>
      /\ store' = store /\ Remade' = Remade
  <2>1. phase[r] = "idle" /\ found[r] = <<>>
    BY DEF Ask, ReaderInv, Reads
  <2>2. store' = store /\ Remade' = Remade
    BY DEF vars, Remade
  <2>3. DOMAIN ask = Readers /\ DOMAIN phase = Readers /\ DOMAIN before = Readers
    BY DEF ReaderInv
  <2>4. /\ phase' = [phase EXCEPT ![r] = "select"] /\ before' = [before EXCEPT ![r] = store] /\ found' = found
    BY DEF Ask
  <2> QED BY <1>1, <2>1, <2>2, <2>3, <2>4, ReadingAssumption
<1>3. Len(found'[r]) = 0 /\ found'[r] \in Seq({})
  BY <1>2
<1>4. Len(ReadTemplate(ask'[r])) > 0
  BY <1>2, TemplateLengths
<1>5. Progressed(ask'[r], phase'[r], found'[r], readError'[r])
  BY <1>2, <1>3, <1>4, TemplateLengths DEF Progressed
<1>6. \A seen : Saw(ask'[r], before'[r], found'[r], seen, store', Remade')
  BY <1>3 DEF Saw
<1>7. Sound(before'[r], Remade') /\ Later(before'[r], store')
  BY <1>2, LaterOrder
<1>8. (\E seen : Saw(ask[r], before[r], found[r], seen, store, Remade))'
  BY <1>6
<1>9. (\E S : found[r] \in Seq(S))'
  BY <1>3
<1> QED BY <1>2, <1>5, <1>7, <1>8, <1>9 DEF Reads

(* A SELECT that fails, or the answer, ends it.                            *)
LEMMA EndReads ==
    ASSUME ReaderInv, NEW r \in Readers, SelectFails(r) \/ Answer(r), UNCHANGED <<vars, order>>
    PROVE  Reads(r)'
<1>1. /\ ask'[r] = ask[r] /\ found'[r] = found[r] /\ before'[r] = before[r] /\ store' = store /\ Remade' = Remade
      /\ phase[r] # "idle" /\ phase'[r] = "done" /\ Reads(r)
  BY DEF SelectFails, Answer, ReaderInv, vars, Remade
<1>2. \/ readError'[r] = "QueryExecutionError"
      \/ readError'[r] = "null" /\ Len(found[r]) = Len(ReadTemplate(ask[r]))
  <2>1. CASE SelectFails(r)
    BY <2>1 DEF SelectFails, ReaderInv
  <2>2. CASE Answer(r)
    <3>1. Len(found[r]) = Len(ReadTemplate(ask[r])) /\ ask[r] \in ReadRequest
      BY <1>1, <2>2 DEF Answer, Reads, Progressed
    <3>2. IsView(ask[r]) => found[r][1] # NoWrites /\ 1 \in DOMAIN found[r]
      <4> SUFFICES ASSUME IsView(ask[r]) PROVE found[r][1] # NoWrites /\ 1 \in DOMAIN found[r]
        OBVIOUS
      <4>1. Len(found[r]) > 1
        BY <3>1, TemplateLengths DEF IsView
      <4>2. PICK S : found[r] \in Seq(S)
        BY <1>1 DEF Reads
      <4> QED BY <1>1, <4>1, <4>2 DEF Reads, Progressed
    <3>3. readError'[r] = "null"
      BY <2>2, <3>2 DEF Answer, ReaderInv
    <3> QED BY <3>1, <3>3
  <2> QED BY <2>1, <2>2
<1>3. Progressed(ask[r], "done", found[r], readError'[r])
  BY <1>1, <1>2 DEF Reads, Progressed
<1>4. (\E S : found[r] \in Seq(S))' /\ (\E seen : Saw(ask[r], before[r], found[r], seen, store, Remade))'
  BY <1>1 DEF Reads
<1> QED BY <1>1, <1>3, <1>4 DEF Reads

(* A SELECT adds a part, or ends it for want of the row it refers to.      *)
LEMMA SelectReads ==
    ASSUME ReaderInv, Sound(store, Remade), NEW r \in Readers, NextSelect(r), UNCHANGED <<vars, order>>
    PROVE  Reads(r)'
<1> DEFINE q == ask[r]
           parts == found[r]
           n == Len(parts)
           t == ReadTemplate(q)
           unresolved == \E i \in DOMAIN parts : t[i] \in RefersTo(t[n + 1]) /\ parts[i] = NoWrites
           x == [k \in Select(store, q, t[n + 1], Rows(r)) |-> store[k]]
<1>1. /\ ask'[r] = q /\ before'[r] = before[r] /\ store' = store /\ Remade' = Remade
      /\ phase[r] = "select" /\ Reads(r) /\ q \in ReadRequest /\ Later(before[r], store)
      /\ n < Len(t) /\ (IsView(q) /\ n > 1 => parts[1] # NoWrites)
  <2>1. phase[r] = "select" /\ ask' = ask /\ before' = before
    BY DEF NextSelect
  <2>2. store' = store /\ Remade' = Remade
    BY DEF vars, Remade
  <2>3. Reads(r)
    BY DEF ReaderInv
  <2> QED BY <2>1, <2>2, <2>3 DEF Reads, Progressed
<1>2. PICK S : parts \in Seq(S)
  BY <1>1 DEF Reads
<1>3. PICK seen : Saw(q, before[r], parts, seen, store, Remade)
  BY <1>1 DEF Reads
<1>4. n \in Nat /\ DOMAIN parts = 1..n /\ n + 1 \in 1..Len(t)
  BY <1>1, <1>2, TemplateLengths
<1>5. CASE unresolved
  <2>1. found'[r] = parts /\ readError'[r] = "BackreferenceError" /\ phase'[r] = "done"
    BY <1>5 DEF NextSelect, ReaderInv
  <2>2. PICK i \in 1..n : t[i] \in RefersTo(t[n + 1]) /\ parts[i] = NoWrites
    BY <1>4, <1>5
  <2>3. i = 1 /\ IsView(q)
    BY <1>1, <1>4, <2>2, References
  <2>4. Progressed(q, "done", parts, "BackreferenceError")
    BY <1>1, <1>4, <2>2, <2>3 DEF Progressed
  <2>5. (\E any : found[r] \in Seq(any))' /\ (\E any : Saw(ask[r], before[r], found[r], any, store, Remade))'
    BY <1>1, <1>2, <1>3, <2>1
  <2> QED BY <1>1, <2>1, <2>4, <2>5 DEF Reads
<1>6. CASE ~unresolved
  <2>1. /\ found'[r] = Append(parts, x) /\ readError'[r] = readError[r]
        /\ phase'[r] = IF Len(found'[r]) = Len(t) THEN "answer" ELSE phase[r]
    BY <1>6 DEF NextSelect, ReaderInv
  <2>2. n = 1 => Rows(r) = parts[1]
    BY <1>2, <1>3, <1>4, RowsOfOne DEF Saw
  <2>3. PICK more : Saw(q, before[r], Append(parts, x), more, store, Remade)
    <3> HIDE DEF t, q, parts, n
    <3>1. Len(parts) = 1 => Rows(r) = parts[1]
      BY <2>2 DEF n
    <3>2. Len(parts) < Len(ReadTemplate(q)) /\ x = [k \in Select(store, q, ReadTemplate(q)[Len(parts) + 1], Rows(r)) |-> store[k]]
      BY <1>1 DEF n, t
    <3> HIDE DEF x
    <3> QED BY <1>1, <1>2, <1>3, <3>1, <3>2, SawMore
  <2>4. /\ Len(found'[r]) = n + 1 /\ \A i \in 1..n : found'[r][i] = parts[i]
        /\ \E T : found'[r] \in Seq(T)
    <3>1. n = Len(parts)
      OBVIOUS
    <3> HIDE DEF n, unresolved, parts, x, q, t
    <3>2. Len(Append(parts, x)) = Len(parts) + 1
      BY <1>2, Appended
    <3>3. \A i \in 1..Len(parts) : Append(parts, x)[i] = parts[i]
      BY <1>2, Appended
    <3>4. \E T : Append(parts, x) \in Seq(T)
      BY <1>2, Appended
    <3> QED BY <2>1, <3>1, <3>2, <3>3, <3>4
  <2>5. IsView(q) /\ n + 1 > 1 => found'[r][1] # NoWrites
    <3> SUFFICES ASSUME IsView(q), n + 1 > 1 PROVE parts[1] # NoWrites
      BY <1>4, <2>4
    <3>1. CASE n = 1
      <4>1. t[1] \in RefersTo(t[n + 1])
        BY <1>1, <1>4, <3>1, References
      <4> QED BY <1>4, <1>6, <3>1, <4>1
    <3>2. CASE n > 1
      BY <1>1, <3>2
    <3>3. n = 1 \/ n > 1
      <4> HIDE DEF n
      <4> QED BY <1>4
    <3> QED BY <3>1, <3>2, <3>3
  <2>6. phase'[r] \in {"select", "answer"} /\ Progressed(q, phase'[r], found'[r], readError'[r])
    BY <1>1, <1>4, <2>1, <2>4, <2>5 DEF Progressed
  <2>7. (\E any : found[r] \in Seq(any))' /\ (\E any : Saw(ask[r], before[r], found[r], any, store, Remade))'
    BY <1>1, <2>1, <2>3, <2>4
  <2> QED BY <1>1, <2>6, <2>7 DEF Reads
<1> QED BY <1>5, <1>6

(* Readers change nothing: next to them the writers behave as they do by   *)
(* themselves, and what was proved of those holds.                         *)
THEOREM ReadersOnlyRead == ReadSpec => SafetySpec
<1>1. ReadInit => Init
  BY DEF ReadInit
<1>2. [ReadNext]_<<vars, readerVars, order>> => [Next]_vars
  BY DEF ReadNext, Write
<1> QED BY <1>1, <1>2, PTL DEF ReadSpec, SafetySpec

(* Every part of an answer is what its SELECT finds in some committed      *)
(* database, in the order of the SELECTs.                                  *)
THEOREM ReaderIsInvariant == ReadSpec => []ReaderInv
<1>1. ReadInit => ReaderInv
  <2> SUFFICES ASSUME ReadInit PROVE ReaderInv
    OBVIOUS
  <2>1. \A r \in Readers : phase[r] = "idle" /\ found[r] = <<>> /\ found[r] \in Seq({})
    BY DEF ReadInit
  <2> QED BY <2>1 DEF ReadInit, ReaderInv, Reads
<1>2. (SafeInv /\ AgreeInv /\ ListingInv /\ MediaInv /\ ReaderInv /\ [ReadNext]_<<vars, readerVars, order>>) => ReaderInv'
  <2> SUFFICES ASSUME SafeInv, AgreeInv, ListingInv, MediaInv, ReaderInv, [ReadNext]_<<vars, readerVars, order>>
               PROVE  ReaderInv'
    OBVIOUS
  <2>1. Sound(store, Remade)
    BY StoreIsSound
  <2>2. Later(store, store') /\ Remade \subseteq Remade'
    <3>1. [Next]_vars
      BY DEF ReadNext, Write
    <3> QED BY <3>1, StoreOnward
  <2>3. CASE UNCHANGED readerVars
    <3>1. \A r \in Readers : Reads(r)'
      BY <2>2, <2>3, OtherReads DEF ReaderInv, readerVars
    <3> QED BY <2>3, <3>1 DEF ReaderInv, readerVars
  <2>4. ASSUME NEW r \in Readers, Ask(r) \/ NextSelect(r) \/ SelectFails(r) \/ Answer(r), UNCHANGED <<vars, order>>
        PROVE  ReaderInv'
    <3>1. Reads(r)'
      BY <2>1, <2>4, AskReads, SelectReads, EndReads
    <3>2. /\ DOMAIN ask' = Readers /\ DOMAIN phase' = Readers /\ DOMAIN found' = Readers
          /\ DOMAIN readError' = Readers /\ DOMAIN before' = Readers
          /\ \A u \in Readers \ {r} : /\ ask'[u] = ask[u] /\ phase'[u] = phase[u] /\ found'[u] = found[u]
                                      /\ readError'[u] = readError[u] /\ before'[u] = before[u]
      <4>1. /\ DOMAIN ask = Readers /\ DOMAIN phase = Readers /\ DOMAIN found = Readers
            /\ DOMAIN readError = Readers /\ DOMAIN before = Readers
        BY DEF ReaderInv
      <4>2. CASE Ask(r)
        BY <4>1, <4>2 DEF Ask
      <4>3. CASE NextSelect(r)
        BY <4>1, <4>3 DEF NextSelect
      <4>4. CASE SelectFails(r) \/ Answer(r)
        BY <4>1, <4>4 DEF SelectFails, Answer
      <4> QED BY <2>4, <4>2, <4>3, <4>4
    <3>3. \A u \in Readers \ {r} : Reads(u)'
      BY <2>2, <3>2, OtherReads DEF ReaderInv
    <3> QED BY <3>1, <3>2, <3>3 DEF ReaderInv
  <2> QED BY <2>3, <2>4 DEF ReadNext, Read, Write
<1> QED BY <1>1, <1>2, ReadersOnlyRead, SafeIsInvariant, AgreeIsInvariant, ListingIsInvariant, MediaIsInvariant, PTL
       DEF ReadSpec
-----------------------------------------------------------------------------
(* The kind of a key is its first component. *)
LEMMA Tags ==
    ASSUME NEW k
    PROVE  /\ k \in AccountKey      => k[1] = "account"
           /\ k \in AddressKey      => k[1] = "address"
           /\ k \in ListingKey      => k[1] = "listing"
           /\ k \in ConversationKey => k[1] = "conversation"
           /\ k \in MessageKey      => k[1] = "message"
           /\ k \in PictureKey      => k[1] = "picture"
           /\ k \in MediaKey        => k[1] = "media"
BY DEF AccountKey, AddressKey, ListingKey, ConversationKey, MessageKey, PictureKey, MediaKey

(* What searches for listings show of one, and of a conversation. *)
LEMMA JoinedKinds ==
    ASSUME NEW db, NEW k
    PROVE  /\ \A l : k \in Joined(db, l) =>
                /\ k[1] \in {"listing", "address", "media"}
                /\ k[1] = "listing" => k = <<"listing", l>>
           /\ \A c \in ConversationKey : k \in JoinedConversation(db, c) =>
                /\ k[1] \in {"conversation", "listing", "account", "media"}
                /\ k[1] = "conversation" => k = c
<1>1. \A l : k \in FirstMedium(db, l) => k[1] = "media"
  BY Tags DEF FirstMedium, Media
<1> QED BY <1>1, Tags DEF Joined, JoinedConversation

(* The listings that match are shown, and no others. *)
LEMMA MatchingListings ==
    ASSUME NEW db, NEW q
    PROVE  /\ \A k : k \in AllMatching(db, q) =>
                /\ k[1] \in {"listing", "address", "media"}
                /\ k[1] = "listing" => k[2] \in ListingID /\ k = <<"listing", k[2]>> /\ k \in DOMAIN db /\ Matches(db, q, k[2])
           /\ \A l \in ListingID : <<"listing", l>> \in DOMAIN db /\ Matches(db, q, l) => <<"listing", l>> \in AllMatching(db, q)
<1>1. ASSUME NEW k \in AllMatching(db, q)
      PROVE  /\ k[1] \in {"listing", "address", "media"}
             /\ k[1] = "listing" => k[2] \in ListingID /\ k = <<"listing", k[2]>> /\ k \in DOMAIN db /\ Matches(db, q, k[2])
  <2>1. PICK l \in ListingID : <<"listing", l>> \in DOMAIN db /\ Matches(db, q, l) /\ k \in Joined(db, l)
    BY <1>1 DEF AllMatching
  <2>2. k[1] \in {"listing", "address", "media"} /\ (k[1] = "listing" => k = <<"listing", l>>)
    BY <2>1, JoinedKinds
  <2>3. k = <<"listing", l>> => k[2] = l
    OBVIOUS
  <2> QED BY <2>1, <2>2, <2>3
<1>2. ASSUME NEW l \in ListingID, <<"listing", l>> \in DOMAIN db, Matches(db, q, l)
      PROVE  <<"listing", l>> \in AllMatching(db, q)
  BY <1>2 DEF AllMatching, Joined
<1> QED BY <1>1, <1>2

(* Which SELECT of a request finds rows of which kind. *)
LEMMA PartKinds ==
    ASSUME NEW q \in ReadRequest, NEW db, NEW rows, NEW i \in 1..Len(ReadTemplate(q)),
           NEW k \in Select(db, q, ReadTemplate(q)[i], rows)
    PROVE  /\ k[1] = "message" => q.op = "view-conversation" /\ i = 2
           /\ q.op \in {"view-listing", "view-accountListing"} =>
                /\ k[1] = "listing" <=> i = 1
                /\ k[1] = "address" <=> i = 2
                /\ k[1] = "media" <=> i = 3
           /\ q.op = "view-account" /\ k[1] = "listing" => i = 3
<1>0. i \in 1..3 /\ (q.op = "view-conversation" => i \in 1..2) /\ (~IsView(q) => i = 1)
  BY TemplateLengths DEF IsView
<1>1. CASE q.op \in {"view-listing", "view-accountListing"}
  <2>1. CASE i = 1
    <3>0. k \in Select(db, q, ReadTemplate(q)[1], rows)
      BY <2>1
    <3>1. k = <<"listing", q.listing>>
      BY <1>1, <2>1, <3>0, ListingSelects
    <3> QED BY <1>1, <2>1, <3>1
  <2>2. CASE i = 2
    <3>0. k \in Select(db, q, ReadTemplate(q)[2], rows)
      BY <2>2
    <3>1. k[1] = "address"
      BY <1>1, <3>0, ListingSelects
    <3> QED BY <1>1, <2>2, <3>1
  <2>3. CASE i = 3
    <3>0. k \in Select(db, q, ReadTemplate(q)[3], rows)
      BY <2>3
    <3>1. k \in MediaKey
      <4>1. \A m : m \in Select(db, q, ReadTemplate(q)[3], rows) <=> m \in MediaIn(db, q.listing)
        BY <1>1, ListingSelects
      <4> QED BY <3>0, <4>1 DEF MediaIn
    <3> QED BY <1>1, <2>3, <3>1, Tags
  <2> QED BY <1>0, <2>1, <2>2, <2>3
<1>2. CASE q.op = "view-account"
  <2>1. CASE i = 1
    <3>0. k \in Select(db, q, ReadTemplate(q)[1], rows)
      BY <2>1
    <3>1. k = <<"account", q.account>>
      BY <1>2, <2>1, <3>0, AccountSelects
    <3> QED BY <1>2, <2>1, <3>1
  <2>2. CASE i = 2
    <3>0. k \in Select(db, q, ReadTemplate(q)[2], rows)
      BY <2>2
    <3>1. k[1] = "picture"
      BY <1>2, <3>0, AccountSelects
    <3> QED BY <1>2, <2>2, <3>1
  <2>3. CASE i = 3
    <3>0. k \in Select(db, q, ReadTemplate(q)[3], rows)
      BY <2>3
    <3>1. k \in AllMatching(db, q)
      BY <1>2, <2>3, <3>0, AccountSelects
    <3>2. k[1] # "message"
      BY <3>1, MatchingListings
    <3> QED BY <1>2, <2>3, <3>2
  <2> QED BY <1>0, <2>1, <2>2, <2>3
<1>3. CASE q.op = "view-conversation"
  <2>1. CASE i = 1
    <3>0. k \in Select(db, q, ReadTemplate(q)[1], rows)
      BY <2>1
    <3>1. k \in JoinedConversation(db, q.conversation) /\ q.conversation \in ConversationKey
      BY <1>3, <2>1, <3>0, ConversationSelects, ReadKinds
    <3>2. k[1] # "message"
      BY <3>1, JoinedKinds
    <3> QED BY <1>3, <3>2
  <2>2. CASE i = 2
    BY <1>3, <2>2
  <2> QED BY <1>0, <1>3, <2>1, <2>2
<1>4. CASE ~IsView(q)
  <2>1. i = 1 /\ k \in Select(db, q, ReadTemplate(q)[1], rows)
    BY <1>0, <1>4
  <2>2. k[1] # "message"
    <3>1. CASE q.op \in {"search-listing", "search-accountListing", "search-savedListing"}
      <4>1. k \in AllMatching(db, q)
        BY <1>4, <2>1, <3>1, SearchSelects
      <4> QED BY <4>1, MatchingListings
    <3>2. CASE q.op = "search-conversation"
      <4>1. PICK c \in ConversationKey : k \in JoinedConversation(db, c)
        BY <1>4, <2>1, <3>2, SearchSelects
      <4> QED BY <4>1, JoinedKinds
    <3>3. CASE q.op = "search-address"
      <4>1. k \in AddressKey
        BY <1>4, <2>1, <3>3, SearchSelects
      <4> QED BY <4>1, Tags
    <3> QED BY <1>4, <3>1, <3>2, <3>3, ReadKinds DEF IsView
  <2> QED BY <1>4, <2>2 DEF IsView
<1> QED BY <1>1, <1>2, <1>3, <1>4 DEF IsView

(* The rows of an answer are those of its parts. *)
LEMMA RowsSeen ==
    ASSUME NEW r \in Readers, NEW S, found[r] \in Seq(S), NEW was, NEW seen, NEW now, NEW R,
           Saw(ask[r], was, found[r], seen, now, R)
    PROVE  LET part(i) == Select(seen[i], ask[r], ReadTemplate(ask[r])[i], found[r][1]) IN
           /\ \A k \in DOMAIN Rows(r) : \E i \in 1..Len(found[r]) : k \in part(i) /\ Rows(r)[k] = seen[i][k]
           /\ \A i \in 1..Len(found[r]) : DOMAIN found[r][i] = part(i) /\ part(i) \subseteq DOMAIN Rows(r)
<1> DEFINE part(i) == Select(seen[i], ask[r], ReadTemplate(ask[r])[i], found[r][1])
<1>1. DOMAIN found[r] = 1..Len(found[r])
  OBVIOUS
<1>2. \A i \in 1..Len(found[r]) : found[r][i] = [k \in part(i) |-> seen[i][k]]
  BY DEF Saw
<1> HIDE DEF part
<1>3. \A i \in 1..Len(found[r]) : DOMAIN found[r][i] = part(i) /\ \A k \in part(i) : found[r][i][k] = seen[i][k]
  BY <1>2
<1>4. ASSUME NEW k \in DOMAIN Rows(r)
      PROVE  \E i \in 1..Len(found[r]) : k \in part(i) /\ Rows(r)[k] = seen[i][k]
  <2> DEFINE i == CHOOSE i \in DOMAIN found[r] : k \in DOMAIN found[r][i]
  <2>1. \E j \in DOMAIN found[r] : k \in DOMAIN found[r][j]
    BY DEF Rows
  <2>2. i \in DOMAIN found[r] /\ k \in DOMAIN found[r][i]
    BY <2>1
  <2>3. Rows(r)[k] = found[r][i][k]
    BY DEF Rows
  <2> HIDE DEF i
  <2> QED BY <1>1, <1>3, <2>2, <2>3
<1>5. \A i \in 1..Len(found[r]) : DOMAIN found[r][i] \subseteq DOMAIN Rows(r)
  BY <1>1 DEF Rows
<1> QED BY <1>3, <1>4, <1>5 DEF part
-----------------------------------------------------------------------------
(* What an answer is made of: its parts, and the databases they are of.    *)
Part(r, seen, i) == Select(seen[i], ask[r], ReadTemplate(ask[r])[i], found[r][1])

Composed(r, seen) ==
    LET n == Len(found[r]) IN
    /\ \A i \in 1..n :
         /\ Sound(seen[i], Remade) /\ Later(before[r], seen[i]) /\ Later(seen[i], store)
         /\ \A j \in i..n : Later(seen[i], seen[j])
         /\ found[r][i] = [k \in Part(r, seen, i) |-> seen[i][k]] /\ Part(r, seen, i) \subseteq DOMAIN Rows(r)
    /\ \A k \in DOMAIN Rows(r) : \E i \in 1..n : k \in Part(r, seen, i) /\ Rows(r)[k] = seen[i][k]

(* Every reader that has its request has an answer of that kind.           *)
LEMMA AnswersAreComposed ==
    ASSUME ReaderInv, NEW r \in Readers, phase[r] # "idle"
    PROVE  ask[r] \in ReadRequest /\ Len(found[r]) \in Nat /\ \E seen : Composed(r, seen)
<1>0. ask[r] \in ReadRequest /\ Reads(r)
  BY DEF ReaderInv, Reads
<1>1. PICK S : found[r] \in Seq(S)
  BY <1>0 DEF Reads
<1>2. PICK seen : Saw(ask[r], before[r], found[r], seen, store, Remade)
  BY <1>0 DEF Reads
<1>3. /\ \A k \in DOMAIN Rows(r) : \E i \in 1..Len(found[r]) : k \in Part(r, seen, i) /\ Rows(r)[k] = seen[i][k]
      /\ \A i \in 1..Len(found[r]) : DOMAIN found[r][i] = Part(r, seen, i) /\ Part(r, seen, i) \subseteq DOMAIN Rows(r)
  BY <1>1, <1>2, RowsSeen DEF Part
<1>4. ASSUME NEW i \in 1..Len(found[r])
      PROVE  /\ Sound(seen[i], Remade) /\ Later(before[r], seen[i]) /\ Later(seen[i], store)
             /\ \A j \in i..Len(found[r]) : Later(seen[i], seen[j])
             /\ found[r][i] = [k \in Part(r, seen, i) |-> seen[i][k]]
  <2>1. found[r][i] = [k \in Part(r, seen, i) |-> seen[i][k]]
    BY <1>2 DEF Saw, Part
  <2> QED BY <1>2, <2>1 DEF Saw
<1>5. Composed(r, seen)
  BY <1>3, <1>4 DEF Composed
<1> QED BY <1>0, <1>1, <1>5

(* An answer of status 200 is complete. *)
LEMMA ShownIsWhole ==
    ASSUME ReaderInv, NEW r \in Readers, Shown(r)
    PROVE  /\ ask[r] \in ReadRequest /\ readError[r] = "null" /\ Len(found[r]) = Len(ReadTemplate(ask[r]))
           /\ IsView(ask[r]) => found[r][1] # NoWrites
<1>1. ask[r] \in ReadRequest /\ phase[r] = "done" /\ Reads(r)
  BY DEF ReaderInv, Reads, Shown
<1>2. readError[r] = "null"
  BY DEF Shown, Status, ReadStatus
<1>3. Len(found[r]) = Len(ReadTemplate(ask[r]))
  BY <1>1, <1>2 DEF Reads, Progressed
<1>4. IsView(ask[r]) => found[r][1] # NoWrites
  <2>1. Len(ReadTemplate(ask[r])) > 1 \/ ~IsView(ask[r])
    <3>1. Len(ReadTemplate(ask[r])) = IF ask[r].op = "view-conversation" THEN 2 ELSE IF IsView(ask[r]) THEN 3 ELSE 1
      BY <1>1, TemplateLengths
    <3> QED BY <3>1
  <2>2. Progressed(ask[r], "done", found[r], readError[r])
    BY <1>1 DEF Reads
  <2> QED BY <1>3, <2>1, <2>2 DEF Progressed
<1> QED BY <1>1, <1>2, <1>3, <1>4

(* Of which part its rows are. *)
LEMMA RowsOfParts ==
    ASSUME NEW r \in Readers, ask[r] \in ReadRequest, NEW seen, Composed(r, seen),
           Len(found[r]) \in 0..Len(ReadTemplate(ask[r])), NEW k \in DOMAIN Rows(r)
    PROVE  \E i \in 1..Len(found[r]) :
             /\ k \in Part(r, seen, i) /\ Rows(r)[k] = seen[i][k]
             /\ k[1] = "message" => ask[r].op = "view-conversation" /\ i = 2
             /\ ask[r].op \in {"view-listing", "view-accountListing"} =>
                  /\ k[1] = "listing" <=> i = 1
                  /\ k[1] = "address" <=> i = 2
                  /\ k[1] = "media" <=> i = 3
             /\ ask[r].op = "view-account" /\ k[1] = "listing" => i = 3
<1>1. PICK i \in 1..Len(found[r]) : k \in Part(r, seen, i) /\ Rows(r)[k] = seen[i][k]
  BY DEF Composed
<1>2. i \in 1..Len(ReadTemplate(ask[r]))
  BY TemplateLengths
<1>3. /\ k[1] = "message" => ask[r].op = "view-conversation" /\ i = 2
      /\ ask[r].op \in {"view-listing", "view-accountListing"} =>
           /\ k[1] = "listing" <=> i = 1
           /\ k[1] = "address" <=> i = 2
           /\ k[1] = "media" <=> i = 3
      /\ ask[r].op = "view-account" /\ k[1] = "listing" => i = 3
  <2> DEFINE q == ask[r]
             db == seen[i]
             rows == found[r][1]
  <2>1. k \in Select(db, q, ReadTemplate(q)[i], rows) /\ q \in ReadRequest /\ i \in 1..Len(ReadTemplate(q))
    BY <1>1, <1>2 DEF Part
  <2> HIDE DEF q, db, rows
  <2>2. /\ k[1] = "message" => q.op = "view-conversation" /\ i = 2
        /\ q.op \in {"view-listing", "view-accountListing"} =>
             /\ k[1] = "listing" <=> i = 1
             /\ k[1] = "address" <=> i = 2
             /\ k[1] = "media" <=> i = 3
        /\ q.op = "view-account" /\ k[1] = "listing" => i = 3
    BY <2>1, PartKinds
  <2> QED BY <2>2 DEF q
<1> QED BY <1>1, <1>3

(* What a view of a listing shows. *)
LEMMA ListingShown ==
    ASSUME ReaderInv, NEW r \in Readers, ShowsListing(r), NEW seen, Composed(r, seen)
    PROVE  LET k == <<"listing", ask[r].listing>>
               d == <<"address", seen[1][k].address>>
           IN /\ ask[r].listing \in ListingID /\ Len(found[r]) = 3
              /\ k \in DOMAIN Rows(r) /\ k \in DOMAIN seen[1] /\ Rows(r)[k] = seen[1][k]
              /\ d \in DOMAIN seen[2] => d \in DOMAIN Rows(r) /\ Rows(r)[d] = seen[2][d]
              /\ \A m : m \in ShownMedia(r) <=> m \in MediaIn(seen[3], ask[r].listing)
              /\ \A m \in ShownMedia(r) : Rows(r)[m] = seen[3][m]
<1> DEFINE q == ask[r]
           k == <<"listing", q.listing>>
           d == <<"address", seen[1][k].address>>
<1>0. /\ q \in ReadRequest /\ q.op \in {"view-listing", "view-accountListing"} /\ q.listing \in ListingID
      /\ Len(found[r]) = 3 /\ Len(ReadTemplate(q)) = 3 /\ found[r][1] # NoWrites
  <2>1. q.op \in {"view-listing", "view-accountListing"} /\ Shown(r)
    BY DEF ShowsListing
  <2>2. q \in ReadRequest /\ IsView(q)
    BY <2>1, ShownIsWhole DEF IsView
  <2> QED BY <2>1, <2>2, ShownIsWhole, TemplateLengths, ReadKinds
<1>1. \A i \in 1..3 : /\ found[r][i] = [j \in Part(r, seen, i) |-> seen[i][j]] /\ Part(r, seen, i) \subseteq DOMAIN Rows(r)
                      /\ IsDatabase(seen[i])
  BY <1>0 DEF Composed, Sound
<1>2. \A j : j \in Part(r, seen, 1) <=> j = k /\ j \in Wanted(seen[1], q)
  BY <1>0, ListingSelects DEF Part
<1>3. k \in Part(r, seen, 1) /\ k \in DOMAIN seen[1] /\ k \in ListingKey
  <2>1. Part(r, seen, 1) # {}
    <3> SUFFICES ASSUME Part(r, seen, 1) = {} PROVE FALSE
      OBVIOUS
    <3>0. found[r][1] = [j \in Part(r, seen, 1) |-> seen[1][j]]
      BY <1>1
    <3>1. found[r][1] = NoWrites
      BY <3>0 DEF NoWrites
    <3> QED BY <1>0, <3>1
  <2>2. k \in Wanted(seen[1], q)
    BY <1>2, <2>1
  <2> QED BY <1>0, <1>2, <2>2, WantedRows DEF IsView
<1>4. ASSUME NEW j \in DOMAIN Rows(r)
      PROVE  /\ j[1] = "listing" => j \in Part(r, seen, 1) /\ Rows(r)[j] = seen[1][j]
             /\ j[1] = "address" => j \in Part(r, seen, 2) /\ Rows(r)[j] = seen[2][j]
             /\ j[1] = "media" => j \in Part(r, seen, 3) /\ Rows(r)[j] = seen[3][j]
  <2>1. Len(found[r]) \in 0..Len(ReadTemplate(q))
    BY <1>0
  <2> QED BY <1>0, <2>1, RowsOfParts
<1>5. k \in DOMAIN Rows(r) /\ Rows(r)[k] = seen[1][k]
  BY <1>1, <1>3, <1>4
<1>6. d \in DOMAIN seen[2] => d \in DOMAIN Rows(r) /\ Rows(r)[d] = seen[2][d]
  <2> SUFFICES ASSUME d \in DOMAIN seen[2] PROVE d \in DOMAIN Rows(r) /\ Rows(r)[d] = seen[2][d]
    OBVIOUS
  <2>1. k \in DOMAIN found[r][1] \cap ListingKey /\ found[r][1][k] = seen[1][k]
    BY <1>1, <1>3
  <2>2. \A j \in DOMAIN found[r][1] \cap ListingKey :
          <<"address", found[r][1][j].address>> \in DOMAIN seen[2] => <<"address", found[r][1][j].address>> \in Part(r, seen, 2)
    BY <1>0, ListingSelects DEF Part
  <2>3. d \in Part(r, seen, 2)
    BY <2>1, <2>2
  <2>4. d \in DOMAIN Rows(r)
    BY <1>1, <2>3
  <2> QED BY <1>4, <2>4
<1>7. \A m : m \in Part(r, seen, 3) <=> m \in MediaIn(seen[3], q.listing)
  BY <1>0, ListingSelects DEF Part
<1>8. \A m : m \in ShownMedia(r) <=> m \in MediaIn(seen[3], q.listing)
  <2>1. ASSUME NEW m \in ShownMedia(r) PROVE m \in MediaIn(seen[3], q.listing)
    <3>1. m \in DOMAIN Rows(r) /\ m[1] = "media"
      BY Tags DEF ShownMedia
    <3> QED BY <1>4, <1>7, <3>1
  <2>2. ASSUME NEW m \in MediaIn(seen[3], q.listing) PROVE m \in ShownMedia(r)
    <3>1. m \in DOMAIN Rows(r)
      BY <1>1, <1>7
    <3> QED BY <3>1 DEF MediaIn, ShownMedia
  <2> QED BY <2>1, <2>2
<1>9. \A m \in ShownMedia(r) : Rows(r)[m] = seen[3][m]
  <2> TAKE m \in ShownMedia(r)
  <2>1. m \in DOMAIN Rows(r) /\ m[1] = "media"
    BY Tags DEF ShownMedia
  <2> QED BY <1>4, <2>1
<1> QED BY <1>0, <1>3, <1>5, <1>6, <1>8, <1>9

(* The parts of an answer belong together (PartsBelongTogether): what      *)
(* makes them do so holds in the snapshot of the earlier SELECT, and stays *)
(* so in every later one.                                                  *)
LEMMA AnswerBelongsTogether ==
    ASSUME ReaderInv, NEW r \in Readers, Shown(r)
    PROVE  /\ ShowsListing(r) => OwnsAddress(Rows(r), ShownListing(r).contributor, ShownListing(r).address)
           /\ \A k \in DOMAIN Rows(r) \cap ListingKey :
                ask[r].op = "view-account" => Rows(r)[k].contributor = ask[r].account
           /\ \A k \in DOMAIN Rows(r) \cap MessageKey :
                LET c == Rows(r)[k].conversation IN c \in DOMAIN Rows(r) /\ IsParty(store, ask[r].actor, c)
<1> DEFINE q == ask[r]
<1>0. /\ q \in ReadRequest /\ Len(found[r]) = Len(ReadTemplate(q)) /\ Len(found[r]) \in Nat
      /\ Len(found[r]) \in 0..Len(ReadTemplate(q)) /\ phase[r] # "idle"
  <2>1. phase[r] # "idle"
    BY DEF Shown
  <2> QED BY <2>1, ShownIsWhole, AnswersAreComposed
<1>1. PICK seen : Composed(r, seen)
  BY <1>0, AnswersAreComposed
<1>2. \A i \in 1..Len(found[r]) :
        /\ Sound(seen[i], Remade) /\ Later(seen[i], store) /\ \A j \in i..Len(found[r]) : Later(seen[i], seen[j])
        /\ IsDatabase(seen[i]) /\ Agrees(seen[i]) /\ Part(r, seen, i) \subseteq DOMAIN Rows(r)
  BY <1>1 DEF Composed, Sound
<1>3. ASSUME ShowsListing(r)
      PROVE  OwnsAddress(Rows(r), ShownListing(r).contributor, ShownListing(r).address)
  <2> DEFINE k == <<"listing", q.listing>>
             row == seen[1][k]
             d == <<"address", row.address>>
  <2>1. /\ q.listing \in ListingID /\ Len(found[r]) = 3 /\ k \in DOMAIN seen[1] /\ ShownListing(r) = row
        /\ d \in DOMAIN seen[2] => d \in DOMAIN Rows(r) /\ Rows(r)[d] = seen[2][d]
    BY <1>1, <1>3, ListingShown DEF ShownListing
  <2>2. k \in ListingKey
    BY <2>1 DEF ListingKey
  <2>3. OwnsAddress(seen[1], row.contributor, row.address)
    <3>1. Agrees(seen[1])
      BY <1>2, <2>1
    <3>2. RowAgrees(seen[1], k, row)
      BY <2>1, <3>1 DEF Agrees
    <3> QED BY <2>2, <3>2 DEF RowAgrees
  <2>4. Later(seen[1], seen[2]) /\ IsDatabase(seen[1])
    BY <1>2, <2>1
  <2>5. OwnsAddress(seen[2], row.contributor, row.address)
    BY <2>3, <2>4, LaterKeeps
  <2> HIDE DEF row
  <2> QED BY <2>1, <2>5 DEF OwnsAddress
<1>4. ASSUME NEW k \in DOMAIN Rows(r) \cap ListingKey, q.op = "view-account"
      PROVE  Rows(r)[k].contributor = q.account
  <2>1. Len(found[r]) = 3 /\ Len(ReadTemplate(q)) = 3
    BY <1>0, <1>4, TemplateLengths DEF IsView
  <2>2. k \in Part(r, seen, 3) /\ Rows(r)[k] = seen[3][k] /\ k[1] = "listing"
    BY <1>0, <1>1, <1>4, RowsOfParts, Tags
  <2>3. k \in AllMatching(seen[3], q)
    BY <1>0, <1>4, <2>2, AccountSelects DEF Part
  <2>4. k = <<"listing", k[2]>> /\ Matches(seen[3], q, k[2])
    BY <2>2, <2>3, MatchingListings
  <2>5. Owns(seen[3], q.account, k[2])
    BY <1>4, <2>4 DEF Matches
  <2> QED BY <2>2, <2>4, <2>5 DEF Owns
<1>5. ASSUME NEW k \in DOMAIN Rows(r) \cap MessageKey
      PROVE  LET c == Rows(r)[k].conversation IN c \in DOMAIN Rows(r) /\ IsParty(store, q.actor, c)
  <2> DEFINE c == Rows(r)[k].conversation
  <2>1. q.op = "view-conversation" /\ k \in Part(r, seen, 2) /\ Rows(r)[k] = seen[2][k]
    BY <1>0, <1>1, <1>5, RowsOfParts, Tags
  <2>2. Len(found[r]) = 2
    BY <1>0, <2>1, TemplateLengths
  <2>3. c \in DOMAIN found[r][1] \cap ConversationKey
    <3>1. seen[2][k].conversation \in DOMAIN found[r][1] \cap ConversationKey
      BY <1>0, <2>1, ConversationSelects DEF Part
    <3> QED BY <2>1, <3>1
  <2> HIDE DEF c
  <2>4. c \in Part(r, seen, 1)
    <3>1. found[r][1] = [j \in Part(r, seen, 1) |-> seen[1][j]]
      BY <1>1, <2>2 DEF Composed
    <3> QED BY <2>3, <3>1
  <2>5. MayRead(seen[1], q) /\ c \in JoinedConversation(seen[1], q.conversation)
    BY <1>0, <2>1, <2>4, ConversationSelects DEF Part
  <2>6. c = q.conversation
    BY <1>0, <2>1, <2>3, <2>5, JoinedKinds, ReadKinds, Tags
  <2>7. IsParty(seen[1], q.actor, c)
    BY <2>5, <2>6 DEF MayRead
  <2>8. Later(seen[1], store) /\ IsDatabase(seen[1]) /\ c \in DOMAIN Rows(r)
    BY <1>2, <2>2, <2>4
  <2>9. IsParty(store, q.actor, c)
    BY <2>7, <2>8, LaterKeeps
  <2> QED BY <2>8, <2>9 DEF c
<1> QED BY <1>3, <1>4, <1>5

(* What an answer shows belongs together (PartsBelongTogether): a          *)
(* location is the one of the listing, and messages are for a party only.  *)
THEOREM AnswersBelongTogether == ReadSpec => []PartsBelongTogether
<1>1. ReaderInv => PartsBelongTogether
  BY AnswerBelongsTogether DEF PartsBelongTogether
<1> QED BY <1>1, ReaderIsInvariant, PTL

(* The media that are shown of a listing that is still open are whole: it  *)
(* was open, and its media were whole, when get_media read them.           *)
LEMMA ShownMediaWhole ==
    ASSUME ReaderInv, NEW r \in Readers, ShowsListing(r), IsOpenListing(store, ask[r].listing),
           ~(ask[r].listing \in Sessions /\ ask[r].listing \in Remade)
    PROVE  /\ \A k \in ShownMedia(r) : \A i \in 0..k[3] : <<"media", ask[r].listing, i>> \in ShownMedia(r)
           /\ \A j, k \in ShownMedia(r) : Rows(r)[j].url = Rows(r)[k].url
<1> DEFINE l == ask[r].listing
           k == <<"listing", l>>
<1>0. phase[r] # "idle"
  BY DEF ShowsListing, Shown
<1>1. PICK seen : Composed(r, seen)
  BY <1>0, AnswersAreComposed
<1>2. /\ l \in ListingID /\ Len(found[r]) = 3 /\ k \in DOMAIN seen[1] /\ k \in ListingKey
      /\ \A m : m \in ShownMedia(r) <=> m \in MediaIn(seen[3], l)
      /\ \A m \in ShownMedia(r) : Rows(r)[m] = seen[3][m]
  BY <1>1, ListingShown DEF ListingKey
<1> DEFINE db == seen[3]
<1>3. Sound(db, Remade) /\ Later(seen[1], db) /\ Later(db, store)
  BY <1>1, <1>2 DEF Composed
<1> HIDE DEF db
<1>4. IsOpenListing(db, l)
  <2>1. k \in DOMAIN db
    BY <1>2, <1>3, OpenStays
  <2> QED BY <1>2, <1>3, <2>1, OpenStays DEF IsOpenListing
<1>5. MediaWhole(db, l)
  BY <1>2, <1>3, <1>4 DEF Sound
<1>6. ASSUME NEW m \in MediaIn(db, l), NEW i \in 0..m[3] PROVE <<"media", l, i>> \in MediaIn(db, l)
  <2>1. <<"media", l, i>> \in DOMAIN db
    BY <1>5, <1>6 DEF MediaWhole
  <2>2. <<"media", l, i>> \in MediaKey
    BY <1>3, <2>1, KeyKinds DEF Sound, IsDatabase
  <2> QED BY <2>1, <2>2 DEF MediaIn
<1>7. \A j, m \in MediaIn(db, l) : db[j].url = db[m].url
  BY <1>5 DEF MediaWhole
<1> QED BY <1>2, <1>6, <1>7 DEF db

(* A view mixes the media of two requests only of a listing that is        *)
(* closed by then (MediaShownAreWhole).                                    *)
THEOREM ShownMediaAreWhole == ReadSpec => []MediaShownAreWhole
<1>1. (TypeInv /\ ReaderInv) => MediaShownAreWhole
  BY ShownMediaWhole, RemadeIsRequested DEF MediaShownAreWhole, ForeseenListing
<1> QED BY <1>1, ReaderIsInvariant, ReadersOnlyRead, SafeIsInvariant, PTL DEF SafeInv

(* How a reader ends when no SELECT fails: with all parts, or, in a view,  *)
(* after a first part without rows.                                        *)
LEMMA ReaderEnds ==
    ASSUME ReaderInv, NEW r \in Readers, phase[r] = "done", readError[r] # "QueryExecutionError"
    PROVE  /\ ask[r] \in ReadRequest /\ Len(found[r]) \in 1..Len(ReadTemplate(ask[r]))
           /\ Sound(before[r], Remade)
           /\ \/ readError[r] = "null" /\ Len(found[r]) = Len(ReadTemplate(ask[r]))
                   /\ (IsView(ask[r]) => found[r][1] # NoWrites)
              \/ readError[r] = "BackreferenceError" /\ IsView(ask[r]) /\ found[r][1] = NoWrites
<1> DEFINE q == ask[r]
           n == Len(found[r])
<1>1. q \in ReadRequest /\ n \in Nat /\ Sound(before[r], Remade) /\ Progressed(q, "done", found[r], readError[r])
  BY AnswersAreComposed DEF ReaderInv, Reads
<1>2. Len(ReadTemplate(q)) = IF q.op = "view-conversation" THEN 2 ELSE IF IsView(q) THEN 3 ELSE 1
  BY <1>1, TemplateLengths
<1>3. q.op = "view-conversation" => IsView(q)
  BY DEF IsView
<1>4. /\ IsView(q) /\ n > 1 => found[r][1] # NoWrites
      /\ \/ readError[r] = "BackreferenceError" /\ IsView(q) /\ n >= 1 /\ found[r][1] = NoWrites
         \/ readError[r] = "null" /\ n = Len(ReadTemplate(q))
  BY <1>1 DEF Progressed
<1> HIDE DEF q, n
<1>5. /\ n \in 1..Len(ReadTemplate(q))
      /\ \/ readError[r] = "null" /\ n = Len(ReadTemplate(q)) /\ (IsView(q) => found[r][1] # NoWrites)
         \/ readError[r] = "BackreferenceError" /\ IsView(q) /\ found[r][1] = NoWrites
  BY <1>1, <1>2, <1>3, <1>4
<1> QED BY <1>1, <1>5 DEF q, n

(* A view says 200 or 404, and the right one of them: its first SELECT     *)
(* finds what was asked for all the time, and not what never was there.    *)
LEMMA ViewIsCurrent ==
    ASSUME ReaderInv, NEW r \in Readers, phase[r] = "done", readError[r] # "QueryExecutionError", IsView(ask[r])
    PROVE  LET q == ask[r] IN
           /\ Status(r) \in {200, 404}
           /\ Wanted(before[r], q) \cap Wanted(store, q) # {} => Status(r) = 200
           /\ (/\ Wanted(before[r], q) \cup Wanted(store, q) = {}
               /\ Sought(q) \in DOMAIN before[r] \/ Sought(q) \notin DOMAIN store) => Status(r) = 404
<1> DEFINE q == ask[r]
<1>0. PICK seen : Composed(r, seen)
  BY AnswersAreComposed
<1>1. /\ q \in ReadRequest /\ 1 \in 1..Len(found[r]) /\ Sound(before[r], Remade)
      /\ \/ readError[r] = "null" /\ found[r][1] # NoWrites
         \/ readError[r] = "BackreferenceError" /\ found[r][1] = NoWrites
  <2>1. Len(found[r]) \in Nat
    BY AnswersAreComposed
  <2> QED BY <2>1, ReaderEnds
<1> DEFINE db == seen[1]
<1>2. /\ Later(before[r], db) /\ Later(db, store) /\ Sound(db, Remade)
      /\ found[r][1] = [k \in Part(r, seen, 1) |-> db[k]]
  BY <1>0, <1>1 DEF Composed
<1> HIDE DEF db
<1>3. Part(r, seen, 1) # {} <=> Wanted(db, q) # {}
  BY <1>1, FirstFindsWanted DEF Part, db
<1>4. found[r][1] = NoWrites <=> Wanted(db, q) = {}
  BY <1>2, <1>3 DEF NoWrites
<1>5. Status(r) = IF Wanted(db, q) = {} THEN 404 ELSE 200
  <2>1. CASE readError[r] = "null"
    BY <1>1, <1>4, <2>1 DEF Status, ReadStatus
  <2>2. CASE readError[r] = "BackreferenceError"
    BY <1>1, <1>4, <2>2 DEF Status, ReadStatus
  <2> QED BY <1>1, <2>1, <2>2
<1>6. Wanted(before[r], q) \cap Wanted(store, q) # {} => Wanted(db, q) # {}
  BY <1>1, <1>2, WantedBetween DEF Sound
<1>7. (/\ Wanted(before[r], q) \cup Wanted(store, q) = {}
       /\ Sought(q) \in DOMAIN before[r] \/ Sought(q) \notin DOMAIN store) => Wanted(db, q) = {}
  BY <1>1, <1>2, WantedAround DEF Sound
<1> QED BY <1>5, <1>6, <1>7

(* The public is shown listings that were open when they were read, so     *)
(* they were when the request came in.                                     *)
LEMMA PublicIsCurrent ==
    ASSUME ReaderInv, NEW r \in Readers, phase[r] = "done", readError[r] # "QueryExecutionError",
           ask[r].op \in {"view-listing", "view-account", "search-listing", "search-savedListing"},
           NEW k \in DOMAIN Rows(r) \cap ListingKey \cap DOMAIN before[r]
    PROVE  before[r][k].open
<1> DEFINE q == ask[r]
<1>0. PICK seen : Composed(r, seen)
  BY AnswersAreComposed
<1>1. q \in ReadRequest /\ Len(found[r]) \in 1..Len(ReadTemplate(q)) /\ Len(ReadTemplate(q)) \in Nat
  BY ReaderEnds, TemplateLengths
<1>2. PICK i \in 1..Len(found[r]) :
        /\ k \in Part(r, seen, i)
        /\ q.op = "view-listing" => i = 1
        /\ q.op = "view-account" => i = 3
  <2>1. Len(found[r]) \in 0..Len(ReadTemplate(q)) /\ k[1] = "listing"
    BY <1>1, Tags
  <2> QED BY <1>0, <1>1, <2>1, RowsOfParts
<1> DEFINE db == seen[i]
<1>3. Later(before[r], db)
  BY <1>0, <1>2 DEF Composed
<1>4. k \in DOMAIN db /\ db[k].open
  <2>1. CASE q.op = "view-listing"
    <3>1. k = <<"listing", q.listing>> /\ k \in Wanted(db, q)
      BY <1>1, <1>2, <2>1, ListingSelects DEF Part
    <3> QED BY <2>1, <3>1 DEF Wanted, IsOpenListing
  <2>2. CASE q.op # "view-listing"
    <3>1. k \in AllMatching(db, q)
      <4>1. CASE q.op = "view-account"
        BY <1>1, <1>2, <4>1, AccountSelects DEF Part
      <4>2. CASE q.op \in {"search-listing", "search-savedListing"}
        <5>1. i = 1 /\ ~IsView(q)
          <6>1. ~IsView(q)
            BY <4>2 DEF IsView
          <6>2. Len(ReadTemplate(q)) = 1
            BY <1>1, <4>2, <6>1, TemplateLengths
          <6>3. Len(found[r]) = 1
            BY <1>1, <6>2
          <6>4. i = 1
            BY <6>3
          <6> QED BY <6>1, <6>4
        <5> QED BY <1>1, <1>2, <4>2, <5>1, SearchSelects DEF Part
      <4> QED BY <2>2, <4>1, <4>2
    <3>2. k = <<"listing", k[2]>> /\ Matches(db, q, k[2])
      BY <3>1, MatchingListings, Tags
    <3>3. IsOpenListing(db, k[2])
      BY <2>2, <3>2 DEF Matches
    <3> QED BY <3>2, <3>3 DEF IsOpenListing
  <2> QED BY <2>1, <2>2
<1> HIDE DEF db
<1> QED BY <1>3, <1>4, OpenStays

(* A search finds the listings of others that are open all the time. *)
LEMMA SearchIsCurrent ==
    ASSUME ReaderInv, NEW r \in Readers, phase[r] = "done", readError[r] # "QueryExecutionError",
           ask[r].op = "search-listing",
           NEW k \in DOMAIN before[r] \cap ListingKey, store[k].open, store[k].contributor # ask[r].actor
    PROVE  k \in DOMAIN Rows(r)
<1> DEFINE q == ask[r]
<1>0. PICK seen : Composed(r, seen)
  BY AnswersAreComposed
<1>1. q \in ReadRequest /\ 1 \in 1..Len(found[r]) /\ ~IsView(q)
  BY ReaderEnds, TemplateLengths DEF IsView
<1> DEFINE db == seen[1]
<1>2. Later(before[r], db) /\ Later(db, store) /\ Part(r, seen, 1) \subseteq DOMAIN Rows(r)
  BY <1>0, <1>1 DEF Composed
<1> HIDE DEF db
<1>3. k = <<"listing", k[2]>> /\ k[2] \in ListingID
  BY DEF ListingKey
<1>4. k \in DOMAIN db /\ db[k].open /\ db[k].contributor = store[k].contributor
  <2>1. k \in DOMAIN db
    BY <1>2, OpenStays
  <2>2. db[k].open
    BY <1>2, <2>1, OpenStays
  <2> QED BY <1>2, <2>1, <2>2 DEF Later, Follows, Kept
<1>5. Matches(db, q, k[2])
  BY <1>3, <1>4 DEF Matches, IsOpenListing, Owns
<1>6. k \in AllMatching(db, q)
  BY <1>3, <1>4, <1>5, MatchingListings
<1>7. k \in Part(r, seen, 1)
  BY <1>1, <1>6, SearchSelects DEF Part, db
<1> QED BY <1>2, <1>7

(* A view finds what was there all the time, and says 404 of what never    *)
(* was; the public is shown open listings only (AnswersAreCurrent).        *)
THEOREM AnswersStayCurrent == ReadSpec => []AnswersAreCurrent
<1>1. ReaderInv => AnswersAreCurrent
  BY ViewIsCurrent, PublicIsCurrent, SearchIsCurrent DEF AnswersAreCurrent
<1> QED BY <1>1, ReaderIsInvariant, PTL
-----------------------------------------------------------------------------
(* The order of the commits: each session commits once, and those that     *)
(* were granted have.                                                      *)
In(o, s) == \E i \in 1..Len(o) : o[i] = s

OrderInv ==
    /\ order \in Seq(Sessions)
    /\ \A i, j \in 1..Len(order) : order[i] = order[j] => i = j
    /\ \A i \in 1..Len(order) : pc[order[i]] = "done"
    /\ \A s \in Sessions : Settled(s) => In(order, s)

(* The step of a writer is a COMMIT, the next one in the order, or leaves  *)
(* the database and the order alone.                                       *)
Commits(s) == pc[s] = "commit" /\ pc'[s] = "done" /\ store' = View(s) /\ order' = Append(order, s)

(* Every step of a writer is one or the other.                             *)
LEMMA WriteOrder ==
    ASSUME TypeInv, NEW s \in Sessions, Execute(s) \/ Handle(s) \/ QueryFails(s), Write
    PROVE  Commits(s) \/ (UNCHANGED <<store, order>> /\ ~(pc[s] = "commit" /\ pc'[s] = "done"))
<1> DEFINE committing == {t \in Sessions : pc[t] = "commit" /\ pc'[t] = "done"}
<1>1. order' = IF committing = {} THEN order ELSE Append(order, CHOOSE t \in committing : TRUE)
  BY DEF Write
<1>2. committing \subseteq {s}
  <2> SUFFICES ASSUME NEW t \in Sessions, pc[t] = "commit", pc'[t] = "done", t # s PROVE FALSE
    OBVIOUS
  <2>1. pc'[t] = pc[t]
    BY StepFrame
  <2> QED BY <2>1
<1>3. CASE pc[s] = "commit" /\ pc'[s] = "done"
  <2>1. committing = {s}
    BY <1>2, <1>3
  <2>2. (CHOOSE t \in committing : TRUE) = s
    BY <2>1
  <2>3. store' = View(s)
    BY <1>3, Steps DEF StaysOutside, Fails, Chooses, PassesRow, WroteRow, LockedRow, Goes, Ends
  <2> QED BY <1>1, <1>3, <2>1, <2>2, <2>3 DEF Commits
<1>4. CASE ~(pc[s] = "commit" /\ pc'[s] = "done")
  <2>1. committing = {}
    BY <1>2, <1>4
  <2>2. UNCHANGED store
    BY <1>4, Steps DEF StaysOutside, Fails, Chooses, PassesRow, WroteRow, LockedRow, Ends
  <2> QED BY <1>1, <1>4, <2>1, <2>2
<1> QED BY <1>3, <1>4

(* Once all are answered, the order stays as it is.                        *)
LEMMA IdleWrite ==
    ASSUME UNCHANGED vars, Write
    PROVE  UNCHANGED <<vars, order>>
<1>1. {s \in Sessions : pc[s] = "commit" /\ pc'[s] = "done"} = {}
  BY DEF vars
<1> QED BY <1>1 DEF Write

(* The order that one more commit makes. *)
LEMMA OrderGrows ==
    ASSUME NEW o \in Seq(Sessions), NEW t \in Sessions
    PROVE  LET new == Append(o, t) IN
           /\ new \in Seq(Sessions) /\ Len(o) \in Nat /\ Len(new) = Len(o) + 1 /\ new[Len(o) + 1] = t
           /\ \A i \in 1..Len(o) : i \in 1..Len(new) /\ new[i] = o[i]
           /\ \A i \in 1..Len(new) : i \in 1..Len(o) \/ i = Len(o) + 1
OBVIOUS

(* So every step keeps the order. *)
LEMMA OrderStep ==
    ASSUME TypeInv, OutcomeInv, OrderInv, NEW s \in Sessions, Execute(s) \/ Handle(s) \/ QueryFails(s), Write
    PROVE  OrderInv'
<1>0. /\ \A t \in Sessions \ {s} : pc'[t] = pc[t] /\ error'[t] = error[t]
      /\ \A t \in Sessions \ {s} : Settled(t)' => Settled(t)
  BY StepFrame DEF Settled, Unheard
<1>1. CASE Commits(s)
  <2> DEFINE n == Len(order)
  <2>1. /\ order' \in Seq(Sessions) /\ n \in Nat /\ Len(order') = n + 1 /\ order'[n + 1] = s
        /\ \A i \in 1..n : i \in 1..Len(order') /\ order'[i] = order[i]
        /\ \A i \in 1..Len(order') : i \in 1..n \/ i = n + 1
    BY <1>1, OrderGrows DEF Commits, OrderInv
  <2>2. \A i \in 1..n : order[i] \in Sessions /\ pc[order[i]] = "done" /\ order[i] # s
    BY <1>1 DEF Commits, OrderInv
  <2>3. ASSUME NEW i \in 1..Len(order'), NEW j \in 1..Len(order'), order'[i] = order'[j] PROVE i = j
    BY <2>1, <2>2, <2>3 DEF OrderInv
  <2>4. ASSUME NEW i \in 1..Len(order') PROVE pc'[order'[i]] = "done"
    BY <1>0, <1>1, <2>1, <2>2 DEF Commits
  <2>5. ASSUME NEW t \in Sessions, Settled(t)' PROVE \E i \in 1..Len(order') : order'[i] = t
    <3>1. CASE t = s
      BY <2>1, <3>1
    <3>2. CASE t # s
      <4>1. Settled(t)
        BY <1>0, <2>5, <3>2
      <4> QED BY <2>1, <4>1 DEF OrderInv, In
    <3> QED BY <3>1, <3>2
  <2> QED BY <2>1, <2>3, <2>4, <2>5 DEF OrderInv, In
<1>2. CASE UNCHANGED <<store, order>> /\ ~(pc[s] = "commit" /\ pc'[s] = "done")
  <2>1. ASSUME NEW i \in 1..Len(order) PROVE pc'[order[i]] = "done"
    <3>1. order[i] \in Sessions /\ pc[order[i]] = "done"
      BY DEF OrderInv
    <3>2. pc[s] # "done"
      BY Steps DEF StaysOutside, Fails, Chooses, PassesRow, WroteRow, LockedRow, Ends
    <3> QED BY <1>0, <3>1, <3>2
  <2>2. ASSUME NEW t \in Sessions, Settled(t)' PROVE In(order, t)
    <3>1. t # s
      <4> SUFFICES ASSUME t = s PROVE FALSE
        OBVIOUS
      <4>1. pc'[s] = "done" /\ error'[s] \in {"null", "Unacknowledged"}
        BY <2>2 DEF Settled, Unheard
      <4>2. pc[s] = "rollback" => error[s] \notin {"null", "Unacknowledged"}
        BY DEF OutcomeInv, Knows
      <4> QED BY <1>2, <4>1, <4>2, Steps DEF StaysOutside, Fails, Chooses, PassesRow, WroteRow, LockedRow, Ends, Goes
    <3>2. Settled(t)
      BY <1>0, <2>2, <3>1
    <3> QED BY <3>2 DEF OrderInv
  <2> QED BY <1>2, <2>1, <2>2 DEF OrderInv, In
<1> QED BY <1>1, <1>2, WriteOrder

(* The order has every session once at most, and all that were granted.    *)
THEOREM OrderIsInvariant == ReadSpec => []OrderInv
<1>1. ReadInit => OrderInv
  <2> SUFFICES ASSUME ReadInit PROVE OrderInv
    OBVIOUS
  <2>1. order = <<>> /\ \A s \in Sessions : pc[s] = "idle"
    BY DEF ReadInit, Init
  <2> QED BY <2>1 DEF OrderInv, Settled
<1>2. (TypeInv /\ OutcomeInv /\ OrderInv /\ [ReadNext]_<<vars, readerVars, order>>) => OrderInv'
  <2> SUFFICES ASSUME TypeInv, OutcomeInv, OrderInv, [ReadNext]_<<vars, readerVars, order>> PROVE OrderInv'
    OBVIOUS
  <2>1. CASE UNCHANGED <<vars, order>>
    BY <2>1 DEF vars, OrderInv, Settled, Unheard
  <2>2. CASE Write
    <3>1. ASSUME NEW s \in Sessions, Execute(s) \/ Handle(s) \/ QueryFails(s) PROVE OrderInv'
      BY <2>2, <3>1, OrderStep
    <3>2. CASE UNCHANGED vars
      BY <2>1, <2>2, <3>2, IdleWrite
    <3> QED BY <2>2, <3>1, <3>2 DEF Write, Next, Terminating
  <2> QED BY <2>1, <2>2 DEF ReadNext
<1> QED BY <1>1, <1>2, ReadersOnlyRead, SafeIsInvariant, OutcomeIsInvariant, PTL DEF ReadSpec, SafeInv
-----------------------------------------------------------------------------
(* Session u committed in the order o, and s did not do so after it. And   *)
(* the media of listing l in db are none older than s's, who left some.    *)
NotBefore(o, s, u) == \E i, j \in 1..Len(o) : i <= j /\ o[i] = s /\ o[j] = u

Newer(db, o, l, s) ==
    Medium(l, 0) \in DOMAIN db /\ \A k \in MediaIn(db, l) : NotBefore(o, s, db[k].url)

(* So it is for every session that a listing's columns bear the stamp of   *)
(* and that brought media (brought).                                       *)
Current(columns, brought, db, o, l) ==
    \A c \in ListingColumns : columns[c] # Null =>
        /\ In(o, columns[c])
        /\ columns[c] \in brought => Newer(db, o, l, columns[c])

WithMedia == {s \in Sessions : pc[s] = "done" /\ req[s].media > 0}

ColumnsInv ==
    \A l \in ListingID : <<"listing", l>> \in DOMAIN store /\ ~Exempt(l) =>
        Current(store[<<"listing", l>>].columns, WithMedia, store, order, l)

(* One commit more changes nothing about those before it. *)
LEMMA InGrows ==
    ASSUME NEW o \in Seq(Sessions), NEW t \in Sessions
    PROVE  /\ \A s : In(o, s) => In(Append(o, t), s)
           /\ \A s, u : NotBefore(o, s, u) => NotBefore(Append(o, t), s, u)
           /\ \A s : In(o, s) \/ s = t => NotBefore(Append(o, t), s, t)
<1> DEFINE new == Append(o, t)
           n == Len(o)
<1>1. /\ n \in Nat /\ Len(new) = n + 1 /\ new[n + 1] = t
      /\ \A i \in 1..n : i \in 1..Len(new) /\ new[i] = o[i]
  BY OrderGrows
<1> HIDE DEF new, n
<1>2. \A s : In(o, s) => In(new, s)
  BY <1>1 DEF In, n
<1>3. \A s, u : NotBefore(o, s, u) => NotBefore(new, s, u)
  BY <1>1 DEF NotBefore, n
<1>4. ASSUME NEW s, In(o, s) \/ s = t PROVE NotBefore(new, s, t)
  <2>1. n + 1 \in 1..Len(new)
    BY <1>1
  <2>2. CASE s = t
    BY <1>1, <2>1, <2>2 DEF NotBefore
  <2>3. CASE In(o, s)
    <3>1. PICK i \in 1..n : o[i] = s
      BY <2>3 DEF In, n
    <3>2. i \in 1..Len(new) /\ i <= n + 1 /\ new[i] = s
      BY <1>1, <3>1
    <3> QED BY <1>1, <2>1, <3>2 DEF NotBefore
  <2> QED BY <1>4, <2>2, <2>3
<1> QED BY <1>2, <1>3, <1>4 DEF new

(* The media that a COMMIT leaves are no older than those it found: those  *)
(* that it wrote are its own, and it leaves the first one there.           *)
LEMMA NewerStays ==
    ASSUME SafeInv, OwnersInv, WritesInv, MediaInv, OrderInv, NEW t \in Sessions, pc[t] = "commit",
           NEW l \in ListingID, ~Exempt(l), NEW s, In(order, s), Newer(store, order, l, s)
    PROVE  Newer(View(t), Append(order, t), l, s)
<1> DEFINE db == View(t)
           new == Append(order, t)
<1>0. TypeOK /\ TypeInv /\ Active(t) /\ pc[t] # "idle" /\ order \in Seq(Sessions)
  BY DEF SafeInv, TypeInv, Active, OrderInv
<1>1. ASSUME NEW k
      PROVE  /\ k \in DOMAIN db <=> IF k \in DOMAIN writes[t] THEN writes[t][k] # NoRow ELSE k \in DOMAIN store
             /\ k \in DOMAIN db => db[k] = IF k \in DOMAIN writes[t] THEN writes[t][k] ELSE store[k]
  BY <1>0, ViewType
<1>2. Medium(l, 0) \in DOMAIN db
  <2>1. Medium(l, 0) \in DOMAIN store /\ Medium(l, 0) \in MediaKey /\ Medium(l, 0)[2] = l
    <3>1. Medium(l, 0) \in DOMAIN store /\ Medium(l, 0)[1] = "media" /\ Medium(l, 0)[2] = l
      BY DEF Newer, Medium
    <3>2. Medium(l, 0) \in Key
      BY <1>0, <3>1 DEF TypeOK, IsDatabase
    <3> QED BY <3>1, <3>2, KeyKinds
  <2> SUFFICES ASSUME Medium(l, 0) \in DOMAIN writes[t], writes[t][Medium(l, 0)] = NoRow PROVE FALSE
    BY <1>1, <2>1
  <2>2. req[t].op = "modify-listing" /\ req[t].listing = l
    BY <2>1 DEF WritesInv, Justified
  <2>3. l \notin Sessions
    BY <1>0, <2>2 DEF Exempt, Remade
  <2>4. Begun(db, writes[t], req[t])
    BY <1>0, <2>2, <2>3 DEF MediaInv, Changing, Modifying
  <2>5. Stays(writes[t], Medium(l, 0))
    BY <2>1, <2>2, <2>4 DEF Begun
  <2> QED BY <2>5 DEF Stays
<1>3. ASSUME NEW k \in MediaIn(db, l) PROVE NotBefore(new, s, db[k].url)
  <2>1. k \in MediaKey /\ k \in DOMAIN db /\ k[2] = l
    BY <1>3 DEF MediaIn
  <2>2. CASE k \in DOMAIN writes[t]
    <3>1. db[k].url = t
      BY <1>1, <2>1, <2>2 DEF OwnersInv, OwnRow
    <3>2. NotBefore(new, s, t)
      BY <1>0, InGrows
    <3> QED BY <3>1, <3>2
  <2>3. CASE k \notin DOMAIN writes[t]
    <3>1. k \in MediaIn(store, l) /\ db[k] = store[k]
      BY <1>1, <2>1, <2>3 DEF MediaIn
    <3>2. NotBefore(order, s, store[k].url)
      BY <3>1 DEF Newer
    <3> QED BY <1>0, <3>1, <3>2, InGrows
  <2> QED BY <2>2, <2>3
<1> QED BY <1>2, <1>3 DEF Newer

(* What is stamped by the request that commits has its media, and no       *)
(* other: a modification has replaced them all, a new listing has no other. *)
LEMMA NewerCommitted ==
    ASSUME SafeInv, OwnersInv, ProgressInv, TraceInv, MediaInv, OrderInv, NEW t \in Sessions, pc[t] = "commit",
           NEW l \in ListingID, ~Exempt(l), <<"listing", l>> \in DOMAIN writes[t],
           Modifies(req[t], l) \/ (req[t].op = "create-listing" /\ l = t), req[t].media > 0
    PROVE  Newer(View(t), Append(order, t), l, t)
<1> DEFINE db == View(t)
           r == req[t]
<1>0. TypeOK /\ TypeInv /\ Active(t) /\ pc[t] # "idle" /\ r \in Request /\ IsDatabase(db)
  BY ViewType DEF SafeInv, TypeInv, Active, Position
<1>1. NotBefore(Append(order, t), t, t)
  BY InGrows DEF OrderInv
<1>2. CASE Modifies(r, l)
  <2>1. l \notin Sessions /\ r.op = "modify-listing" /\ r.listing = l
    BY <1>0, <1>2 DEF Exempt, Remade, Modifies
  <2>2. Modifying(t) /\ Changing(t)
    BY <1>0, <2>1 DEF Modifying, MediaInv
  <2>3. Ready(db, r)
    <3>1. Begun(db, writes[t], r)
      BY <2>2 DEF Changing
    <3> QED BY <2>1, <3>1 DEF Begun
  <2>4. /\ \A k \in MediaIn(db, l) : k[3] \in 0..(r.media - 1)
        /\ \A i \in 0..(r.media - 1) : Medium(l, i) \in MediaIn(db, l) /\ db[Medium(l, i)].url = t
    BY <1>0, <2>1, <2>2, <2>3, CommittedModification
  <2>5. 0 \in 0..(r.media - 1)
    <3>1. r.media \in Nat
      BY <1>0, <2>1, ModificationKinds
    <3> QED BY <3>1
  <2>6. \A k \in MediaIn(db, l) : k = Medium(l, k[3])
    BY DEF MediaIn, MediaKey, Medium
  <2>7. Medium(l, 0) \in DOMAIN db
    BY <2>4, <2>5 DEF MediaIn
  <2>8. \A k \in MediaIn(db, l) : db[k].url = t
    BY <2>4, <2>6
  <2> QED BY <1>1, <2>7, <2>8 DEF Newer
<1>3. CASE r.op = "create-listing" /\ l = t
  <2>1. t \notin Remade
    BY <1>3 DEF Exempt
  <2>2. r.media \in Nat
    <3>1. r \in CreateListingRequest
      BY <1>0, <1>3, RequestKinds
    <3> QED BY <3>1, SchemaAssumption DEF CreateListingRequest
  <2>3. Has(Build(r), Named("insert_media", 0))
    <3>1. \A i \in 1..r.media : Has(Build(r), Named("insert_media", i - 1))
      BY <1>0, <1>3, BuildHas
    <3>2. 1 \in 1..r.media
      BY <2>2
    <3>3. Has(Build(r), Named("insert_media", 1 - 1))
      BY <3>1, <3>2
    <3> QED BY <3>3
  <2>4. PICK i \in 1..Len(Build(r)) : Build(r)[i] = Named("insert_media", 0)
    BY <2>3 DEF Has
  <2>5. Made(db, t, Named("insert_media", 0))
    <3>1. Finished(t, i) /\ Build(r)[i].query \in Sure
      BY <2>4 DEF Finished, Named, Sure
    <3> QED BY <1>0, <2>4, <3>1 DEF ProgressInv, Progress
  <2>6. Medium(t, 0) \in DOMAIN db
    BY <2>1, <2>5 DEF Made, Fulfilled, Named, Medium
  <2>7. ASSUME NEW k \in MediaIn(db, t) PROVE db[k].url = t
    <3>1. k \in MediaKey /\ k[2] = t /\ k \in DOMAIN db
      BY <2>7 DEF MediaIn
    <3>2. /\ k \in DOMAIN db <=> IF k \in DOMAIN writes[t] THEN writes[t][k] # NoRow ELSE k \in DOMAIN store
          /\ k \in DOMAIN db => db[k] = IF k \in DOMAIN writes[t] THEN writes[t][k] ELSE store[k]
      BY <1>0, ViewType
    <3>3. k \in DOMAIN writes[t]
      <4> SUFFICES ASSUME k \notin DOMAIN writes[t] PROVE FALSE
        OBVIOUS
      <4>1. k \in DOMAIN store /\ Marks(k, store[k], t)
        BY <3>1, <3>2 DEF Marks
      <4> QED BY <1>0, <4>1, NoneBefore
    <3> QED BY <3>1, <3>2, <3>3 DEF OwnersInv, OwnRow
  <2> QED BY <1>1, <1>3, <2>6, <2>7 DEF Newer
<1> QED BY <1>2, <1>3

(* A session that is in the order has its request for good. *)
LEMMA MediaRequested ==
    ASSUME TypeInv, OrderInv, NEW s \in Sessions, Execute(s) \/ Handle(s) \/ QueryFails(s), NEW u, In(order, u), u \in WithMedia'
    PROVE  u \in WithMedia
<1>1. u \in Sessions /\ pc[u] = "done"
  BY DEF OrderInv, In
<1>2. req'[u] = req[u]
  BY <1>1, RequestStays
<1> QED BY <1>1, <1>2 DEF WithMedia

(* What is so of some rows stays so after one more commit, and of the      *)
(* database as well.                                                       *)
LEMMA CurrentStays ==
    ASSUME SafeInv, OwnersInv, WritesInv, MediaInv, OrderInv,
           NEW s \in Sessions, Execute(s) \/ Handle(s) \/ QueryFails(s), Write, NEW l \in ListingID, ~Exempt(l), NEW columns
    PROVE  /\ \A db : Current(columns, WithMedia, db, order, l) => Current(columns, WithMedia', db, order', l)
           /\ Current(columns, WithMedia, store, order, l) => Current(columns, WithMedia', store', order', l)
<1>0. TypeInv /\ order \in Seq(Sessions) /\ \A u : In(order, u) /\ u \in WithMedia' => u \in WithMedia
  BY MediaRequested DEF SafeInv, OrderInv
<1>1. CASE Commits(s)
  <2>1. store' = View(s) /\ order' = Append(order, s) /\ pc[s] = "commit"
    BY <1>1 DEF Commits
  <2>2. \A u : In(order, u) => In(order', u)
    BY <1>0, <2>1, InGrows
  <2>3. \A u : \A db : Newer(db, order, l, u) => Newer(db, order', l, u)
    BY <1>0, <2>1, InGrows DEF Newer
  <2>4. \A u : In(order, u) /\ Newer(store, order, l, u) => Newer(store', order', l, u)
    BY <2>1, NewerStays
  <2>5. ASSUME NEW db, Current(columns, WithMedia, db, order, l) PROVE Current(columns, WithMedia', db, order', l)
    BY <1>0, <2>2, <2>3, <2>5 DEF Current
  <2>6. ASSUME Current(columns, WithMedia, store, order, l) PROVE Current(columns, WithMedia', store', order', l)
    BY <1>0, <2>2, <2>4, <2>6 DEF Current
  <2> QED BY <2>5, <2>6
<1>2. CASE UNCHANGED <<store, order>>
  <2>1. ASSUME NEW db, Current(columns, WithMedia, db, order, l) PROVE Current(columns, WithMedia', db, order, l)
    BY <1>0, <2>1 DEF Current
  <2> QED BY <1>2, <2>1
<1> QED BY <1>0, <1>1, <1>2, WriteOrder

(* The columns of a listing are stamped by granted requests, and its media *)
(* are not older than any of them.                                         *)
LEMMA ColumnsStep ==
    ASSUME SafeInv, SafeInv', OwnersInv, WritesInv, ProgressInv, TraceInv, MediaInv, ListingInv, OrderInv, OrderInv', TraceInv',
           ColumnsInv, NEW s \in Sessions, Execute(s) \/ Handle(s) \/ QueryFails(s), Write
    PROVE  ColumnsInv'
<1> SUFFICES ASSUME NEW l \in ListingID, <<"listing", l>> \in DOMAIN store', ~Exempt(l)'
             PROVE  Current(store'[<<"listing", l>>].columns, WithMedia', store', order', l)
  BY DEF ColumnsInv
<1> DEFINE k == <<"listing", l>>
<1>0. TypeInv /\ TypeOK /\ ~Exempt(l) /\ k \in ListingKey
  <2>1. Remade \subseteq Remade'
    BY RequestStays DEF SafeInv
  <2> QED BY <2>1 DEF SafeInv, TypeInv, Exempt, ListingKey
<1>1. k \in DOMAIN store => Current(store[k].columns, WithMedia', store', order', l)
  BY <1>0, CurrentStays DEF ColumnsInv
<1>2. CASE UNCHANGED store
  BY <1>1, <1>2
<1>3. CASE Commits(s) /\ k \notin DOMAIN writes[s]
  <2>1. k \in DOMAIN store /\ store'[k] = store[k]
    BY <1>0, <1>3, ViewType DEF Commits
  <2> QED BY <1>1, <2>1
<1>4. CASE Commits(s) /\ k \in DOMAIN writes[s]
  <2>1. store' = View(s) /\ order' = Append(order, s) /\ pc[s] = "commit" /\ store'[k] = writes[s][k]
    BY <1>0, <1>4, ViewType DEF Commits
  <2>2. \A c \in ListingColumns :
          \/ store'[k].columns[c] = s /\ (Modifies(req[s], l) \/ (req[s].op = "create-listing" /\ l = s))
          \/ k \in DOMAIN store /\ store'[k].columns[c] = store[k].columns[c]
    BY <1>0, <1>4, <2>1 DEF ListingInv, Titled
  <2>3. In(order', s) /\ req'[s] = req[s]
    <3>1. NotBefore(order', s, s)
      BY <2>1, InGrows DEF OrderInv
    <3>2. req'[s] = req[s]
      BY <1>0, <2>1, RequestStays
    <3> QED BY <3>1, <3>2 DEF NotBefore, In
  <2>4. (Modifies(req[s], l) \/ (req[s].op = "create-listing" /\ l = s)) /\ s \in WithMedia' => Newer(store', order', l, s)
    BY <1>0, <1>4, <2>1, <2>3, NewerCommitted DEF WithMedia
  <2>5. ASSUME NEW c \in ListingColumns, store'[k].columns[c] # Null
        PROVE  /\ In(order', store'[k].columns[c])
               /\ store'[k].columns[c] \in WithMedia' => Newer(store', order', l, store'[k].columns[c])
    <3>1. CASE store'[k].columns[c] = s /\ (Modifies(req[s], l) \/ (req[s].op = "create-listing" /\ l = s))
      BY <2>3, <2>4, <3>1
    <3>2. CASE k \in DOMAIN store /\ store'[k].columns[c] = store[k].columns[c]
      BY <1>1, <2>5, <3>2 DEF Current
    <3> QED BY <2>2, <3>1, <3>2
  <2> QED BY <2>5 DEF Current
<1> QED BY <1>0, <1>2, <1>3, <1>4, WriteOrder

(* In every committed database the media of a listing are at least as new  *)
(* as its columns (get_media reads after get_listing).                     *)
THEOREM ColumnsAreCurrent == ReadSpec => []ColumnsInv
<1>1. ReadInit => ColumnsInv
  <2> SUFFICES ASSUME ReadInit, NEW l \in ListingID, <<"listing", l>> \in DOMAIN store, NEW c \in ListingColumns
               PROVE  store[<<"listing", l>>].columns[c] = Null
    BY DEF ColumnsInv, Current
  <2> DEFINE k == <<"listing", l>>
  <2>1. store = InitStore /\ k \in DOMAIN InitStore /\ k \in ListingKey
    BY DEF ReadInit, Init, ListingKey
  <2>2. InitStore[k] \in ListingRow
    BY <2>1, MarketplaceAssumption, RowKinds DEF IsDatabase
  <2>3. InitStore[k].columns[c] \in Stamp /\ DOMAIN InitStore[k].columns = ListingColumns
    BY <2>2 DEF ListingRow
  <2>4. \A s \in Sessions : InitStore[k].columns[c] # s
    BY <2>1, <2>3, MarketplaceAssumption DEF Marks
  <2> QED BY <2>1, <2>3, <2>4 DEF Stamp
<1>2. (/\ SafeInv /\ SafeInv' /\ OwnersInv /\ WritesInv /\ ProgressInv /\ TraceInv /\ TraceInv' /\ MediaInv /\ ListingInv
       /\ OrderInv /\ OrderInv' /\ ColumnsInv /\ [ReadNext]_<<vars, readerVars, order>>) => ColumnsInv'
  <2> SUFFICES ASSUME SafeInv, SafeInv', OwnersInv, WritesInv, ProgressInv, TraceInv, TraceInv', MediaInv, ListingInv,
                      OrderInv, OrderInv', ColumnsInv, [ReadNext]_<<vars, readerVars, order>>
               PROVE  ColumnsInv'
    OBVIOUS
  <2>1. CASE UNCHANGED <<vars, order>>
    BY <2>1 DEF vars, ColumnsInv, Exempt, Remade, WithMedia
  <2>2. CASE Write
    <3>1. ASSUME NEW s \in Sessions, Execute(s) \/ Handle(s) \/ QueryFails(s) PROVE ColumnsInv'
      BY <2>2, <3>1, ColumnsStep
    <3>2. CASE UNCHANGED vars
      BY <2>1, <2>2, <3>2, IdleWrite
    <3> QED BY <2>2, <3>1, <3>2 DEF Write, Next, Terminating
  <2> QED BY <2>1, <2>2 DEF ReadNext
<1> QED BY <1>1, <1>2, ReadersOnlyRead, SafeIsInvariant, OwnersIsInvariant, WritesAreJustified, ProgressIsInvariant,
       TraceIsInvariant, MediaIsInvariant, ListingIsInvariant, OrderIsInvariant, PTL DEF ReadSpec
-----------------------------------------------------------------------------
(* What a view of a listing has found: the media in the database are not   *)
(* older than the listing it found, nor are the media that it found.       *)
ListingAsked(r) == <<"listing", ask[r].listing>>

Views(r) ==
    /\ phase[r] # "idle" /\ ask[r].op \in {"view-listing", "view-accountListing"}
    /\ Len(found[r]) >= 1 /\ ListingAsked(r) \in DOMAIN found[r][1] /\ ~Exempt(ask[r].listing)

FoundNewer(r) ==
    Views(r) =>
        LET columns == found[r][1][ListingAsked(r)].columns IN
        /\ Current(columns, WithMedia, store, order, ask[r].listing)
        /\ Len(found[r]) = 3 => Current(columns, WithMedia, found[r][3], order, ask[r].listing)

NewerInv == \A r \in Readers : FoundNewer(r)

(* get_media finds what there is. *)
LEMMA MediaFound ==
    ASSUME NEW db, IsDatabase(db), NEW l, NEW D, \A k : k \in D <=> k \in MediaIn(db, l),
           NEW columns, NEW brought, NEW o, Current(columns, brought, db, o, l)
    PROVE  Current(columns, brought, [k \in D |-> db[k]], o, l)
<1> DEFINE x == [k \in D |-> db[k]]
<1>1. MediaIn(x, l) = MediaIn(db, l) /\ \A k \in MediaIn(db, l) : x[k] = db[k]
  BY DEF MediaIn
<1>2. Medium(l, 0) \in DOMAIN db => Medium(l, 0) \in DOMAIN x
  <2> SUFFICES ASSUME Medium(l, 0) \in DOMAIN db PROVE Medium(l, 0) \in MediaIn(db, l)
    OBVIOUS
  <2>1. Medium(l, 0) \in Key /\ Medium(l, 0)[1] = "media" /\ Medium(l, 0)[2] = l
    BY DEF IsDatabase, Medium
  <2>2. Medium(l, 0) \in MediaKey
    BY <2>1, KeyKinds
  <2> QED BY <2>1, <2>2 DEF MediaIn
<1> HIDE DEF x
<1>3. \A s : Newer(db, o, l, s) => Newer(x, o, l, s)
  BY <1>1, <1>2 DEF Newer
<1> QED BY <1>3 DEF Current, x

(* A reader that does not move, next to a writer that does. *)
LEMMA NewerBesideWriter ==
    ASSUME SafeInv, OwnersInv, WritesInv, MediaInv, OrderInv, ReaderInv, NewerInv,
           NEW s \in Sessions, Execute(s) \/ Handle(s) \/ QueryFails(s), Write, NEW r \in Readers
    PROVE  FoundNewer(r)'
<1>0. ask' = ask /\ phase' = phase /\ found' = found
  BY DEF Write, readerVars
<1>1. Remade \subseteq Remade'
  BY RequestStays DEF SafeInv
<1> SUFFICES ASSUME Views(r)' PROVE FoundNewer(r)'
  BY DEF FoundNewer
<1> DEFINE l == ask[r].listing
           columns == found[r][1][ListingAsked(r)].columns
<1>2. Views(r) /\ ~Exempt(l) /\ l \in ListingID
  <2>1. Views(r)
    BY <1>0, <1>1 DEF Views, Exempt, ListingAsked
  <2>2. ask[r] \in ReadRequest
    BY <2>1 DEF Views, ReaderInv, Reads
  <2> QED BY <2>1, <2>2, ReadKinds DEF Views
<1>3. /\ Current(columns, WithMedia, store, order, l)
      /\ Len(found[r]) = 3 => Current(columns, WithMedia, found[r][3], order, l)
  BY <1>2 DEF NewerInv, FoundNewer
<1>4. /\ Current(columns, WithMedia', store', order', l)
      /\ Len(found[r]) = 3 => Current(columns, WithMedia', found[r][3], order', l)
  <2> HIDE DEF columns, l
  <2> QED BY <1>2, <1>3, CurrentStays
<1>5. ListingAsked(r)' = ListingAsked(r)
  BY <1>0 DEF ListingAsked
<1> QED BY <1>0, <1>4, <1>5 DEF FoundNewer

(* The steps of a reader. *)
LEMMA NewerFound ==
    ASSUME ReaderInv, ColumnsInv, NewerInv, Sound(store, Remade), NEW r \in Readers, NextSelect(r), UNCHANGED <<vars, order>>
    PROVE  FoundNewer(r)'
<1> DEFINE q == ask[r]
           l == q.listing
           k == <<"listing", l>>
           parts == found[r]
           n == Len(parts)
           t == ReadTemplate(q)
           D == Select(store, q, t[n + 1], Rows(r))
           x == [j \in D |-> store[j]]
<1>0. /\ ask' = ask /\ UNCHANGED <<store, order>> /\ Remade' = Remade /\ WithMedia' = WithMedia
      /\ phase[r] # "idle" /\ q \in ReadRequest /\ Len(t) \in Nat /\ n < Len(t)
  <2>1. phase[r] = "select" /\ ask' = ask
    BY DEF NextSelect
  <2>2. Reads(r)
    BY DEF ReaderInv
  <2>3. q \in ReadRequest /\ n < Len(t)
    BY <2>1, <2>2 DEF Reads, Progressed
  <2>4. Len(t) \in Nat
    BY <2>3, TemplateLengths
  <2> QED BY <2>1, <2>3, <2>4 DEF vars, Remade, WithMedia
<1>1. PICK S : parts \in Seq(S)
  BY DEF ReaderInv, Reads
<1>2. CASE found' = found
  BY <1>0, <1>2 DEF NewerInv, FoundNewer, Views, ListingAsked, Exempt
<1>3. CASE found'[r] = Append(parts, x)
  <2> SUFFICES ASSUME Views(r)' PROVE FoundNewer(r)'
    BY DEF FoundNewer
  <2>1. Len(found'[r]) = n + 1 /\ n \in Nat /\ found'[r][n + 1] = x /\ \A i \in 1..n : found'[r][i] = parts[i]
    <3> HIDE DEF x
    <3> QED BY <1>1, <1>3, Appended
  <2>2. /\ q.op \in {"view-listing", "view-accountListing"} /\ k \in DOMAIN found'[r][1] /\ ~Exempt(l) /\ l \in ListingID
        /\ ListingAsked(r)' = k
    BY <1>0, ReadKinds DEF Views, ListingAsked, Exempt
  <2>3. Len(t) = 3
    BY <1>0, <2>2, TemplateLengths DEF IsView
  <2>4. CASE n = 0
    <3>1. found'[r][1] = x /\ D = Select(store, q, t[1], Rows(r))
      BY <2>1, <2>4
    <3>2. k \in D
      BY <2>2, <3>1
    <3>3. k \in Wanted(store, q)
      <4>1. \A j : j \in Select(store, q, t[1], Rows(r)) <=> j = k /\ j \in Wanted(store, q)
        BY <1>0, <2>2, ListingSelects
      <4> QED BY <3>1, <3>2, <4>1
    <3>4. k \in DOMAIN store
      BY <2>2, <3>3 DEF Wanted, IsOpenListing
    <3>5. found'[r][1][k] = store[k]
      BY <3>1, <3>2
    <3>6. Current(store[k].columns, WithMedia, store, order, l)
      BY <2>2, <3>4 DEF ColumnsInv
    <3>7. Len(found'[r]) # 3
      BY <2>1, <2>4
    <3> QED BY <1>0, <2>2, <3>5, <3>6, <3>7 DEF FoundNewer
  <2>5. CASE n >= 1
    <3>1. found'[r][1] = parts[1] /\ Views(r)
      <4>1. found'[r][1] = parts[1]
        BY <2>1, <2>5
      <4> QED BY <1>0, <2>2, <2>5, <4>1 DEF Views, ListingAsked
    <3>2. Current(parts[1][k].columns, WithMedia, store, order, l)
      BY <3>1 DEF NewerInv, FoundNewer, ListingAsked
    <3>3. Len(found'[r]) = 3 => Current(parts[1][k].columns, WithMedia, found'[r][3], order, l)
      <4> SUFFICES ASSUME Len(found'[r]) = 3 PROVE Current(parts[1][k].columns, WithMedia, found'[r][3], order, l)
        OBVIOUS
      <4>1. n + 1 = 3
        BY <2>1
      <4>2. found'[r][3] = x
        BY <2>1, <4>1
      <4>3. \A j : j \in D <=> j \in MediaIn(store, l)
        <5>1. \A j : j \in Select(store, q, t[3], Rows(r)) <=> j \in MediaIn(store, l)
          BY <1>0, <2>2, ListingSelects
        <5> QED BY <4>1, <5>1
      <4>4. IsDatabase(store)
        BY DEF Sound
      <4> HIDE DEF D, parts, k, l
      <4>5. Current(parts[1][k].columns, WithMedia, x, order, l)
        BY <3>2, <4>3, <4>4, MediaFound
      <4> QED BY <4>2, <4>5
    <3> QED BY <1>0, <2>2, <3>1, <3>2, <3>3 DEF FoundNewer
  <2>6. n = 0 \/ n >= 1
    <3> HIDE DEF n
    <3> QED BY <2>1
  <2> QED BY <2>4, <2>5, <2>6
<1>4. found' = found \/ found'[r] = Append(parts, x)
  BY DEF NextSelect, ReaderInv
<1> QED BY <1>2, <1>3, <1>4

(* What a reader has found is of one order of commits. *)
THEOREM FoundIsNewer == ReadSpec => []NewerInv
<1>1. ReadInit => NewerInv
  BY DEF ReadInit, NewerInv, FoundNewer, Views
<1>2. (/\ SafeInv /\ AgreeInv /\ ListingInv /\ OwnersInv /\ WritesInv /\ MediaInv /\ OrderInv /\ ColumnsInv /\ ReaderInv /\ NewerInv
       /\ [ReadNext]_<<vars, readerVars, order>>) => NewerInv'
  <2> SUFFICES ASSUME SafeInv, AgreeInv, ListingInv, OwnersInv, WritesInv, MediaInv, OrderInv, ColumnsInv, ReaderInv, NewerInv,
                      [ReadNext]_<<vars, readerVars, order>>, NEW r \in Readers
               PROVE  FoundNewer(r)'
    BY DEF NewerInv
  <2>0. Sound(store, Remade) /\ FoundNewer(r)
    BY StoreIsSound DEF NewerInv
  <2>1. ASSUME UNCHANGED <<vars, order>>, ask'[r] = ask[r], found'[r] = found[r], phase[r] # "idle" \/ phase'[r] = phase[r]
        PROVE  FoundNewer(r)'
    BY <2>0, <2>1 DEF vars, FoundNewer, Views, ListingAsked, Exempt, Remade, WithMedia
  <2>2. CASE Write
    <3>1. ASSUME NEW s \in Sessions, Execute(s) \/ Handle(s) \/ QueryFails(s) PROVE FoundNewer(r)'
      BY <2>2, <3>1, NewerBesideWriter
    <3>2. CASE UNCHANGED vars
      BY <2>1, <2>2, <3>2, IdleWrite DEF Write, readerVars
    <3> QED BY <2>2, <3>1, <3>2 DEF Write, Next, Terminating
  <2>3. ASSUME NEW u \in Readers, Ask(u) \/ NextSelect(u) \/ SelectFails(u) \/ Answer(u), UNCHANGED <<vars, order>>
        PROVE  FoundNewer(r)'
    <3>0. DOMAIN ask = Readers /\ DOMAIN phase = Readers /\ DOMAIN found = Readers
      BY DEF ReaderInv
    <3>1. CASE u # r
      <4>1. ask'[r] = ask[r] /\ phase'[r] = phase[r] /\ found'[r] = found[r]
        BY <2>3, <3>0, <3>1 DEF Ask, NextSelect, SelectFails, Answer
      <4> QED BY <2>1, <2>3, <4>1
    <3>2. CASE u = r /\ Ask(r)
      <4>1. found'[r] = <<>>
        BY <3>2 DEF Ask, ReaderInv, Reads
      <4>2. ~Views(r)'
        BY <4>1 DEF Views
      <4> QED BY <4>2 DEF FoundNewer
    <3>3. CASE u = r /\ NextSelect(r)
      BY <2>0, <2>3, <3>3, NewerFound
    <3>4. CASE u = r /\ (SelectFails(r) \/ Answer(r))
      <4>1. ask'[r] = ask[r] /\ found'[r] = found[r] /\ phase[r] # "idle"
        BY <3>4 DEF SelectFails, Answer
      <4> QED BY <2>1, <2>3, <4>1
    <3> QED BY <2>3, <3>1, <3>2, <3>3, <3>4
  <2>4. CASE UNCHANGED <<vars, readerVars, order>>
    BY <2>1, <2>4 DEF readerVars
  <2> QED BY <2>2, <2>3, <2>4 DEF ReadNext, Read
<1> QED BY <1>1, <1>2, ReadersOnlyRead, SafeIsInvariant, AgreeIsInvariant, ListingIsInvariant, OwnersIsInvariant,
       WritesAreJustified, MediaIsInvariant, OrderIsInvariant, ColumnsAreCurrent, ReaderIsInvariant, PTL DEF ReadSpec

(* Ranks compare as the commits do. *)
LEMMA RanksInOrder ==
    ASSUME OrderInv, NEW s, NEW u, NotBefore(order, s, u)
    PROVE  Rank(u) >= Rank(s)
<1>1. PICK i, j \in 1..Len(order) : i <= j /\ order[i] = s /\ order[j] = u
  BY DEF NotBefore
<1>2. /\ order \in Seq(Sessions) /\ DOMAIN order = 1..Len(order) /\ s \in Sessions /\ u \in Sessions
      /\ \A a, b \in 1..Len(order) : order[a] = order[b] => a = b
  BY <1>1 DEF OrderInv
<1>3. s # Null /\ u # Null
  BY <1>2, SchemaAssumption
<1>4. (CHOOSE a \in DOMAIN order : order[a] = s) = i /\ (CHOOSE a \in DOMAIN order : order[a] = u) = j
  BY <1>1, <1>2
<1> QED BY <1>1, <1>3, <1>4 DEF Rank

(* The media that are shown of a listing are not older than its texts.     *)
LEMMA ShownMediaNewer ==
    ASSUME OrderInv, ReaderInv, NewerInv, NEW r \in Readers, ShowsListing(r), ~Exempt(ask[r].listing),
           NEW c \in ListingColumns, NEW s, s = ShownListing(r).columns[c], s # Null, req[s].media > 0
    PROVE  ShownMedia(r) # {} /\ \A k \in ShownMedia(r) : Rank(Rows(r)[k].url) >= Rank(s)
<1> DEFINE l == ask[r].listing
           k == <<"listing", l>>
           media == found[r][3]
<1>0. phase[r] # "idle" /\ ask[r] \in ReadRequest /\ ask[r].op \in {"view-listing", "view-accountListing"}
  <2>1. phase[r] # "idle" /\ ask[r].op \in {"view-listing", "view-accountListing"}
    BY DEF ShowsListing, Shown
  <2> QED BY <2>1, AnswersAreComposed
<1>1. PICK seen : Composed(r, seen)
  BY <1>0, AnswersAreComposed
<1>2. /\ l \in ListingID /\ Len(found[r]) = 3 /\ Rows(r)[k] = seen[1][k] /\ k \in DOMAIN seen[1]
      /\ \A m : m \in ShownMedia(r) <=> m \in MediaIn(seen[3], l)
      /\ \A m \in ShownMedia(r) : Rows(r)[m] = seen[3][m]
  BY <1>1, ListingShown
<1>3. \A i \in 1..3 : found[r][i] = [j \in Part(r, seen, i) |-> seen[i][j]]
  BY <1>1, <1>2 DEF Composed
<1>4. media = [j \in Part(r, seen, 3) |-> seen[3][j]]
  BY <1>3
<1>5. /\ \A j : j \in Part(r, seen, 1) => j = k
      /\ \A m : m \in Part(r, seen, 3) <=> m \in MediaIn(seen[3], l)
  <2> DEFINE q == ask[r]
             rows == found[r][1]
             first == seen[1]
             third == seen[3]
  <2>1. q \in ReadRequest /\ q.op \in {"view-listing", "view-accountListing"}
    BY <1>0
  <2>2. /\ Part(r, seen, 1) = Select(first, q, ReadTemplate(q)[1], rows)
        /\ Part(r, seen, 3) = Select(third, q, ReadTemplate(q)[3], rows)
    BY DEF Part
  <2>3. k = <<"listing", q.listing>> /\ l = q.listing
    OBVIOUS
  <2> HIDE DEF q, rows, first, third, k, l
  <2>4. \A j : j \in Select(first, q, ReadTemplate(q)[1], rows) <=> j = <<"listing", q.listing>> /\ j \in Wanted(first, q)
    BY <2>1, ListingSelects
  <2>5. \A m : m \in Select(third, q, ReadTemplate(q)[3], rows) <=> m \in MediaIn(third, q.listing)
    BY <2>1, ListingSelects
  <2>6. /\ \A j : j \in Part(r, seen, 1) => j = k
        /\ \A m : m \in Part(r, seen, 3) <=> m \in MediaIn(third, l)
    BY <2>2, <2>3, <2>4, <2>5
  <2> QED BY <2>6 DEF third
<1>6. k \in DOMAIN found[r][1] /\ found[r][1][k] = seen[1][k]
  <2>1. found[r][1] # NoWrites
    BY <1>0, ShownIsWhole DEF ShowsListing, IsView
  <2>2. found[r][1] = [j \in Part(r, seen, 1) |-> seen[1][j]]
    BY <1>3
  <2>3. \A j : j \in Part(r, seen, 1) => j = k
    BY <1>5
  <2>4. Part(r, seen, 1) # {}
    <3> SUFFICES ASSUME Part(r, seen, 1) = {} PROVE FALSE
      OBVIOUS
    <3> QED BY <2>1, <2>2 DEF NoWrites
  <2>5. k \in Part(r, seen, 1)
    BY <2>3, <2>4
  <2> QED BY <2>2, <2>5
<1>7. \A m : m \in ShownMedia(r) => m \in MediaIn(media, l) /\ Rows(r)[m] = media[m]
  <2>1. \A m \in MediaIn(seen[3], l) : m \in DOMAIN media /\ media[m] = seen[3][m]
    BY <1>4, <1>5
  <2> QED BY <1>2, <2>1 DEF MediaIn
<1>8. s = found[r][1][k].columns[c]
  BY <1>2, <1>6 DEF ShownListing
<1>9. Current(found[r][1][k].columns, WithMedia, media, order, l)
  BY <1>0, <1>2, <1>6 DEF NewerInv, FoundNewer, Views, ListingAsked
<1>10. In(order, s) /\ (s \in WithMedia => Newer(media, order, l, s))
  BY <1>8, <1>9 DEF Current
<1>11. s \in WithMedia
  BY <1>10 DEF In, OrderInv, WithMedia
<1>12. Newer(media, order, l, s)
  BY <1>10, <1>11
<1>13. ShownMedia(r) # {}
  <2>1. Medium(l, 0) \in DOMAIN media
    BY <1>12 DEF Newer
  <2>2. Medium(l, 0) \in ShownMedia(r)
    BY <1>2, <1>4, <1>5, <2>1
  <2> QED BY <2>2
<1>14. ASSUME NEW m \in ShownMedia(r) PROVE Rank(Rows(r)[m].url) >= Rank(s)
  <2>1. NotBefore(order, s, media[m].url)
    BY <1>7, <1>12 DEF Newer
  <2> QED BY <1>7, <2>1, RanksInOrder
<1> QED BY <1>13, <1>14

(* Who is shown what a modification made of a listing is shown its media,  *)
(* or newer ones (NoMediumIsOlder).                                        *)
THEOREM ShownMediaAreNewer == ReadSpec => []NoMediumIsOlder
<1>1. (TypeInv /\ OrderInv /\ ReaderInv /\ NewerInv) => NoMediumIsOlder
  <2> SUFFICES ASSUME TypeInv, OrderInv, ReaderInv, NewerInv, NEW r \in Readers, ShowsListing(r), ~ForeseenListing(r),
                      NEW c \in ListingColumns, ShownListing(r).columns[c] # Null, req[ShownListing(r).columns[c]].media > 0
               PROVE  /\ ShownMedia(r) # {}
                      /\ \A k \in ShownMedia(r) : Rank(Rows(r)[k].url) >= Rank(ShownListing(r).columns[c])
    BY DEF NoMediumIsOlder
  <2>1. ~Exempt(ask[r].listing)
    BY RemadeIsRequested DEF ForeseenListing, Exempt
  <2> QED BY <2>1, ShownMediaNewer
<1> QED BY <1>1, ReadersOnlyRead, SafeIsInvariant, OrderIsInvariant, ReaderIsInvariant, FoundIsNewer, PTL DEF SafeInv
=============================================================================
