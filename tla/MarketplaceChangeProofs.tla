---------------------- MODULE MarketplaceChangeProofs -----------------------
(***************************************************************************)
(* What changes of listings and of accounts leave in module Marketplace,   *)
(* for any sessions, menu, database and pool: however modify-listing       *)
(* requests interleave, statement by statement, an open listing has the    *)
(* media of one request, and a modification of a listing, or of a profile, *)
(* that is accepted was applied as a whole.  And what a request that is    *)
(* refused may have changed.                                               *)
(***************************************************************************)
EXTENDS MarketplaceOutcomeProofs

(* Whose media and listings a transaction writes: its own request's, or    *)
(* those of a listing it modifies; and a modification writes nothing else, *)
(* but for a new address.  And it returns nothing before it begins.        *)
Modifies(r, l) == r.op = "modify-listing" /\ r.listing = l

OfModification(t, r, k, row) ==
    \/ k = <<"address", t>> /\ row = [owner |-> r.actor]
    \/ k = <<"listing", r.listing>>
    \/ k \in MediaKey /\ k[2] = r.listing

OwnRow(t, r, k, row, there) ==
    /\ k \in MediaKey => k[2] = t \/ Modifies(r, k[2])
    /\ k \in MediaKey /\ row # NoRow => row.url = t
    /\ k \in ListingKey => k \in there \/ k[2] = t
    /\ r.op = "modify-listing" => OfModification(t, r, k, row)

OwnersInv ==
    \A t \in Sessions :
        /\ \A k \in DOMAIN writes[t] : OwnRow(t, req[t], k, writes[t][k], DOMAIN store)
        /\ pc[t] \in {"idle", "password", "store"} => returned[t] = {}

(* The row that a session writes is its own in this sense. *)
LEMMA RowOwned ==
    ASSUME TypeInv, OwnersInv, NEW s \in Sessions, WroteRow(s) \/ LockedRow(s)
    PROVE  \E row : Puts(s, cur[s][1], row) /\ OwnRow(s, req[s], cur[s][1], row, DOMAIN store)
<1> DEFINE k == cur[s][1]
           old == View(s)[k]
           q == Statement(s)
           r == req[s]
           row == Written(View(s), s, r, q, k)
<1>0. /\ pc[s] = "rows" /\ ~Skips(s)
      /\ r \in Request /\ q \in StatementOf(r) /\ q.query \in Statements
      /\ k \in Key /\ k \in Aims(s, r, q) /\ IsDatabase(View(s))
      /\ q.query \in Inserts => k = InsertedKey(s, r, q)
      /\ q.query \notin Inserts => k \in DOMAIN View(s)
  BY RowAt, StatementKinds DEF WroteRow, LockedRow
<1>1. k \in ListingKey => k \in DOMAIN store \/ k[2] = s
  <2>1. k \in DOMAIN View(s) => k \in DOMAIN store \/ k \in DOMAIN writes[s]
    BY ViewType DEF TypeInv
  <2>2. k \in ListingKey /\ q.query \in Inserts => k = <<"listing", s>>
    BY <1>0, InsertedKeys, KeyKinds DEF Inserts, Upserts, PlainInserts
  <2> QED BY <1>0, <2>1, <2>2 DEF OwnersInv, OwnRow
<1>m. r.op = "modify-listing" => OfModification(s, r, k, row) /\ q.query # "change_email"
  <2> SUFFICES ASSUME r.op = "modify-listing" PROVE OfModification(s, r, k, row) /\ q.query # "change_email"
    OBVIOUS
  <2>1. q.query \in {"create_address", "change_media", "drop_extra_media"} \cup ListingUpdates /\ q.query # "change_email"
    BY <1>0 DEF StatementOf, Names, ListingUpdates
  <2>2. CASE q.query = "create_address"
    <3>1. k = <<"address", s>> /\ row = [owner |-> r.actor]
      BY <1>0, <2>2, InsertedKeys DEF Inserts, PlainInserts, Written, Inserted
    <3> HIDE DEF k, row
    <3> QED BY <2>1, <3>1 DEF OfModification
  <2>3. CASE q.query = "change_media"
    <3>1. k = <<"media", r.listing, q.index>> /\ k \in MediaKey
      BY <1>0, <2>3, InsertedKeys DEF Inserts, Upserts, InsertedKey
    <3>2. k[2] = r.listing
      BY <3>1
    <3> HIDE DEF k, row
    <3> QED BY <2>1, <3>1, <3>2 DEF OfModification
  <2>4. CASE q.query \in ListingUpdates \cup {"drop_extra_media"}
    <3>1. k = <<"listing", r.listing>> \/ (k \in MediaKey /\ k[2] = r.listing)
      BY <1>0, <2>4 DEF Aims, Inserts, Upserts, PlainInserts, ListingUpdates
    <3> HIDE DEF k, row
    <3> QED BY <2>1, <3>1 DEF OfModification
  <2> QED BY <2>1, <2>2, <2>3, <2>4
<1>2. CASE LockedRow(s)
  <2>1. Puts(s, k, old)
    BY <1>2 DEF LockedRow, LocksRow
  <2>2. q.query = "change_email"
    BY <1>2 DEF LockedRow
  <2>3. k \notin MediaKey
    BY <1>0, <2>2, KeyKinds DEF Aims, AccountUpdates, Inserts, Upserts, PlainInserts
  <2> HIDE DEF k, old, q, r, row
  <2>4. OwnRow(s, r, k, old, DOMAIN store)
    BY <1>1, <1>m, <2>2, <2>3 DEF OwnRow
  <2> QED BY <2>1, <2>4 DEF k, r, old
<1>3. CASE WroteRow(s)
  <2>1. Puts(s, k, row)
    BY <1>3 DEF WroteRow, Writes
  <2>2. CASE k \notin MediaKey
    <3> HIDE DEF k, row, r
    <3>1. OwnRow(s, r, k, row, DOMAIN store)
      BY <1>1, <1>m, <2>2 DEF OwnRow
    <3> QED BY <2>1, <3>1 DEF k, r
  <2>3. CASE k \in MediaKey
    <3>1. q.query \in {"insert_media", "change_media", "drop_extra_media"}
      <4>1. CASE q.query \in Inserts
        BY <1>0, <2>3, <4>1, InsertedKeys, KeyKinds DEF Inserts, Upserts, PlainInserts
      <4>2. CASE q.query \notin Inserts
        BY <1>0, <2>3, <4>2, KeyKinds DEF Aims, Statements, AccountUpdates, ListingUpdates
      <4> QED BY <4>1, <4>2
    <3>2. CASE q.query = "insert_media"
      <4>1. k = <<"media", s, q.index>>
        BY <1>0, <3>2 DEF InsertedKey, Inserts, PlainInserts
      <4>2. row = [born |-> IF k \in DOMAIN View(s) THEN View(s)[k].born ELSE s, url |-> s]
        BY <3>2 DEF Written, Inserted, Inserts, PlainInserts
      <4>3. row.url = s /\ k[2] = s
        BY <4>1, <4>2
      <4> HIDE DEF row, k
      <4>4. OwnRow(s, r, k, row, DOMAIN store)
        BY <1>1, <1>m, <4>3 DEF OwnRow
      <4> QED BY <2>1, <4>4 DEF k
    <3>3. CASE q.query = "change_media"
      <4>1. k = <<"media", r.listing, q.index>>
        BY <1>0, <3>3 DEF InsertedKey, Inserts, Upserts
      <4>2. row = [born |-> IF k \in DOMAIN View(s) THEN View(s)[k].born ELSE s, url |-> s]
        BY <3>3 DEF Written, Inserted, Inserts, Upserts
      <4>3. r.op = "modify-listing"
        BY <1>0, <3>3, StatementKinds DEF ModifyListingRequest
      <4>4. row.url = s /\ Modifies(r, k[2])
        BY <1>0, <4>1, <4>2, <4>3 DEF Modifies
      <4> HIDE DEF row, k
      <4>5. OwnRow(s, r, k, row, DOMAIN store)
        BY <1>1, <1>m, <4>4 DEF OwnRow
      <4> QED BY <2>1, <4>5 DEF k
    <3>4. CASE q.query = "drop_extra_media"
      <4>1. k[2] = r.listing
        BY <1>0, <3>4 DEF Aims, Inserts, Upserts, PlainInserts
      <4>2. row = NoRow
        BY <3>4 DEF Written, Updated, Inserts, Upserts, PlainInserts
      <4>3. r.op = "modify-listing"
        BY <1>0, <3>4, StatementKinds DEF ModifyListingRequest
      <4>4. Modifies(r, k[2])
        BY <1>0, <4>1, <4>3 DEF Modifies
      <4> HIDE DEF row, k
      <4>5. OwnRow(s, r, k, row, DOMAIN store)
        BY <1>1, <1>m, <4>2, <4>4 DEF OwnRow
      <4> QED BY <2>1, <4>5 DEF k
    <3> QED BY <3>1, <3>2, <3>3, <3>4
  <2> QED BY <2>2, <2>3
<1> QED BY <1>2, <1>3

(* Every step keeps it so. *)
LEMMA OwnersStep ==
    ASSUME SafeInv, SafeInv', AgreeInv, OwnersInv, NEW s \in Sessions, Execute(s) \/ Handle(s) \/ QueryFails(s)
    PROVE  OwnersInv'
<1>0. TypeInv /\ TypeInv' /\ IsDatabase(store)
  BY DEF SafeInv, TypeInv, TypeOK
<1>1. \A k \in ListingKey : k \in DOMAIN store => k \in DOMAIN store'
  <2>1. store' = View(s) \/ UNCHANGED store
    BY <1>0, Effects
  <2> QED BY <1>0, <2>1, SeenFollows DEF SafeInv, Kept, TypeInv
<1>2. ASSUME NEW t, NEW r, NEW k, NEW row, OwnRow(t, r, k, row, DOMAIN store) PROVE OwnRow(t, r, k, row, DOMAIN store')
  BY <1>1, <1>2 DEF OwnRow
<1>3. ASSUME NEW t \in Sessions, NEW k \in DOMAIN writes'[t]
      PROVE  OwnRow(t, req'[t], k, writes'[t][k], DOMAIN store')
  <2>1. CASE k \in DOMAIN writes[t] /\ writes'[t][k] = writes[t][k]
    <3>1. OwnRow(t, req[t], k, writes[t][k], DOMAIN store)
      BY <2>1 DEF OwnersInv
    <3>2. pc[t] # "idle"
      BY <2>1 DEF SafeInv, IInv, LocksExclusive, InTransaction
    <3>3. req'[t] = req[t]
      BY <1>0, <3>2, RequestStays
    <3> QED BY <1>2, <2>1, <3>1, <3>3
  <2>2. CASE t # s \/ StaysOutside(s) \/ Fails(s) \/ Chooses(s) \/ PassesRow(s)
    <3>1. writes'[t] = writes[t]
      BY <1>0, <2>2, StepFrame DEF StaysOutside, Fails, Chooses, PassesRow
    <3> QED BY <1>3, <2>1, <3>1
  <2>3. CASE t = s /\ Ends(s)
    BY <1>0, <1>3, <2>3 DEF Ends, NoWrites, TypeInv, TypeOK
  <2>4. CASE t = s /\ (WroteRow(s) \/ LockedRow(s))
    <3>1. PICK row : Puts(s, cur[s][1], row) /\ OwnRow(s, req[s], cur[s][1], row, DOMAIN store)
      BY <1>0, <2>4, RowOwned
    <3>2. IF k = cur[s][1] THEN writes'[s][k] = row ELSE k \in DOMAIN writes[s] /\ writes'[s][k] = writes[s][k]
      BY <1>0, <1>3, <2>4, <3>1, PutsOne
    <3>3. UNCHANGED req
      BY <2>4 DEF WroteRow, LockedRow
    <3>4. CASE k = cur[s][1]
      BY <1>2, <2>4, <3>1, <3>2, <3>3, <3>4
    <3> QED BY <2>1, <2>4, <3>2, <3>4
  <2> QED BY <1>0, <2>2, <2>3, <2>4, Steps
<1>4. ASSUME NEW t \in Sessions, pc'[t] \in {"idle", "password", "store"} PROVE returned'[t] = {}
  <2>1. CASE t # s
    BY <1>0, <1>4, <2>1, StepFrame DEF OwnersInv
  <2>2. CASE t = s
    <3>1. StaysOutside(s)
      BY <1>0, <1>4, <2>2, Steps DEF Fails, Chooses, PassesRow, WroteRow, LockedRow, Ends, Goes
    <3> QED BY <2>2, <3>1 DEF StaysOutside, OwnersInv
  <2> QED BY <2>1, <2>2
<1> QED BY <1>3, <1>4 DEF OwnersInv

(* Every transaction writes only media of its own request, or of the       *)
(* listing that it modifies.                                               *)
THEOREM OwnersIsInvariant == SafetySpec => []OwnersInv
<1>1. Init => OwnersInv
  BY DEF Init, OwnersInv, NoWrites
<1>2. (SafeInv /\ SafeInv' /\ AgreeInv /\ OwnersInv /\ [Next]_vars) => OwnersInv'
  <2> SUFFICES ASSUME SafeInv, SafeInv', AgreeInv, OwnersInv, [Next]_vars PROVE OwnersInv'
    OBVIOUS
  <2>1. CASE UNCHANGED vars
    BY <2>1 DEF vars, OwnersInv, OwnRow, Modifies
  <2>2. ASSUME NEW s \in Sessions, Execute(s) \/ Handle(s) \/ QueryFails(s) PROVE OwnersInv'
    BY <2>2, OwnersStep
  <2> QED BY <2>1, <2>2 DEF Next, Terminating
<1> QED BY <1>1, <1>2, SafeIsInvariant, AgreeIsInvariant, PTL DEF SafetySpec
-----------------------------------------------------------------------------
(* What a session has kept in its transaction w, of the media of listing l *)
(* in particular.                                                          *)
Medium(l, i) == <<"media", l, i>>
Stays(w, k) == k \in DOMAIN w /\ w[k] # NoRow
Stored(w, l) == {i \in MediaIndex : Stays(w, Medium(l, i))}

(* The condition that every statement of a modification asks for.          *)
Ready(db, r) == Owns(db, r.actor, r.listing) /\ IsOpenListing(db, r.listing)

(* The row of the listing, once a statement has written it, is locked, and *)
(* the listing stays open: always so before the media, if there is a       *)
(* column to change.                                                       *)
Pinned(w, r) == (r.columns # {} \/ r.location # Null) => <<"listing", r.listing>> \in DOMAIN w

(* What statement q of a modification leaves if it finds the listing.      *)
Done(db, w, t, r, q) ==
    /\ q.query = "change_media" => Stays(w, Medium(r.listing, q.index))
    /\ q.query = "drop_extra_media" => \A k \in MediaIn(db, r.listing) : k[3] < r.media
    /\ q.query \in ListingUpdates => <<"listing", r.listing>> \in DOMAIN w
    /\ q.query \in ColumnUpdates => db[<<"listing", r.listing>>].columns[ColumnOf(q)] = t
    /\ q.query = "change_location" => db[<<"listing", r.listing>>].address = AddressOf(t, r)

(* What a statement knows that has rows left to visit: that it found the   *)
(* listing; for the media, that those before are there; and                *)
(* drop_extra_media, that nobody gets at the rows that it has chosen.      *)
Visiting(db, w, r, q, rest) ==
    /\ q.query \in ListingUpdates \cup {"change_media", "drop_extra_media"} => Owns(db, r.actor, r.listing)
    /\ q.query = "change_media" => Pinned(w, r) /\ \A j \in 0..(q.index - 1) : Stays(w, Medium(r.listing, j))
    /\ q.query = "drop_extra_media" =>
         /\ r.media > 0 /\ Pinned(w, r) /\ \A j \in 0..(r.media - 1) : Stays(w, Medium(r.listing, j))
         /\ \A e \in rest : e[1] \in MediaIn(db, r.listing) /\ e[1][3] >= r.media /\ db[e[1]] = e[2]
         /\ \A k \in MediaIn(db, r.listing) : k[3] >= r.media => \E e \in rest : e[1] = k

(* What the transaction of a modification holds: of the media the first    *)
(* ones, and with any of them the very first, whose row keeps other        *)
(* modifications away.                                                     *)
Begun(db, w, r) ==
    /\ (\E k \in DOMAIN w \cap MediaKey : k[2] = r.listing) =>
         Owns(db, r.actor, r.listing) /\ Pinned(w, r) /\ Stays(w, Medium(r.listing, 0))
    /\ \E n \in 0..r.media : Stored(w, r.listing) = 0..(n - 1)
    /\ <<"listing", r.listing>> \in DOMAIN w => Ready(db, r)

(* With something to show, it has written the listing or the first medium  *)
(* (or an address, when it asked for a new one).                           *)
Answering(t, w, r, names) ==
    names # {} =>
        \/ <<"listing", r.listing>> \in DOMAIN w \/ Stays(w, Medium(r.listing, 0))
        \/ r.location = New /\ <<"address", t>> \in DOMAIN w

(* The modifications meant here: of listings that were there before the    *)
(* requests.                                                               *)
Modifying(t) == Active(t) /\ req[t].op = "modify-listing" /\ req[t].listing \notin Sessions

(* All that holds of such a modification in its transaction. *)
Changing(t) ==
    Modifying(t) =>
        /\ Begun(View(t), writes[t], req[t])
        /\ \A i : Finished(t, i) /\ Ready(View(t), req[t]) => Done(View(t), writes[t], t, req[t], Build(req[t])[i])
        /\ pc[t] = "rows" => Visiting(View(t), writes[t], req[t], Statement(t), todo[t])
        /\ Answering(t, writes[t], req[t], returned[t])

(* A new listing gets its media one after the other.                       *)
Creating(t) ==
    Active(t) /\ t \notin Remade =>
        \A k \in DOMAIN writes[t] \cap MediaKey : k[2] = t => \A i \in 0..k[3] : Medium(t, i) \in DOMAIN View(t)

(* A listing whose number somebody asked to modify before it was given. *)
Exempt(l) == l \in Sessions /\ l \in Remade

(* The media of an open listing are whole between the transactions. *)
MediaInv ==
    /\ \A t \in Sessions : Changing(t) /\ Creating(t)
    /\ \A l \in ListingID : IsOpenListing(store, l) /\ ~Exempt(l) => MediaWhole(store, l)
-----------------------------------------------------------------------------
(* What a modification asks for. *)
LEMMA ModificationKinds ==
    ASSUME TypeInv, NEW t \in Sessions, Active(t), req[t].op = "modify-listing"
    PROVE  /\ req[t] \in Request /\ req[t].op = "modify-listing"
           /\ req[t].media \in Nat /\ req[t].media \in 0..MaxMedia /\ req[t].listing \in ListingID
           /\ req[t].columns \subseteq ListingColumns
           /\ <<"listing", req[t].listing>> \in ListingKey /\ <<"listing", req[t].listing>> \in Kept
           /\ \A i \in MediaIndex : Medium(req[t].listing, i) \in MediaKey
           /\ 0..(req[t].media - 1) \subseteq MediaIndex
<1>1. req[t] \in Request
  BY DEF TypeInv, Position, Active
<1>2. req[t] \in ModifyListingRequest
  BY <1>1, RequestKinds DEF ModifyListingRequest, CreateAccountRequest, CloseAccountRequest, ModifyAccountRequest
<1>3. /\ req[t].media \in 0..MaxMedia /\ req[t].listing \in ListingID /\ req[t].columns \subseteq ListingColumns
  BY <1>2 DEF ModifyListingRequest
<1>4. req[t].media \in Nat /\ 0..(req[t].media - 1) \subseteq MediaIndex
  BY <1>3, SchemaAssumption DEF MediaIndex
<1> QED BY <1>1, <1>3, <1>4 DEF ListingKey, Kept, MediaKey, Medium

(* A listing that was there at first, or that an earlier request made, is  *)
(* not put there by a step, and was open if it is open.                    *)
LEMMA OpenBefore ==
    ASSUME SafeInv, SafeInv', AgreeInv, OwnersInv, OwnersInv',
           NEW s \in Sessions, Execute(s) \/ Handle(s) \/ QueryFails(s), NEW l \in ListingID, l \notin Sessions
    PROVE  /\ IsOpenListing(store', l) => IsOpenListing(store, l)
           /\ \A t \in Sessions : pc'[t] # "done" =>
                /\ <<"listing", l>> \in DOMAIN View(t)' => <<"listing", l>> \in DOMAIN View(t)
                /\ IsOpenListing(View(t)', l) => IsOpenListing(View(t), l)
                /\ \A a : Owns(View(t)', a, l) => Owns(View(t), a, l)
<1> DEFINE k == <<"listing", l>>
<1>0. /\ TypeInv /\ TypeInv' /\ TypeOK /\ TypeOK' /\ VersionsInv /\ VersionsInv'
      /\ IsDatabase(store) /\ k \in ListingKey /\ k \in Kept
  BY DEF SafeInv, TypeInv, TypeOK, ListingKey, Kept
<1>1. \A t \in Sessions : k \in DOMAIN writes[t] => k \in DOMAIN store
  BY <1>0 DEF OwnersInv, OwnRow
<1>2. \A t \in Sessions : k \in DOMAIN writes'[t] => k \in DOMAIN store'
  BY <1>0 DEF OwnersInv, OwnRow
<1>3. k \in DOMAIN store' => k \in DOMAIN store
  <2>1. store' = View(s) \/ UNCHANGED store
    BY <1>0, Effects
  <2> QED BY <1>0, <1>1, <2>1, ViewType
<1>4. Later(store, store')
  <2>1. UNCHANGED store \/ store' = View(s)
    BY <1>0, Effects
  <2> QED BY <1>0, <2>1, SeenFollows DEF Later, Follows
<1>5. IsOpenListing(store', l) => IsOpenListing(store, l)
  BY <1>0, <1>3, <1>4 DEF IsOpenListing, Later, Follows
<1>6. ASSUME NEW t \in Sessions, pc'[t] # "done", k \in DOMAIN View(t)'
      PROVE  k \in DOMAIN View(t) /\ Follows(k, View(t)[k], View(t)'[k])
  <2>1. k \in DOMAIN store' \/ k \in DOMAIN writes'[t]
    BY <1>6 DEF View
  <2>2. k \in DOMAIN store
    BY <1>2, <1>3, <2>1
  <2>3. k \in DOMAIN View(t)
    BY <1>0, <2>2, SeenFollows
  <2>4. Later(View(t), View(t)')
    BY <1>6, ViewStep
  <2> QED BY <1>0, <2>3, <2>4 DEF Later
<1> HIDE DEF k
<1>7. ASSUME NEW t \in Sessions, pc'[t] # "done", IsOpenListing(View(t)', l) PROVE IsOpenListing(View(t), l)
  BY <1>0, <1>6, <1>7 DEF IsOpenListing, Follows, k
<1>8. ASSUME NEW t \in Sessions, pc'[t] # "done", NEW a, Owns(View(t)', a, l) PROVE Owns(View(t), a, l)
  BY <1>0, <1>6, <1>8 DEF Owns, Follows, k
<1> QED BY <1>5, <1>6, <1>7, <1>8 DEF k

(* The media of a listing, but for those of the one that writes, stay as   *)
(* they are under the first of them, which a modification holds.           *)
LEMMA MediaUntouched ==
    ASSUME SafeInv, SafeInv', OwnersInv, MediaInv, NEW s \in Sessions, Execute(s) \/ Handle(s) \/ QueryFails(s),
           NEW t \in Sessions, t # s, NEW l, l \notin Sessions, Stays(writes[t], Medium(l, 0))
    PROVE  /\ MediaIn(View(t)', l) = MediaIn(View(t), l)
           /\ \A k \in MediaIn(View(t), l) : View(t)'[k] = View(t)[k]
<1>0. TypeInv /\ TypeOK /\ LocksExclusive
  BY DEF SafeInv, TypeInv, IInv
<1>1. writes'[t] = writes[t]
  BY <1>0, StepFrame
<1>2. CASE UNCHANGED store
  BY <1>1, <1>2 DEF View
<1>3. CASE Ends(s) /\ pc[s] = "commit" /\ store' = View(s)
  <2>1. ASSUME NEW k \in MediaKey, k[2] = l PROVE k \notin DOMAIN writes[s]
    <3> SUFFICES ASSUME k \in DOMAIN writes[s] PROVE FALSE
      OBVIOUS
    <3>1. Modifies(req[s], l)
      BY <2>1 DEF OwnersInv, OwnRow
    <3>2. Begun(View(s), writes[s], req[s])
      BY <1>3, <3>1 DEF MediaInv, Changing, Modifying, Modifies, Active
    <3>3. Stays(writes[s], Medium(l, 0))
      BY <2>1, <3>1, <3>2 DEF Begun, Modifies
    <3> QED BY <1>0, <3>3 DEF Stays, LocksExclusive
  <2>2. ASSUME NEW k \in MediaKey, k[2] = l
        PROVE  /\ k \in DOMAIN View(t)' <=> k \in DOMAIN View(t)
               /\ k \in DOMAIN View(t) => View(t)'[k] = View(t)[k]
    <3>1. /\ k \in DOMAIN View(s) <=> k \in DOMAIN store
          /\ k \in DOMAIN View(s) => View(s)[k] = store[k]
      BY <1>0, <2>1, <2>2, ViewType
    <3>2. /\ k \in DOMAIN View(t)' <=> IF k \in DOMAIN writes'[t] THEN writes'[t][k] # NoRow ELSE k \in DOMAIN store'
          /\ k \in DOMAIN View(t)' => View(t)'[k] = IF k \in DOMAIN writes'[t] THEN writes'[t][k] ELSE store'[k]
      BY DEF View
    <3> QED BY <1>0, <1>1, <1>3, <3>1, <3>2, ViewType
  <2> QED BY <2>2 DEF MediaIn
<1> QED BY <1>0, <1>2, <1>3, Steps DEF StaysOutside, Fails, Chooses, PassesRow, WroteRow, LockedRow, Ends

(* A modification that has done with the media it wants to have no more    *)
(* holds the first of those it has brought.                                *)
LEMMA DroppedHolds ==
    ASSUME TypeInv, NEW t \in Sessions, Active(t), req[t].op = "modify-listing", Changing(t), Modifying(t),
           Ready(View(t), req[t]), NEW i, Finished(t, i), Build(req[t])[i].query = "drop_extra_media"
    PROVE  Stays(writes[t], Medium(req[t].listing, 0))
<1> DEFINE r == req[t]
           b == Build(r)
<1>0. r \in Request /\ r.op = "modify-listing" /\ r.media \in Nat
  BY ModificationKinds
<1>1. i \in 1..Len(b) /\ (i < step[t] \/ pc[t] = "commit") /\ Len(b) \in Nat /\ step[t] \in Nat
  BY <1>0, BuildElements DEF Finished, TypeInv, TypeOK
<1>2. r.media > 0 /\ \A j \in 0..(r.media - 1) : \E h \in 1..(i - 1) : b[h] = Named("change_media", j)
  BY <1>0, <1>1, MediaOrder
<1>3. 0 \in 0..(r.media - 1)
  BY <1>0, <1>2
<1>4. PICK h \in 1..(i - 1) : b[h] = Named("change_media", 0)
  BY <1>2, <1>3
<1>5. Finished(t, h)
  <2> HIDE DEF b
  <2>1. h \in 1..Len(b) /\ (h < step[t] \/ pc[t] = "commit")
    BY <1>1, <1>4
  <2> QED BY <2>1 DEF Finished, b
<1>6. Done(View(t), writes[t], t, r, b[h])
  BY <1>5 DEF Changing
<1> QED BY <1>4, <1>6 DEF Done, Named

(* What a modification has done is not undone by the steps of others. *)
LEMMA OthersChanging ==
    ASSUME SafeInv, SafeInv', AgreeInv, OwnersInv, OwnersInv', MediaInv,
           NEW s \in Sessions, Execute(s) \/ Handle(s) \/ QueryFails(s), NEW t \in Sessions, t # s
    PROVE  Changing(t)'
<1> SUFFICES ASSUME Modifying(t)' PROVE Changing(t)'
  BY DEF Changing
<1> DEFINE r == req[t]
           l == r.listing
           k == <<"listing", l>>
           w == writes[t]
<1>0. /\ pc'[t] = pc[t] /\ req'[t] = r /\ returned'[t] = returned[t] /\ writes'[t] = w
      /\ todo'[t] = todo[t] /\ step'[t] = step[t] /\ TypeInv /\ TypeOK /\ TypeOK'
  BY StepFrame DEF SafeInv, TypeInv
<1>1. Modifying(t) /\ Changing(t) /\ Active(t) /\ r.op = "modify-listing" /\ l \notin Sessions /\ pc'[t] # "done"
  BY <1>0 DEF Modifying, Active, MediaInv
<1>2. r \in Request /\ r.media \in Nat /\ l \in ListingID /\ k \in Kept
  BY <1>0, <1>1, ModificationKinds
<1>3. Later(View(t), View(t)') /\ IsDatabase(View(t))
  BY <1>0, <1>1, ViewStep, ViewType
<1>4. \A a : Owns(View(t), a, l) => Owns(View(t)', a, l)
  BY <1>3, LaterKeeps DEF Owns
<1>5. k \in DOMAIN w => /\ k \in DOMAIN View(t) <=> k \in DOMAIN View(t)'
                        /\ k \in DOMAIN View(t) => View(t)'[k] = View(t)[k]
  BY <1>0, ViewType DEF View
<1>6. k \in DOMAIN w /\ Ready(View(t), r) => Ready(View(t)', r)
  BY <1>5 DEF Ready, Owns, IsOpenListing
<1>7. Ready(View(t)', r) => Ready(View(t), r)
  BY <1>1, <1>2, OpenBefore DEF Ready
<1>8. Stays(w, Medium(l, 0)) => /\ MediaIn(View(t)', l) = MediaIn(View(t), l)
                                /\ \A m \in MediaIn(View(t), l) : View(t)'[m] = View(t)[m]
  BY <1>1, MediaUntouched
<1>9. Begun(View(t)', w, r)
  <2>1. Begun(View(t), w, r)
    BY <1>1 DEF Changing
  <2> HIDE DEF r, w
  <2> QED BY <1>4, <1>6, <2>1 DEF Begun, l, k
<1>10. ASSUME NEW i, Finished(t, i), Ready(View(t)', r) PROVE Done(View(t)', w, t, r, Build(r)[i])
  <2>1. Done(View(t), w, t, r, Build(r)[i])
    BY <1>1, <1>7, <1>10 DEF Changing
  <2>2. Build(r)[i].query = "drop_extra_media" => Stays(w, Medium(l, 0))
    BY <1>0, <1>1, <1>7, <1>10, DroppedHolds
  <2>3. Build(r)[i].query \in ColumnUpdates \cup {"change_location"} => k \in DOMAIN w /\ k \in DOMAIN View(t)
    BY <1>7, <1>10, <2>1 DEF Done, ColumnUpdates, ListingUpdates, Ready, Owns
  <2> HIDE DEF r, w
  <2> QED BY <1>5, <1>8, <2>1, <2>2, <2>3 DEF Done, l, k
<1>11. ASSUME pc[t] = "rows" PROVE Visiting(View(t)', w, r, Statement(t), todo[t])
  <2>1. Visiting(View(t), w, r, Statement(t), todo[t])
    BY <1>1, <1>11 DEF Changing
  <2>2. Statement(t).query = "drop_extra_media" => Stays(w, Medium(l, 0))
    <3> SUFFICES ASSUME Statement(t).query = "drop_extra_media" PROVE Stays(w, Medium(l, 0))
      OBVIOUS
    <3>1. r.media > 0 /\ \A j \in 0..(r.media - 1) : Stays(w, Medium(l, j))
      BY <2>1 DEF Visiting
    <3> HIDE DEF r, w
    <3> QED BY <1>2, <3>1
  <2> HIDE DEF r, w
  <2> QED BY <1>4, <1>8, <2>1, <2>2 DEF Visiting, l
<1>12. Answering(t, w, r, returned[t])
  BY <1>1 DEF Changing
<1>13. Statement(t)' = Statement(t)
  BY <1>0 DEF Statement
<1> HIDE DEF r, w
<1>14. (\A i : Finished(t, i) /\ Ready(View(t), req[t]) => Done(View(t), writes[t], t, req[t], Build(req[t])[i]))'
  BY <1>0, <1>10 DEF Finished, r
<1> QED BY <1>0, <1>9, <1>11, <1>12, <1>13, <1>14 DEF Changing
-----------------------------------------------------------------------------
(* A modification goes on: what it has done, and what its statement has.   *)
LEMMA GoesChanging ==
    ASSUME SafeInv, SafeInv', NEW s \in Sessions, Modifying(s), UNCHANGED req, pc[s] \in {"query", "rows"},
           NEW rest, NEW names, Goes(s, rest, names),
           Begun(View(s)', writes'[s], req[s]),
           \A i : Finished(s, i) /\ Ready(View(s)', req[s]) => Done(View(s)', writes'[s], s, req[s], Build(req[s])[i]),
           rest # {} => Visiting(View(s)', writes'[s], req[s], Statement(s), rest),
           rest = {} /\ Ready(View(s)', req[s]) => Done(View(s)', writes'[s], s, req[s], Statement(s)),
           Answering(s, writes'[s], req[s], returned[s] \cup names)
    PROVE  Changing(s)'
<1> DEFINE r == req[s]
           b == Build(r)
           n == step[s]
<1>0. /\ r \in Request /\ n \in 1..Len(b) /\ Len(b) \in Nat /\ Statement(s) = b[n] /\ req'[s] = r
      /\ returned'[s] = returned[s] \cup names /\ pc[s] # "commit"
  <2>1. r \in Request /\ n \in 1..Len(b)
    BY DEF SafeInv, TypeInv, Position
  <2> QED BY <2>1, BuildElements DEF Statement, Goes
<1> HIDE DEF r, b, n
<1>1. ASSUME NEW i \in 1..Len(b), i < step'[s] \/ pc'[s] = "commit", Ready(View(s)', r)
      PROVE  Done(View(s)', writes'[s], s, r, b[i])
  <2>1. CASE i < n
    <3>1. Finished(s, i)
      BY <2>1 DEF Finished, b, r, n
    <3> QED BY <1>1, <3>1 DEF r, b
  <2>2. CASE ~(i < n)
    <3>1. i = n /\ rest = {}
      <4>1. CASE rest # {} /\ pc'[s] = "rows" /\ step'[s] = step[s]
        BY <1>1, <2>2, <4>1 DEF n
      <4>2. CASE rest = {} /\ pc'[s] = "query" /\ step'[s] = step[s] + 1
        BY <1>0, <1>1, <2>2, <4>2 DEF n
      <4>3. CASE rest = {} /\ step[s] = Len(Build(req[s])) /\ pc'[s] = "commit"
        BY <1>0, <1>1, <2>2, <4>3 DEF n, b, r
      <4> QED BY <4>1, <4>2, <4>3 DEF Goes
    <3> QED BY <1>0, <1>1, <3>1 DEF r
  <2> QED BY <2>1, <2>2
<1>2. (\A i : Finished(s, i) /\ Ready(View(s), req[s]) => Done(View(s), writes[s], s, req[s], Build(req[s])[i]))'
  BY <1>0, <1>1 DEF Finished, b
<1>3. (pc[s] = "rows" => Visiting(View(s), writes[s], req[s], Statement(s), todo[s]))'
  <2> SUFFICES ASSUME pc'[s] = "rows" PROVE Visiting(View(s), writes[s], req[s], Statement(s), todo[s])'
    OBVIOUS
  <2>1. step'[s] = step[s] /\ todo'[s] = rest /\ rest # {}
    BY DEF Goes
  <2>2. Statement(s)' = Statement(s)
    BY <2>1 DEF Statement
  <2> QED BY <1>0, <2>1, <2>2 DEF r
<1> QED BY <1>0, <1>2, <1>3 DEF Changing, r

(* In a modification that finds its listing, the statement that has come   *)
(* to a medium has all those before it.                                    *)
LEMMA BeforeMedium ==
    ASSUME TypeInv, NEW s \in Sessions, pc[s] = "query", Modifying(s), Changing(s), Ready(View(s), req[s])
    PROVE  LET q == Statement(s) IN
           /\ q.query \in {"change_media", "drop_extra_media"} => Pinned(writes[s], req[s])
           /\ q.query = "change_media" =>
                \A j \in 0..(q.index - 1) : Stays(writes[s], Medium(req[s].listing, j))
           /\ q.query = "drop_extra_media" =>
                req[s].media > 0 /\ \A j \in 0..(req[s].media - 1) : Stays(writes[s], Medium(req[s].listing, j))
<1> DEFINE r == req[s]
           b == Build(r)
           n == step[s]
           q == b[n]
<1>0. /\ r \in Request /\ r.op = "modify-listing" /\ r.media \in Nat /\ Active(s)
      /\ n \in 1..Len(b) /\ Len(b) \in Nat /\ Statement(s) = q
  BY ModificationKinds, BuildElements DEF Modifying, TypeInv, Position, Statement
<1>1. ASSUME NEW h \in 1..Len(b), h < n PROVE Done(View(s), writes[s], s, r, b[h])
  <2>1. Finished(s, h)
    BY <1>1 DEF Finished
  <2> QED BY <2>1 DEF Changing
<1> HIDE DEF b, n
<1>2. /\ q.query = "change_media" =>
           \A j \in 0..(q.index - 1) : \E h \in 1..(n - 1) : b[h] = Named("change_media", j)
      /\ q.query = "drop_extra_media" =>
           r.media > 0 /\ \A j \in 0..(r.media - 1) : \E h \in 1..(n - 1) : b[h] = Named("change_media", j)
      /\ q.query \in {"change_media", "drop_extra_media"} =>
           \A h \in 1..Len(b) : b[h].query \in ListingUpdates => h < n
  BY <1>0, MediaOrder DEF b
<1>3. ASSUME NEW j, NEW h \in 1..(n - 1), b[h] = Named("change_media", j)
      PROVE  Stays(writes[s], Medium(r.listing, j))
  <2>1. h \in 1..Len(b) /\ h < n
    BY <1>0
  <2>2. Done(View(s), writes[s], s, r, b[h])
    BY <1>1, <2>1
  <2> QED BY <1>3, <2>2 DEF Done, Named
<1>4. ASSUME q.query \in {"change_media", "drop_extra_media"} PROVE Pinned(writes[s], r)
  <2> SUFFICES ASSUME r.columns # {} \/ r.location # Null PROVE <<"listing", r.listing>> \in DOMAIN writes[s]
    BY DEF Pinned
  <2>1. \E h \in 1..Len(b) : b[h].query \in ListingUpdates
    BY <1>0, ModifyHas DEF b, ColumnUpdates, ListingUpdates
  <2>2. PICK h \in 1..Len(b) : b[h].query \in ListingUpdates
    BY <2>1
  <2>3. Done(View(s), writes[s], s, r, b[h])
    BY <1>1, <1>2, <1>4, <2>2
  <2> QED BY <2>2, <2>3 DEF Done
<1> QED BY <1>0, <1>2, <1>3, <1>4 DEF r

(* A modification whose statement chooses its rows. *)
LEMMA ChoosesChanging ==
    ASSUME SafeInv, SafeInv', NEW s \in Sessions, Modifying(s), Changing(s), Chooses(s)
    PROVE  Changing(s)'
<1> DEFINE r == req[s]
           l == r.listing
           q == Statement(s)
           db == View(s)
           C == Chosen(db, s, r, q)
           chosen == {<<k, Lookup(db, k)>> : k \in C}
<1>0. /\ pc[s] = "query" /\ UNCHANGED <<req, writes>> /\ Goes(s, chosen, {})
      /\ View(s)' = db /\ TypeInv /\ IsDatabase(db) /\ Active(s) /\ r.op = "modify-listing"
  BY ViewType DEF Chooses, View, SafeInv, TypeInv, Modifying
<1>1. r \in Request /\ r.media \in Nat /\ q \in StatementOf(r) /\ q.query \in Statements
  BY <1>0, ModificationKinds, StatementType
<1>2. Ready(db, r) => /\ q.query \in {"change_media", "drop_extra_media"} => Pinned(writes[s], r)
                      /\ q.query = "change_media" => \A j \in 0..(q.index - 1) : Stays(writes[s], Medium(l, j))
                      /\ q.query = "drop_extra_media" =>
                           r.media > 0 /\ \A j \in 0..(r.media - 1) : Stays(writes[s], Medium(l, j))
  BY <1>0, BeforeMedium
<1>3. ASSUME NEW k \in C
      PROVE  /\ q.query \in ListingUpdates => Owns(db, r.actor, l)
             /\ q.query \in {"change_media", "drop_extra_media"} => Ready(db, r)
             /\ q.query = "drop_extra_media" => k \in MediaIn(db, l) /\ k[3] >= r.media
  <2>1. CASE q.query \in Inserts
    <3>1. SelectsSource(db, r, q)
      BY <1>3, <2>1 DEF Chosen
    <3> QED BY <2>1, <3>1 DEF SelectsSource, Ready, Inserts, Upserts, PlainInserts, ListingUpdates
  <2>2. CASE q.query \notin Inserts
    <3>1. k \in DOMAIN db /\ Selects(db, r, q, k)
      BY <1>3, <2>2 DEF Chosen
    <3>2. q.query # "change_media"
      BY <2>2 DEF Inserts, Upserts
    <3>3. CASE q.query \in ListingUpdates
      <4>1. k = <<"listing", l>> /\ db[k].contributor = r.actor
        BY <3>1, <3>3 DEF Selects, ListingUpdates, AccountUpdates
      <4> QED BY <3>1, <3>3, <4>1 DEF Owns, ListingUpdates
    <3>4. CASE q.query = "drop_extra_media"
      BY <3>1, <3>4 DEF Selects, ListingUpdates, AccountUpdates, Ready, MediaIn
    <3> QED BY <3>2, <3>3, <3>4
  <2> QED BY <2>1, <2>2
<1>4. ASSUME Ready(db, r)
      PROVE  /\ q.query \in ListingUpdates \cup {"change_media"} => C # {}
             /\ q.query = "drop_extra_media" => \A k \in MediaIn(db, l) : k[3] >= r.media => k \in C
  <2>1. q.query \in ListingUpdates => <<"listing", l>> \in C
    BY <1>4 DEF Chosen, Selects, Ready, Owns, IsOpenListing, ListingUpdates, AccountUpdates, Inserts, Upserts, PlainInserts
  <2>2. q.query = "change_media" => InsertedKey(s, r, q) \in C
    BY <1>4 DEF Chosen, SelectsSource, Ready, Inserts, Upserts
  <2>3. q.query = "drop_extra_media" => \A k \in MediaIn(db, l) : k[3] >= r.media => k \in C
    BY <1>4 DEF Chosen, Selects, Ready, ListingUpdates, AccountUpdates, Inserts, Upserts, PlainInserts, MediaIn
  <2> QED BY <2>1, <2>2, <2>3
<1>5. \A e \in chosen : e[1] \in C /\ (e[1] \in DOMAIN db => e[2] = db[e[1]])
  BY DEF Lookup
<1>6. \A k \in C : \E e \in chosen : e[1] = k
  <2> SUFFICES ASSUME NEW k \in C PROVE \E e \in chosen : e[1] = k
    OBVIOUS
  <2>1. <<k, Lookup(db, k)>> \in chosen
    OBVIOUS
  <2> QED BY <2>1
<1> HIDE DEF chosen, C
<1>7. ASSUME chosen # {} PROVE Visiting(db, writes[s], r, q, chosen)
  <2>1. C # {}
    BY <1>5, <1>7
  <2>2. \A e \in chosen : q.query = "drop_extra_media" =>
          e[1] \in MediaIn(db, l) /\ e[1][3] >= r.media /\ db[e[1]] = e[2]
    BY <1>3, <1>5 DEF MediaIn
  <2>3. q.query \in {"change_media", "drop_extra_media"} => Ready(db, r)
    BY <1>3, <2>1
  <2>4. q.query \in ListingUpdates \cup {"change_media", "drop_extra_media"} => Owns(db, r.actor, l)
    BY <1>3, <2>1 DEF Ready
  <2>5. q.query = "drop_extra_media" => \A k \in MediaIn(db, l) : k[3] >= r.media => \E e \in chosen : e[1] = k
    BY <1>4, <1>6, <2>3
  <2> HIDE DEF db, r, q
  <2> QED BY <1>2, <2>2, <2>3, <2>4, <2>5 DEF Visiting, l
<1>8. ASSUME chosen = {}, Ready(db, r) PROVE Done(db, writes[s], s, r, q)
  <2>1. C = {}
    BY <1>6, <1>8
  <2>2. q.query \notin ListingUpdates \cup ColumnUpdates \cup {"change_media", "change_location"}
    BY <1>4, <1>8, <2>1 DEF ListingUpdates, ColumnUpdates
  <2>3. q.query = "drop_extra_media" => \A k \in MediaIn(db, l) : k[3] < r.media
    <3> SUFFICES ASSUME q.query = "drop_extra_media", NEW k \in MediaIn(db, l) PROVE k[3] < r.media
      OBVIOUS
    <3>1. k[3] \in Nat
      BY SchemaAssumption DEF MediaIn, MediaKey, MediaIndex
    <3>2. ~(k[3] >= r.media)
      BY <1>4, <1>8, <2>1
    <3> HIDE DEF r
    <3> QED BY <1>1, <3>1, <3>2
  <2> HIDE DEF db, r, q
  <2> QED BY <2>2, <2>3 DEF Done, l
<1>9. /\ Begun(db, writes[s], r) /\ Answering(s, writes[s], r, returned[s] \cup {})
      /\ \A i : Finished(s, i) /\ Ready(db, r) => Done(db, writes[s], s, r, Build(r)[i])
  BY DEF Changing
<1> HIDE DEF r, q, db
<1>10. /\ writes'[s] = writes[s] /\ pc[s] \in {"query", "rows"}
  BY <1>0
<1> QED BY <1>0, <1>7, <1>8, <1>9, <1>10, GoesChanging DEF db, r, q

(* A modification passes over the row of a listing that is not there for   *)
(* it, or closed, and over no other.                                       *)
LEMMA PassesChanging ==
    ASSUME SafeInv, SafeInv', NEW s \in Sessions, Modifying(s), Changing(s), PassesRow(s)
    PROVE  Changing(s)'
<1> DEFINE r == req[s]
           l == r.listing
           q == Statement(s)
           db == View(s)
           rest == todo[s] \ {cur[s]}
           k == cur[s][1]
<1>0. /\ pc[s] = "rows" /\ UNCHANGED <<req, writes>> /\ Goes(s, rest, {}) /\ Skips(s)
      /\ View(s)' = db /\ TypeInv /\ IsDatabase(db) /\ Active(s) /\ r.op = "modify-listing"
  BY ViewType DEF PassesRow, View, SafeInv, TypeInv, Modifying
<1>1. r \in Request /\ r.media \in Nat /\ q \in StatementOf(r) /\ q.query \in Statements
  BY <1>0, ModificationKinds, StatementType
<1>2. Visiting(db, writes[s], r, q, todo[s])
  BY <1>0 DEF Changing
<1>3. cur[s] \in todo[s] /\ k \in Aims(s, r, q) /\ k \in Key
  BY <1>0 DEF TypeInv, Position, Visits
<1>4. q.query \notin Inserts
  <2>1. q.query # "create_account"
    BY <1>0, <1>1 DEF StatementOf, Names
  <2> QED BY <1>0, <2>1 DEF Skips
<1>5. Gone(s) \/ ~StillSelects(q, db[k])
  BY <1>0, <1>4 DEF Skips
<1>6. q.query # "drop_extra_media"
  <2> SUFFICES ASSUME q.query = "drop_extra_media" PROVE FALSE
    OBVIOUS
  <2>1. k \in MediaIn(db, l) /\ db[k] = cur[s][2]
    BY <1>2, <1>3 DEF Visiting
  <2>2. Lookup(db, k) = cur[s][2] /\ k \in DOMAIN db
    BY <2>1 DEF Lookup, MediaIn
  <2>3. ~Gone(s)
    BY <1>0, <2>2, LookupType DEF Gone
  <2> QED BY <1>5, <2>3 DEF StillSelects, AccountUpdates, ListingUpdates
<1>7. q.query \in ListingUpdates
  BY <1>0, <1>1, <1>4, <1>6 DEF StatementOf, Names, Inserts, Upserts, PlainInserts, ListingUpdates
<1>8. ~Ready(db, r)
  <2> SUFFICES ASSUME Ready(db, r) PROVE FALSE
    OBVIOUS
  <2>1. k = <<"listing", l>>
    BY <1>3, <1>4, <1>7 DEF Aims
  <2>2. k \in DOMAIN db /\ db[k].open
    BY <2>1 DEF Ready, IsOpenListing
  <2>3. k \notin SavedListingKey \cup MediaKey
    BY <1>3, <2>1, KeyKinds
  <2>4. ~Gone(s)
    BY <1>0, <2>2, <2>3, LookupType DEF Gone
  <2> QED BY <1>5, <2>2, <2>4 DEF StillSelects
<1>9. Visiting(db, writes[s], r, q, rest)
  <2> HIDE DEF r, q, db, rest
  <2> QED BY <1>2, <1>7 DEF Visiting, ListingUpdates
<1>10. /\ Begun(db, writes[s], r) /\ Answering(s, writes[s], r, returned[s] \cup {})
       /\ \A i : Finished(s, i) /\ Ready(db, r) => Done(db, writes[s], s, r, Build(r)[i])
  BY DEF Changing
<1> HIDE DEF r, q, db, rest
<1>11. /\ writes'[s] = writes[s] /\ pc[s] \in {"query", "rows"}
  BY <1>0
<1> QED BY <1>0, <1>8, <1>9, <1>10, <1>11, GoesChanging DEF db, r, q
-----------------------------------------------------------------------------
(* What a modification writes, row by row: of a medium, and of a listing.  *)
MediumWritten(s, k, row) ==
    LET q == Statement(s)
        r == req[s]
    IN IF row = NoRow THEN q.query = "drop_extra_media" /\ k \in MediaIn(View(s), r.listing) /\ k[3] >= r.media
       ELSE q.query = "change_media" /\ k = Medium(r.listing, q.index) /\ q.index \in 0..(r.media - 1)

ListingWritten(s, k, row) ==
    LET q == Statement(s)
        r == req[s]
    IN /\ q.query \in ListingUpdates /\ k = <<"listing", r.listing>> /\ row # NoRow
       /\ row.open /\ row.contributor = r.actor
       /\ \A c \in ListingColumns : View(s)[k].columns[c] = s => row.columns[c] = s
       /\ View(s)[k].address = AddressOf(s, r) => row.address = AddressOf(s, r)
       /\ q.query \in ColumnUpdates => row.columns[ColumnOf(q)] = s
       /\ q.query = "change_location" => row.address = AddressOf(s, r)

(* Every row that a modification writes is one of these, or a new address. *)
LEMMA ModificationWrites ==
    ASSUME SafeInv, NEW s \in Sessions, Modifying(s), Changing(s), WroteRow(s)
    PROVE  LET k == cur[s][1]
               q == Statement(s)
           IN \E row : /\ Puts(s, k, row)
                       /\ \/ k \in MediaKey /\ MediumWritten(s, k, row)
                          \/ k \in ListingKey /\ ListingWritten(s, k, row)
                          \/ /\ k \in AddressKey /\ row # NoRow
                             /\ q.query = "create_address" /\ k = <<"address", s>>
<1> DEFINE k == cur[s][1]
           old == View(s)[k]
           q == Statement(s)
           r == req[s]
           l == r.listing
           row == Written(View(s), s, r, q, k)
<1>0. /\ TypeInv /\ pc[s] = "rows" /\ ~Skips(s) /\ Active(s) /\ r.op = "modify-listing" /\ Puts(s, k, row)
  BY DEF SafeInv, WroteRow, Writes, Modifying
<1>1. /\ r \in Request /\ q \in StatementOf(r) /\ k \in Key /\ k \in Aims(s, r, q)
      /\ q.query \in Inserts => k = InsertedKey(s, r, q)
      /\ q.query \notin Inserts => k \in DOMAIN View(s) /\ old \in RowOf(k) /\ StillSelects(q, old)
      /\ r.media \in Nat /\ IsDatabase(View(s)) /\ cur[s] \in todo[s]
  BY <1>0, RowAt, ModificationKinds DEF TypeInv, Position
<1>2. q.query \in Names("modify-listing")
  BY <1>0, <1>1 DEF StatementOf
<1>3. Visiting(View(s), writes[s], r, q, todo[s])
  BY <1>0 DEF Changing
<1>4. CASE q.query = "create_address"
  <2>1. k \in AddressKey /\ k = <<"address", s>> /\ q.query \in Inserts
    BY <1>1, <1>4, InsertedKeys DEF Inserts, PlainInserts
  <2>2. row = Inserted(View(s), s, r, q, k) /\ row \in RowOf(k)
    BY <1>1, <2>1, InsertedType DEF Written
  <2>3. row # NoRow
    BY <1>1, <2>2, RowsAreRows, MarketplaceAssumption
  <2> HIDE DEF row, k, q
  <2> QED BY <1>0, <1>4, <2>1, <2>3 DEF k, q
<1>5. CASE q.query = "change_media"
  <2>1. k = Medium(l, q.index) /\ k \in MediaKey /\ q.query \in Inserts
    BY <1>1, <1>5, InsertedKeys DEF Inserts, Upserts, InsertedKey, Medium
  <2>2. row = Inserted(View(s), s, r, q, k) /\ row \in RowOf(k)
    BY <1>1, <2>1, InsertedType DEF Written
  <2>3. row # NoRow
    BY <1>1, <2>2, RowsAreRows, MarketplaceAssumption
  <2>4. q.index \in 0..(r.media - 1)
    <3>1. step[s] \in 1..Len(Build(r)) /\ q = Build(r)[step[s]]
      BY <1>0 DEF TypeInv, Position, Statement
    <3> HIDE DEF q
    <3> QED BY <1>0, <1>1, <1>5, <3>1, MediaOrder
  <2>5. MediumWritten(s, k, row)
    <3> HIDE DEF row, k
    <3> QED BY <1>5, <2>1, <2>3, <2>4 DEF MediumWritten
  <2> HIDE DEF row
  <2> QED BY <1>0, <2>1, <2>5
<1>6. CASE q.query = "drop_extra_media"
  <2>1. q.query \notin Inserts
    BY <1>6 DEF Inserts, Upserts, PlainInserts
  <2>2. row = NoRow
    BY <1>6, <2>1 DEF Written, Updated
  <2>3. k \in MediaIn(View(s), l) /\ k[3] >= r.media
    BY <1>1, <1>3, <1>6 DEF Visiting
  <2>4. MediumWritten(s, k, row) /\ k \in MediaKey
    <3> HIDE DEF row, k
    <3> QED BY <1>6, <2>2, <2>3 DEF MediumWritten, MediaIn
  <2> HIDE DEF row
  <2> QED BY <1>0, <2>4
<1>7. CASE q.query \in ListingUpdates
  <2>0. q.query \in {"change_title", "change_description", "change_location", "change_category", "change_condition"}
    BY <1>2, <1>7 DEF Names, ListingUpdates
  <2>1. q.query \notin Inserts
    BY <2>0 DEF Inserts, Upserts, PlainInserts
  <2>2. k = <<"listing", l>> /\ k \in ListingKey
    BY <1>1, <1>7, <2>1, KeyKinds DEF Aims
  <2>3. row = Updated(old, s, r, q) /\ old \in ListingRow /\ old.open /\ old.contributor = r.actor
    <3>1. old \in ListingRow /\ old.open
      BY <1>1, <1>7, <2>1, <2>2, RowKinds DEF StillSelects
    <3>2. Owns(View(s), r.actor, l)
      BY <1>3, <1>7 DEF Visiting
    <3> QED BY <2>1, <2>2, <3>1, <3>2 DEF Written, Owns
  <2>4. row \in ListingRow /\ row # NoRow
    BY <1>1, <1>7, <2>0, <2>1, <2>2, <2>3, UpdatedType, RowKinds, RowsAreRows, MarketplaceAssumption
  <2>5. CASE q.query = "change_location"
    <3>1. row = [old EXCEPT !.address = AddressOf(s, r)]
      BY <2>3, <2>5 DEF Updated
    <3>2. row.open /\ row.contributor = r.actor /\ row.columns = old.columns /\ row.address = AddressOf(s, r)
      BY <2>3, <3>1 DEF ListingRow
    <3> HIDE DEF row, k, old
    <3>3. ListingWritten(s, k, row)
      BY <1>7, <2>2, <2>4, <2>5, <3>2 DEF ListingWritten, ColumnUpdates, old
    <3> QED BY <1>0, <2>2, <3>3 DEF k
  <2>6. CASE q.query # "change_location"
    <3>1. row = [old EXCEPT !.columns[ColumnOf(q)] = s]
      BY <2>0, <2>3, <2>6 DEF Updated
    <3>2. ColumnOf(q) \in ListingColumns
      BY <2>0, <2>6 DEF ColumnOf, ListingColumns
    <3>3. /\ row.open /\ row.contributor = r.actor /\ row.columns = [old.columns EXCEPT ![ColumnOf(q)] = s]
          /\ row.address = old.address /\ DOMAIN old.columns = ListingColumns
      BY <2>3, <3>1 DEF ListingRow
    <3>4. row.columns[ColumnOf(q)] = s /\ \A c \in ListingColumns : old.columns[c] = s => row.columns[c] = s
      BY <3>2, <3>3
    <3> HIDE DEF row, k, old
    <3>5. ListingWritten(s, k, row)
      BY <1>7, <2>2, <2>4, <2>6, <3>3, <3>4 DEF ListingWritten, old
    <3> QED BY <1>0, <2>2, <3>5 DEF k
  <2> QED BY <2>5, <2>6
<1> QED BY <1>2, <1>4, <1>5, <1>6, <1>7 DEF Names, ListingUpdates

(* What a row more in the transaction of a modification does to what it    *)
(* holds: a medium more, after those that it had, or one of the others     *)
(* less.                                                                   *)
LEMMA WriteChanging ==
    ASSUME SafeInv, SafeInv', AgreeInv, OwnersInv, OwnersInv',
           NEW s \in Sessions, Execute(s) \/ Handle(s) \/ QueryFails(s), Modifying(s), Changing(s), WroteRow(s)
    PROVE  Changing(s)'
<1> DEFINE k == cur[s][1]
           q == Statement(s)
           r == req[s]
           l == r.listing
           key == <<"listing", l>>
           w == writes[s]
           v == writes'[s]
           db == View(s)
           new == View(s)'
           rest == todo[s] \ {cur[s]}
           names == {q.query} \ Unreturning
<1>0. /\ pc[s] = "rows" /\ UNCHANGED <<req, store>> /\ Goes(s, rest, names) /\ pc'[s] # "done"
      /\ TypeInv /\ TypeInv' /\ IsDatabase(db) /\ Active(s) /\ r.op = "modify-listing" /\ l \notin Sessions
  BY ViewType DEF WroteRow, Goes, SafeInv, TypeInv, Modifying
<1>1. /\ r \in Request /\ r.media \in Nat /\ l \in ListingID /\ key \in ListingKey
      /\ 0..(r.media - 1) \subseteq MediaIndex /\ q \in StatementOf(r)
      /\ \A i \in MediaIndex : Medium(l, i) \in MediaKey
  BY <1>0, ModificationKinds, StatementType
<1>2. Visiting(db, w, r, q, todo[s])
  BY <1>0 DEF Changing
<1>3. cur[s] \in todo[s] /\ k \in Key
  BY <1>0 DEF TypeInv, Position, Visits
<1>4. PICK row : /\ Puts(s, k, row)
                 /\ \/ k \in MediaKey /\ MediumWritten(s, k, row)
                    \/ k \in ListingKey /\ ListingWritten(s, k, row)
                    \/ k \in AddressKey /\ row # NoRow /\ q.query = "create_address" /\ k = <<"address", s>>
  BY ModificationWrites
<1>5. /\ DOMAIN v = DOMAIN w \cup {k} /\ v[k] = row
      /\ \A j \in DOMAIN w : j # k => v[j] = w[j]
  BY <1>0, <1>4, PutsOne
<1>6. /\ \A j \in DOMAIN new : IF j = k THEN new[j] = row ELSE j \in DOMAIN db /\ new[j] = db[j]
      /\ \A j \in DOMAIN db : j # k => j \in DOMAIN new /\ new[j] = db[j]
      /\ row # NoRow => k \in DOMAIN new /\ new[k] = row
  BY <1>0, <1>4, WrittenView
<1>7. row = NoRow => k \notin DOMAIN new
  BY <1>5 DEF View
<1>8. Later(db, new) /\ \A a : Owns(db, a, l) => Owns(new, a, l)
  <2>1. Later(db, new)
    BY <1>0, ViewStep
  <2> QED BY <1>0, <2>1, LaterKeeps DEF Owns
<1>9. Ready(new, r) => Ready(db, r)
  BY <1>0, <1>1, OpenBefore DEF Ready
<1>10. /\ k \in MediaKey => MediumWritten(s, k, row)
       /\ k \in ListingKey => ListingWritten(s, k, row)
       /\ k \notin MediaKey \cup ListingKey => q.query = "create_address" /\ k = <<"address", s>>
       /\ row = NoRow => k \in MediaKey
  BY <1>3, <1>4, KeyKinds DEF ListingWritten
<1>11. /\ Begun(db, w, r)
       /\ \A i : Finished(s, i) /\ Ready(db, r) => Done(db, w, s, r, Build(r)[i])
  BY DEF Changing
<1>12. ASSUME NEW i \in 0..(r.media - 1), Stays(w, Medium(l, i)) PROVE Stays(v, Medium(l, i))
  <2>1. k = Medium(l, i) => row # NoRow
    <3> SUFFICES ASSUME k = Medium(l, i), row = NoRow PROVE FALSE
      OBVIOUS
    <3>1. k[3] = i /\ k[3] >= r.media
      BY <1>10 DEF MediumWritten, Medium
    <3> HIDE DEF r, k
    <3> QED BY <1>1, <1>12, <3>1
  <2> HIDE DEF k, w, v
  <2> QED BY <1>5, <1>12, <2>1 DEF Stays
<1>13. k = Medium(l, q.index) /\ row # NoRow => Stays(v, Medium(l, q.index))
  BY <1>5 DEF Stays
<1> HIDE DEF k, q, r, w, v, db, new, rest, names
<1>14. Pinned(w, r) => Pinned(v, r)
  BY <1>5 DEF Pinned
(* The statement knows as much of the rows that are left. *)
<1>15. Visiting(new, v, r, q, rest)
  <2>1. q.query \in ListingUpdates \cup {"change_media", "drop_extra_media"} => Owns(new, r.actor, l)
    BY <1>2, <1>8 DEF Visiting, l
  <2>2. q.query = "change_media" => Pinned(v, r) /\ \A j \in 0..(q.index - 1) : Stays(v, Medium(l, j))
    <3> SUFFICES ASSUME q.query = "change_media" PROVE Pinned(v, r) /\ \A j \in 0..(q.index - 1) : Stays(v, Medium(l, j))
      OBVIOUS
    <3>1. Pinned(w, r) /\ \A j \in 0..(q.index - 1) : Stays(w, Medium(l, j))
      BY <1>2 DEF Visiting, l
    <3>2. k \in MediaKey /\ q.index \in 0..(r.media - 1)
      BY <1>10, KeyKinds, <1>3 DEF ListingWritten, ListingUpdates, MediumWritten, q, r
    <3>3. \A j \in 0..(q.index - 1) : j \in 0..(r.media - 1)
      BY <1>1, <3>2
    <3> QED BY <1>12, <1>14, <3>1, <3>3
  <2>3. ASSUME q.query = "drop_extra_media"
        PROVE  /\ r.media > 0 /\ Pinned(v, r) /\ \A j \in 0..(r.media - 1) : Stays(v, Medium(l, j))
               /\ \A e \in rest : e[1] \in MediaIn(new, l) /\ e[1][3] >= r.media /\ new[e[1]] = e[2]
               /\ \A m \in MediaIn(new, l) : m[3] >= r.media => \E e \in rest : e[1] = m
    <3>1. /\ r.media > 0 /\ Pinned(w, r) /\ \A j \in 0..(r.media - 1) : Stays(w, Medium(l, j))
          /\ \A e \in todo[s] : e[1] \in MediaIn(db, l) /\ e[1][3] >= r.media /\ db[e[1]] = e[2]
          /\ \A m \in MediaIn(db, l) : m[3] >= r.media => \E e \in todo[s] : e[1] = m
      BY <1>2, <2>3 DEF Visiting, l
    <3>2. row = NoRow
      BY <1>3, <1>10, <2>3, KeyKinds DEF MediumWritten, ListingWritten, ListingUpdates, q
    <3>3. /\ \A m \in MediaIn(db, l) : m # k => m \in MediaIn(new, l) /\ new[m] = db[m]
          /\ \A m \in MediaIn(new, l) : m # k /\ m \in MediaIn(db, l)
      BY <1>6, <1>7, <3>2 DEF MediaIn
    <3>4. ASSUME NEW e \in rest PROVE e[1] \in MediaIn(new, l) /\ e[1][3] >= r.media /\ new[e[1]] = e[2]
      <4>1. e \in todo[s] /\ e # cur[s]
        BY <3>4 DEF rest
      <4>2. e \in Key \X (Row \cup {NoRow}) /\ cur[s] \in Key \X (Row \cup {NoRow})
        BY <1>0, <1>3, <4>1 DEF TypeInv, Position, Visits
      <4>3. e[1] # k
        BY <1>3, <3>1, <4>1, <4>2 DEF k
      <4> QED BY <3>1, <3>3, <4>1, <4>3
    <3>5. ASSUME NEW m \in MediaIn(new, l), m[3] >= r.media PROVE \E e \in rest : e[1] = m
      BY <3>1, <3>3, <3>5 DEF rest, k
    <3> QED BY <1>12, <1>14, <3>1, <3>4, <3>5
  <2> QED BY <2>1, <2>2, <2>3 DEF Visiting, l
(* What it has done before stays done. *)
<1>16. ASSUME NEW i, Finished(s, i), Ready(new, r) PROVE Done(new, v, s, r, Build(r)[i])
  <2> DEFINE p == Build(r)[i]
  <2>1. Done(db, w, s, r, p)
    BY <1>9, <1>11, <1>16
  <2>2. i \in 1..Len(Build(r))
    BY <1>16 DEF Finished, r
  <2>3. p.query = "change_media" => p.index \in 0..(r.media - 1)
    BY <1>0, <1>1, <2>2, MediaOrder DEF r
  <2>4. p.query \in ColumnUpdates => ColumnOf(p) \in ListingColumns
    BY DEF ColumnUpdates, ColumnOf, ListingColumns
  <2> HIDE DEF p
  <2>5. p.query = "change_media" => Stays(v, Medium(l, p.index))
    BY <1>12, <2>1, <2>3 DEF Done, l
  <2>6. p.query = "drop_extra_media" => \A m \in MediaIn(new, l) : m[3] < r.media
    <3> SUFFICES ASSUME p.query = "drop_extra_media", NEW m \in MediaIn(new, l) PROVE m[3] < r.media
      OBVIOUS
    <3>1. \A j \in MediaIn(db, l) : j[3] < r.media
      BY <2>1 DEF Done, l
    <3>2. CASE m = k
      <4>1. k \in MediaKey /\ row # NoRow
        BY <1>7, <3>2 DEF MediaIn
      <4>2. k = Medium(l, q.index) /\ q.index \in 0..(r.media - 1)
        BY <1>10, <4>1 DEF MediumWritten, q, r, l
      <4> QED BY <1>1, <3>2, <4>2 DEF Medium
    <3>3. CASE m # k
      BY <1>6, <3>1, <3>3 DEF MediaIn
    <3> QED BY <3>2, <3>3
  <2>7. p.query \in ListingUpdates => key \in DOMAIN v
    BY <1>5, <2>1 DEF Done, l
  <2>8. p.query \in ColumnUpdates => new[key].columns[ColumnOf(p)] = s
    <3> SUFFICES ASSUME p.query \in ColumnUpdates PROVE new[key].columns[ColumnOf(p)] = s
      OBVIOUS
    <3>1. db[key].columns[ColumnOf(p)] = s /\ key \in DOMAIN db
      BY <1>9, <1>16, <2>1 DEF Done, Ready, Owns, l
    <3>2. CASE k = key
      BY <1>1, <1>6, <1>10, <2>4, <3>1, <3>2 DEF ListingWritten, db
    <3>3. CASE k # key
      BY <1>6, <3>1, <3>3
    <3> QED BY <3>2, <3>3
  <2>9. p.query = "change_location" => new[key].address = AddressOf(s, r)
    <3> SUFFICES ASSUME p.query = "change_location" PROVE new[key].address = AddressOf(s, r)
      OBVIOUS
    <3>1. db[key].address = AddressOf(s, r) /\ key \in DOMAIN db
      BY <1>9, <1>16, <2>1 DEF Done, Ready, Owns, l
    <3>2. CASE k = key
      BY <1>1, <1>6, <1>10, <3>1, <3>2 DEF ListingWritten, db, r
    <3>3. CASE k # key
      BY <1>6, <3>1, <3>3
    <3> QED BY <3>2, <3>3
  <2> QED BY <2>5, <2>6, <2>7, <2>8, <2>9 DEF Done, l, p
(* The statement that has no row left has done its part. *)
<1>17. ASSUME rest = {}, Ready(new, r) PROVE Done(new, v, s, r, q)
  <2>1. q.query = "change_media" => Stays(v, Medium(l, q.index))
    BY <1>3, <1>10, <1>13, KeyKinds DEF MediumWritten, ListingWritten, ListingUpdates, q, r, l
  <2>2. q.query = "drop_extra_media" => \A m \in MediaIn(new, l) : m[3] < r.media
    <3> SUFFICES ASSUME q.query = "drop_extra_media", NEW m \in MediaIn(new, l) PROVE m[3] < r.media
      OBVIOUS
    <3>1. ~(m[3] >= r.media)
      BY <1>15, <1>17 DEF Visiting, l
    <3>2. m[3] \in Nat
      BY SchemaAssumption DEF MediaIn, MediaKey, MediaIndex
    <3> QED BY <1>1, <3>1, <3>2
  <2>3. q.query \in ListingUpdates => key \in DOMAIN v
    <3> SUFFICES ASSUME q.query \in ListingUpdates PROVE key \in DOMAIN v
      OBVIOUS
    <3>1. k = key
      BY <1>3, <1>10, KeyKinds DEF MediumWritten, ListingWritten, ListingUpdates, q, r
    <3> QED BY <1>5, <3>1
  <2>4. q.query \in ColumnUpdates => new[key].columns[ColumnOf(q)] = s
    <3> SUFFICES ASSUME q.query \in ColumnUpdates PROVE new[key].columns[ColumnOf(q)] = s
      OBVIOUS
    <3>1. k = key /\ row # NoRow /\ row.columns[ColumnOf(q)] = s
      BY <1>3, <1>10, KeyKinds DEF MediumWritten, ListingWritten, ColumnUpdates, q, r
    <3> QED BY <1>6, <3>1
  <2>5. q.query = "change_location" => new[key].address = AddressOf(s, r)
    <3> SUFFICES ASSUME q.query = "change_location" PROVE new[key].address = AddressOf(s, r)
      OBVIOUS
    <3>1. k = key /\ row # NoRow /\ row.address = AddressOf(s, r)
      BY <1>3, <1>10, KeyKinds DEF MediumWritten, ListingWritten, q, r
    <3> QED BY <1>6, <3>1
  <2> QED BY <2>1, <2>2, <2>3, <2>4, <2>5 DEF Done, l
(* It holds the first medium if it holds any, and the media from the first *)
(* one on.                                                                 *)
<1>18. Begun(new, v, r)
  <2>1. ASSUME NEW m \in DOMAIN v \cap MediaKey, m[2] = l
        PROVE  Owns(new, r.actor, l) /\ Pinned(v, r) /\ Stays(v, Medium(l, 0))
    <3>1. CASE m # k
      <4>1. m \in DOMAIN w \cap MediaKey
        BY <1>5, <2>1, <3>1
      <4>2. Owns(db, r.actor, l) /\ Pinned(w, r) /\ Stays(w, Medium(l, 0))
        BY <1>11, <2>1, <4>1 DEF Begun, l
      <4>3. Stays(v, Medium(l, 0))
        <5>1. k = Medium(l, 0) => row # NoRow
          <6> SUFFICES ASSUME k = Medium(l, 0), row = NoRow PROVE FALSE
            OBVIOUS
          <6>1. q.query = "drop_extra_media" /\ k[3] >= r.media /\ k[3] = 0
            BY <1>10 DEF MediumWritten, Medium, q, r
          <6>2. r.media > 0
            BY <1>2, <6>1 DEF Visiting
          <6> QED BY <1>1, <6>1, <6>2
        <5> QED BY <1>5, <4>2, <5>1 DEF Stays
      <4> QED BY <1>8, <1>14, <4>2, <4>3
    <3>2. CASE m = k
      <4>1. k \in MediaKey /\ q.query \in {"change_media", "drop_extra_media"}
        BY <1>10, <2>1, <3>2 DEF MediumWritten, q
      <4>2. Owns(db, r.actor, l) /\ Pinned(w, r)
        BY <1>2, <4>1 DEF Visiting, l
      <4>3. CASE q.query = "change_media"
        <5>1. k = Medium(l, q.index) /\ q.index \in 0..(r.media - 1) /\ row # NoRow
          BY <1>10, <4>1, <4>3 DEF MediumWritten, q, r, l
        <5>2. \A j \in 0..(q.index - 1) : Stays(w, Medium(l, j))
          BY <1>2, <4>3 DEF Visiting, l
        <5>3. q.index = 0 => Stays(v, Medium(l, 0))
          BY <1>13, <5>1
        <5>4. q.index # 0 => 0 \in 0..(q.index - 1) /\ 0 \in 0..(r.media - 1)
          BY <1>1, <5>1
        <5>5. q.index # 0 => Stays(v, Medium(l, 0))
          BY <1>12, <5>2, <5>4
        <5> QED BY <1>8, <1>14, <4>2, <5>3, <5>5
      <4>4. CASE q.query = "drop_extra_media"
        <5>1. r.media > 0 /\ \A j \in 0..(r.media - 1) : Stays(w, Medium(l, j))
          BY <1>2, <4>4 DEF Visiting, l
        <5>2. 0 \in 0..(r.media - 1)
          BY <1>1, <5>1
        <5> QED BY <1>8, <1>12, <1>14, <4>2, <5>1, <5>2
      <4> QED BY <4>1, <4>3, <4>4
    <3> QED BY <3>1, <3>2
  <2>2. \E n \in 0..r.media : Stored(v, l) = 0..(n - 1)
    <3>1. PICK n \in 0..r.media : Stored(w, l) = 0..(n - 1)
      BY <1>11 DEF Begun, l
    <3>2. \A i : k # Medium(l, i) => (Stays(v, Medium(l, i)) <=> Stays(w, Medium(l, i)))
      BY <1>5 DEF Stays
    <3>3. CASE k \notin MediaKey
      <4>1. Stored(v, l) = Stored(w, l)
        BY <1>1, <3>2, <3>3 DEF Stored
      <4> QED BY <3>1, <4>1
    <3>4. CASE k \in MediaKey /\ row = NoRow
      <4>1. k[3] >= r.media
        BY <1>10, <3>4 DEF MediumWritten, r
      <4>2. \A i \in MediaIndex : k = Medium(l, i) => ~Stays(v, Medium(l, i)) /\ i >= r.media
        BY <1>5, <3>4, <4>1 DEF Stays, Medium
      <4>3. \A i \in 0..(n - 1) : ~(i >= r.media)
        BY <1>1
      <4>4. Stored(v, l) = Stored(w, l)
        BY <3>1, <3>2, <4>2, <4>3 DEF Stored
      <4> QED BY <3>1, <4>4
    <3>5. CASE k \in MediaKey /\ row # NoRow
      <4>1. q.query = "change_media" /\ k = Medium(l, q.index) /\ q.index \in 0..(r.media - 1)
        BY <1>10, <3>5 DEF MediumWritten, q, r, l
      <4>2. \A j \in 0..(q.index - 1) : Stays(w, Medium(l, j))
        BY <1>2, <4>1 DEF Visiting, l
      <4>3. \A j \in 0..(q.index - 1) : j \in Stored(w, l)
        BY <1>1, <4>1, <4>2 DEF Stored
      <4>4. \A i : k = Medium(l, i) <=> i = q.index
        BY <4>1 DEF Medium
      <4>5. Stored(v, l) = Stored(w, l) \cup {q.index}
        BY <1>1, <1>13, <3>2, <3>5, <4>1, <4>4 DEF Stored
      <4> DEFINE x == q.index
                 m == IF n < x + 1 THEN x + 1 ELSE n
      <4>6. x \in 0..(r.media - 1) /\ r.media \in Nat /\ \A j \in 0..(x - 1) : j \in 0..(n - 1)
        BY <1>1, <3>1, <4>1, <4>3
      <4>7. m \in 0..r.media /\ 0..(n - 1) \cup {x} = 0..(m - 1)
        <5> HIDE DEF x
        <5>1. x <= n
          <6>1. CASE x = 0
            BY <6>1
          <6>2. CASE x # 0
            <7>1. x - 1 \in 0..(n - 1)
              BY <4>6, <6>2
            <7> QED BY <4>6, <7>1
          <6> QED BY <6>1, <6>2
        <5>2. CASE n = x
          <6>1. m = x + 1
            BY <4>6, <5>2
          <6> HIDE DEF m
          <6> QED BY <4>6, <5>2, <6>1
        <5>3. CASE n # x
          <6>1. m = n /\ x < n
            BY <4>6, <5>1, <5>3
          <6> HIDE DEF m
          <6> QED BY <4>6, <6>1
        <5> QED BY <5>2, <5>3
      <4> QED BY <3>1, <4>5, <4>7
    <3> QED BY <3>3, <3>4, <3>5
  <2>3. key \in DOMAIN v => Ready(new, r)
    <3>1. CASE k = key
      <4>1. row # NoRow /\ row.open /\ row.contributor = r.actor
        BY <1>1, <1>10, <3>1 DEF ListingWritten, r
      <4> QED BY <1>6, <3>1, <4>1 DEF Ready, Owns, IsOpenListing, key, l
    <3>2. CASE k # key
      <4> SUFFICES ASSUME key \in DOMAIN v PROVE Ready(new, r)
        OBVIOUS
      <4>1. Ready(db, r)
        BY <1>5, <1>11, <3>2 DEF Begun, key, l
      <4> QED BY <1>6, <3>2, <4>1 DEF Ready, Owns, IsOpenListing, key, l
    <3> QED BY <3>1, <3>2
  <2> QED BY <2>1, <2>2, <2>3 DEF Begun, l, key
(* What has returned a row has written the listing, or the first medium.   *)
<1>19. Answering(s, v, r, returned[s] \cup names)
  <2>1. CASE k \in ListingKey
    BY <1>5, <1>10, <2>1 DEF ListingWritten, Answering, l, r
  <2>2. CASE k \in MediaKey
    <3>1. k[2] = l /\ k \in DOMAIN v
      BY <1>5, <1>10, <2>2 DEF MediumWritten, Medium, MediaIn, l, r
    <3> QED BY <1>18, <2>2, <3>1 DEF Begun, Answering, l
  <2>3. CASE k \notin MediaKey \cup ListingKey
    <3>1. k = <<"address", s>> /\ k \in DOMAIN v /\ r.location = New
      BY <1>1, <1>5, <1>10, <2>3 DEF StatementOf, HasParameters
    <3> QED BY <3>1 DEF Answering
  <2> QED BY <2>1, <2>2, <2>3
<1>20. pc[s] \in {"query", "rows"} /\ UNCHANGED req /\ Goes(s, rest, names)
  BY <1>0
<1> QED BY <1>15, <1>16, <1>17, <1>18, <1>19, <1>20, GoesChanging DEF r, q, v, new
-----------------------------------------------------------------------------
(* The steps of a session, for what it has done if it is a modification.   *)
LEMMA OwnChanging ==
    ASSUME SafeInv, SafeInv', AgreeInv, OwnersInv, OwnersInv', MediaInv,
           NEW s \in Sessions, Execute(s) \/ Handle(s) \/ QueryFails(s)
    PROVE  Changing(s)'
<1>0. TypeInv /\ TypeInv' /\ TypeOK /\ TypeOK' /\ LocksExclusive /\ Changing(s)
  BY DEF SafeInv, TypeInv, IInv, MediaInv
<1>1. CASE StaysOutside(s)
  <2> SUFFICES ASSUME Modifying(s)' PROVE Changing(s)'
    BY DEF Changing
  <2>1. /\ step'[s] = 1 /\ returned'[s] = {} /\ DOMAIN writes'[s] = {} /\ pc'[s] = "query"
    BY <1>0, <1>1 DEF StaysOutside, TypeInv, Position, OwnersInv, LocksExclusive, InTransaction, Modifying, Active
  <2>2. req'[s].media \in Nat
    <3>1. req'[s] \in Request /\ req'[s].op = "modify-listing"
      BY <1>0, <2>1 DEF TypeInv, Position, Modifying
    <3>2. req'[s] \in ModifyListingRequest
      BY <3>1, RequestKinds
    <3> QED BY <3>2, SchemaAssumption DEF ModifyListingRequest
  <2>3. Begun(View(s), writes[s], req[s])'
    <3>1. Stored(writes'[s], req'[s].listing) = 0..(0 - 1)
      BY <2>1 DEF Stored, Stays
    <3>2. 0 \in 0..req'[s].media
      BY <2>2
    <3>3. \E n \in 0..req'[s].media : Stored(writes'[s], req'[s].listing) = 0..(n - 1)
      BY <3>1, <3>2
    <3> QED BY <2>1, <3>3 DEF Begun
  <2>4. \A i : ~Finished(s, i)'
    BY <2>1 DEF Finished
  <2>5. Answering(s, writes[s], req[s], returned[s])'
    BY <2>1 DEF Answering
  <2> QED BY <2>1, <2>3, <2>4, <2>5 DEF Changing
<1>2. CASE Fails(s) \/ Ends(s)
  BY <1>2 DEF Fails, Ends, Changing, Modifying, Active
<1>3. CASE Chooses(s) \/ PassesRow(s) \/ WroteRow(s)
  <2> SUFFICES ASSUME Modifying(s)' PROVE Changing(s)'
    BY DEF Changing
  <2>1. Modifying(s)
    BY <1>3 DEF Modifying, Active, Chooses, PassesRow, WroteRow
  <2> QED BY <1>0, <1>3, <2>1, ChoosesChanging, PassesChanging, WriteChanging
<1>4. CASE LockedRow(s)
  <2>1. Statement(s) \in StatementOf(req[s]) /\ Statement(s).query = "change_email" /\ UNCHANGED req
    BY <1>0, <1>4, StatementType DEF LockedRow
  <2>2. req[s].op # "modify-listing"
    BY <2>1 DEF StatementOf, Names
  <2> QED BY <2>1, <2>2 DEF Changing, Modifying
<1> QED BY <1>0, <1>1, <1>2, <1>3, <1>4, Steps

(* The media of a new listing. *)
LEMMA StepCreating ==
    ASSUME SafeInv, SafeInv', AgreeInv, WritesInv, ProgressInv, OwnersInv, MediaInv,
           NEW s \in Sessions, Execute(s) \/ Handle(s) \/ QueryFails(s), NEW t \in Sessions
    PROVE  Creating(t)'
<1>0. TypeInv /\ TypeInv' /\ TypeOK /\ LocksExclusive /\ LocksExclusive' /\ Creating(t)
  BY DEF SafeInv, TypeInv, IInv, MediaInv
<1>1. SUFFICES ASSUME Active(t)', t \notin Remade', NEW k \in DOMAIN writes'[t] \cap MediaKey, k[2] = t, NEW i \in 0..k[3]
      PROVE  Medium(t, i) \in DOMAIN View(t)'
  BY DEF Creating
<1>2. k[3] \in MediaIndex /\ i \in MediaIndex /\ Medium(t, i) \in MediaKey
  <2>1. k[3] \in MediaIndex
    BY <1>1 DEF MediaKey
  <2>2. i \in MediaIndex
    BY <1>1, <2>1, SchemaAssumption DEF MediaIndex
  <2> QED BY <2>1, <2>2 DEF MediaKey, Medium, ListingID
<1>3. /\ t \notin Remade /\ pc'[t] # "done"
      /\ Onward(View(t), View(t)', Remade', Reopened')
  BY <1>0, <1>1, RequestStays, ViewOnward DEF Active
<1>4. Medium(t, i) \in DOMAIN View(t) => Medium(t, i) \in DOMAIN View(t)'
  <2>1. Medium(t, i)[2] = t
    BY DEF Medium
  <2> QED BY <1>1, <1>2, <1>3, <2>1 DEF Onward
<1>5. CASE k \in DOMAIN writes[t]
  <2>1. Active(t)
    <3>1. pc[t] \in InTransaction
      BY <1>0, <1>5 DEF LocksExclusive
    <3>2. pc[t] # "rollback"
      <4>1. CASE t # s
        BY <1>0, <1>1, <4>1, StepFrame DEF Active
      <4>2. CASE t = s
        BY <1>0, <1>1, <4>2, Steps DEF StaysOutside, Fails, Chooses, PassesRow, WroteRow, LockedRow, Ends, Active
      <4> QED BY <4>1, <4>2
    <3> QED BY <3>1, <3>2 DEF Active, InTransaction
  <2> QED BY <1>0, <1>1, <1>3, <1>4, <1>5, <2>1 DEF Creating
<1>6. CASE k \notin DOMAIN writes[t]
  <2>1. t = s /\ (WroteRow(s) \/ LockedRow(s))
    <3>1. t = s
      BY <1>0, <1>1, <1>6, StepFrame
    <3> QED BY <1>0, <1>1, <1>6, <3>1, Steps DEF StaysOutside, Fails, Chooses, PassesRow, Ends, Active
  <2>2. PICK row : Puts(s, cur[s][1], row) /\ OwnRow(s, req[s], cur[s][1], row, DOMAIN store)
    BY <1>0, <2>1, RowOwned
  <2>3. k = cur[s][1]
    BY <1>0, <1>1, <1>6, <2>1, <2>2, PutsOne
  <2> DEFINE q == Statement(s)
             r == req[s]
  <2>4. /\ r \in Request /\ q \in StatementOf(r) /\ k \in Aims(s, r, q) /\ pc[s] = "rows"
        /\ q.query \in Statements /\ step[s] \in 1..Len(Build(r)) /\ q = Build(r)[step[s]]
    <3>1. pc[s] = "rows" /\ ~Skips(s)
      BY <2>1 DEF WroteRow, LockedRow
    <3> QED BY <1>0, <2>3, <3>1, RowAt, StatementKinds DEF TypeInv, Position, Statement
  <2>5. q.query \in {"insert_media", "change_media", "drop_extra_media"}
    <3>1. CASE q.query \in Inserts
      <4>1. k = InsertedKey(s, r, q)
        BY <2>4, <3>1 DEF Aims
      <4> QED BY <1>1, <2>4, <3>1, <4>1, InsertedKeys, KeyKinds DEF Inserts, Upserts, PlainInserts, Key
    <3>2. CASE q.query \notin Inserts
      BY <1>1, <2>4, <3>2, KeyKinds DEF Aims, Statements, AccountUpdates, ListingUpdates, Key
    <3> QED BY <3>1, <3>2
  <2>6. q.query = "insert_media"
    <3> SUFFICES ASSUME q.query \in {"change_media", "drop_extra_media"} PROVE FALSE
      BY <2>5
    <3>1. k[2] = r.listing
      BY <2>4 DEF Aims, InsertedKey, Inserts, Upserts, PlainInserts
    <3>2. r.op = "modify-listing"
      BY <2>4, StatementKinds DEF ModifyListingRequest
    <3> QED BY <1>1, <1>3, <2>1, <2>4, <3>1, <3>2 DEF Remade
  <2>7. k = <<"media", s, q.index>>
    BY <2>4, <2>6 DEF Aims, InsertedKey, Inserts, PlainInserts
  <2>8. CASE i = q.index
    <3>1. k \in DOMAIN View(s)'
      <4>1. row # NoRow
        <5>1. WroteRow(s)
          BY <2>1, <2>6 DEF LockedRow
        <5>2. row = writes'[s][k]
          BY <1>0, <2>2, <2>3, PutsOne
        <5>3. q.query \in Inserts /\ IsDatabase(View(s))
          BY <1>0, <2>6, ViewType DEF Inserts, PlainInserts
        <5>4. InsertedKey(s, r, q) = k
          BY <2>4, <5>3 DEF Aims
        <5>5. Inserted(View(s), s, r, q, k) \in RowOf(k)
          BY <2>4, <5>3, <5>4, InsertedType
        <5>6. Puts(s, k, Inserted(View(s), s, r, q, k))
          BY <2>3, <5>1, <5>3 DEF WroteRow, Writes, Written
        <5>7. writes'[s][k] = Inserted(View(s), s, r, q, k)
          BY <1>0, <5>6, PutsOne
        <5>8. k \in Key
          BY <1>1 DEF Key
        <5> QED BY <5>2, <5>5, <5>7, <5>8, RowsAreRows, MarketplaceAssumption
      <4> QED BY <1>0, <2>1, <2>2, <2>3, <4>1, WrittenView DEF WroteRow, LockedRow
    <3> QED BY <2>1, <2>7, <2>8, <3>1 DEF Medium
  <2>9. CASE i # q.index
    <3>1. i \in 0..(q.index - 1)
      BY <1>1, <1>2, <2>7, <2>9 DEF MediaIndex
    <3>2. PICK h \in 1..(step[s] - 1) : Build(r)[h] = Named("insert_media", i)
      BY <2>4, <2>6, <3>1, InsertOrder
    <3>3. Finished(s, h) /\ Active(s)
      BY <2>4, BuildElements DEF Finished, Active
    <3>4. Made(View(s), s, Build(r)[h])
      BY <3>2, <3>3 DEF ProgressInv, Progress, Sure, Named
    <3> QED BY <1>3, <1>4, <2>1, <3>2, <3>4 DEF Made, Fulfilled, Named, Medium
  <2> QED BY <2>8, <2>9
<1> QED BY <1>5, <1>6
-----------------------------------------------------------------------------
(* A modification that commits, of a listing that is open, and that has    *)
(* touched its media: it leaves the media that it brought and no other,    *)
(* its columns and its location.                                           *)
LEMMA CommittedModification ==
    ASSUME TypeInv, OwnersInv, NEW s \in Sessions, pc[s] = "commit", Modifying(s), Changing(s), Ready(View(s), req[s])
    PROVE  LET r == req[s]
               l == r.listing
           IN /\ r.media > 0 =>
                   /\ \A k \in MediaIn(View(s), l) : k[3] \in 0..(r.media - 1)
                   /\ \A i \in 0..(r.media - 1) : Medium(l, i) \in MediaIn(View(s), l) /\ View(s)[Medium(l, i)].url = s
              /\ \A c \in r.columns : View(s)[<<"listing", l>>].columns[c] = s
              /\ r.location # Null => View(s)[<<"listing", l>>].address = AddressOf(s, r)
<1> DEFINE r == req[s]
           l == r.listing
           db == View(s)
<1>0. /\ r \in Request /\ r.op = "modify-listing" /\ r.media \in Nat /\ Active(s) /\ IsDatabase(db) /\ TypeOK
      /\ 0..(r.media - 1) \subseteq MediaIndex /\ \A i \in MediaIndex : Medium(l, i) \in MediaKey
  BY ModificationKinds, ViewType DEF Modifying, TypeInv
<1>1. \A i \in 1..Len(Build(r)) : Done(db, writes[s], s, r, Build(r)[i])
  BY DEF Changing, Finished
<1> HIDE DEF r
<1>2. /\ \A c \in r.columns : \E i \in 1..Len(Build(r)) : Build(r)[i].query \in ColumnUpdates /\ ColumnOf(Build(r)[i]) = c
      /\ \A j \in 0..(r.media - 1) : \E i \in 1..Len(Build(r)) : Build(r)[i] = Named("change_media", j)
      /\ r.media > 0 => \E i \in 1..Len(Build(r)) : Build(r)[i].query = "drop_extra_media"
      /\ r.location # Null => \E i \in 1..Len(Build(r)) : Build(r)[i].query = "change_location"
  BY <1>0, ModifyHas
<1>3. ASSUME NEW c \in r.columns PROVE db[<<"listing", l>>].columns[c] = s
  <2>1. PICK i \in 1..Len(Build(r)) : Build(r)[i].query \in ColumnUpdates /\ ColumnOf(Build(r)[i]) = c
    BY <1>2
  <2> QED BY <1>1, <2>1 DEF Done, l
<1>4. ASSUME NEW j \in 0..(r.media - 1) PROVE Medium(l, j) \in MediaIn(db, l) /\ db[Medium(l, j)].url = s
  <2>1. PICK i \in 1..Len(Build(r)) : Build(r)[i] = Named("change_media", j)
    BY <1>2
  <2>2. Stays(writes[s], Medium(l, j))
    BY <1>1, <2>1 DEF Done, l, Named
  <2>3. Medium(l, j) \in MediaKey /\ Medium(l, j)[2] = l
    BY <1>0 DEF Medium
  <2>4. writes[s][Medium(l, j)].url = s
    BY <2>2, <2>3 DEF OwnersInv, OwnRow, Stays
  <2>5. Medium(l, j) \in DOMAIN db /\ db[Medium(l, j)] = writes[s][Medium(l, j)]
    BY <1>0, <2>2, ViewType DEF Stays
  <2> QED BY <2>3, <2>4, <2>5 DEF MediaIn
<1>5. ASSUME r.media > 0, NEW k \in MediaIn(db, l) PROVE k[3] \in 0..(r.media - 1)
  <2>1. PICK i \in 1..Len(Build(r)) : Build(r)[i].query = "drop_extra_media"
    BY <1>2, <1>5
  <2>2. k[3] < r.media
    BY <1>1, <1>5, <2>1 DEF Done, l
  <2>3. k[3] \in Nat
    BY <1>5, SchemaAssumption DEF MediaIn, MediaKey, MediaIndex
  <2> QED BY <1>0, <2>2, <2>3
<1>6. r.location # Null => db[<<"listing", l>>].address = AddressOf(s, r)
  BY <1>1, <1>2 DEF Done, l
<1> QED BY <1>3, <1>4, <1>5, <1>6 DEF r

(* The database has no media of a request under way. *)
LEMMA NoneBefore ==
    ASSUME TypeInv, TraceInv, NEW s \in Sessions, pc[s] = "commit", NEW k \in DOMAIN store, Marks(k, store[k], s)
    PROVE  FALSE
BY DEF TraceInv, Settled

(* Whole media stay whole in a database that has the same ones. *)
LEMMA WholeStays ==
    ASSUME NEW db, NEW new, NEW l, MediaWhole(db, l), MediaIn(new, l) = MediaIn(db, l),
           \A k \in MediaIn(db, l) : new[k] = db[k] /\ k[3] \in MediaIndex, l \in ListingID
    PROVE  MediaWhole(new, l)
<1>1. ASSUME NEW k \in MediaIn(new, l), NEW i \in 0..k[3] PROVE <<"media", l, i>> \in DOMAIN new
  <2>1. <<"media", l, i>> \in DOMAIN db /\ k[3] \in MediaIndex
    BY <1>1 DEF MediaWhole
  <2>2. <<"media", l, i>> \in MediaKey
    BY <1>1, <2>1, SchemaAssumption DEF MediaKey, MediaIndex
  <2>3. <<"media", l, i>> \in MediaIn(db, l)
    BY <2>1, <2>2 DEF MediaIn
  <2> QED BY <2>3 DEF MediaIn
<1> QED BY <1>1 DEF MediaWhole

(* What is committed has whole media. *)
LEMMA CommitWhole ==
    ASSUME SafeInv, SafeInv', AgreeInv, OwnersInv, TraceInv, MediaInv,
           NEW s \in Sessions, Execute(s) \/ Handle(s) \/ QueryFails(s), pc[s] = "commit", store' = View(s),
           NEW l \in ListingID, IsOpenListing(store', l), ~Exempt(l)
    PROVE  MediaWhole(store', l)
<1> DEFINE db == View(s)
<1>0. TypeInv /\ TypeOK /\ VersionsInv /\ Active(s) /\ pc[s] # "idle" /\ IsDatabase(store) /\ IsDatabase(db)
  BY ViewType DEF SafeInv, TypeInv, TypeOK, Active
<1>1. ASSUME NEW k \in MediaKey
      PROVE  /\ k \in DOMAIN db <=> IF k \in DOMAIN writes[s] THEN writes[s][k] # NoRow ELSE k \in DOMAIN store
             /\ k \in DOMAIN db => db[k] = IF k \in DOMAIN writes[s] THEN writes[s][k] ELSE store[k]
  BY <1>0, ViewType
<1>2. CASE \A k \in MediaKey : k[2] = l => k \notin DOMAIN writes[s]
  <2>1. MediaIn(db, l) = MediaIn(store, l) /\ \A k \in MediaIn(store, l) : db[k] = store[k] /\ k[3] \in MediaIndex
    BY <1>1, <1>2 DEF MediaIn, MediaKey
  <2>2. CASE <<"listing", l>> \in DOMAIN store
    <3>1. <<"listing", l>> \in Kept /\ <<"listing", l>> \in ListingKey
      BY DEF Kept, ListingKey
    <3>2. Follows(<<"listing", l>>, store[<<"listing", l>>], db[<<"listing", l>>])
      BY <1>0, <2>2, <3>1, SeenFollows
    <3>3. IsOpenListing(store, l)
      BY <2>2, <3>1, <3>2 DEF IsOpenListing, Follows
    <3>4. MediaWhole(store, l)
      BY <3>3 DEF MediaInv
    <3> QED BY <2>1, <3>4, WholeStays
  <2>3. CASE <<"listing", l>> \notin DOMAIN store
    <3>1. <<"listing", l>> \in DOMAIN writes[s] /\ <<"listing", l>> \in ListingKey
      BY <1>0, <2>3, ViewType DEF IsOpenListing, ListingKey
    <3>2. l = s
      BY <2>3, <3>1 DEF OwnersInv, OwnRow
    <3>3. MediaIn(store, l) = {}
      BY <1>0, <3>2, NoneBefore DEF MediaIn, Marks
    <3> QED BY <2>1, <3>3 DEF MediaWhole
  <2> QED BY <2>2, <2>3
<1>3. ASSUME NEW m \in MediaKey, m[2] = l, m \in DOMAIN writes[s] PROVE MediaWhole(db, l)
  <2>1. l = s \/ Modifies(req[s], l)
    BY <1>3 DEF OwnersInv, OwnRow
  <2>2. CASE Modifies(req[s], l)
    <3>1. l \in Remade
      BY <1>0, <2>2 DEF Remade, Modifies
    <3>2. Modifying(s) /\ Changing(s)
      BY <1>0, <2>2, <3>1 DEF Exempt, Modifying, Modifies, MediaInv
    <3>3. Begun(db, writes[s], req[s])
      BY <3>2 DEF Changing
    <3>4. Ready(db, req[s]) /\ Stays(writes[s], Medium(l, 0))
      BY <1>3, <2>2, <3>3 DEF Begun, Ready, Modifies
    <3>5. /\ req[s].media \in Nat /\ req[s].media \in 0..MaxMedia /\ 0..(req[s].media - 1) \subseteq MediaIndex
          /\ \A i \in MediaIndex : Medium(l, i) \in MediaKey
      BY <1>0, <3>2, <2>2, ModificationKinds DEF Modifying, Modifies
    <3>6. req[s].media > 0
      <4>1. m[3] \in MediaIndex
        BY <1>3 DEF MediaKey
      <4>2. 0 \in MediaIndex
        BY <4>1, SchemaAssumption DEF MediaIndex
      <4>3. 0 \in Stored(writes[s], l)
        BY <3>4, <4>2 DEF Stored
      <4>4. PICK n \in 0..req[s].media : Stored(writes[s], l) = 0..(n - 1)
        BY <2>2, <3>3 DEF Begun, Modifies
      <4> QED BY <3>5, <4>3, <4>4
    <3>7. /\ \A k \in MediaIn(db, l) : k[3] \in 0..(req[s].media - 1)
          /\ \A i \in 0..(req[s].media - 1) : Medium(l, i) \in MediaIn(db, l) /\ db[Medium(l, i)].url = s
      BY <1>0, <2>2, <3>2, <3>4, <3>6, CommittedModification DEF Modifies
    <3>8. \A k \in MediaIn(db, l) : k = Medium(l, k[3])
      BY DEF MediaIn, MediaKey, Medium
    <3>9. ASSUME NEW k \in MediaIn(db, l), NEW i \in 0..k[3] PROVE <<"media", l, i>> \in DOMAIN db
      <4>1. k[3] \in 0..(req[s].media - 1)
        BY <3>7, <3>9
      <4>2. i \in 0..(req[s].media - 1)
        BY <3>5, <3>9, <4>1
      <4> QED BY <3>7, <4>2 DEF Medium, MediaIn
    <3>10. \A k \in MediaIn(db, l) : db[k].url = s
      BY <3>7, <3>8
    <3> QED BY <3>9, <3>10 DEF MediaWhole
  <2>3. CASE l = s /\ ~Modifies(req[s], l)
    <3>1. s \notin Remade
      BY <2>3 DEF Exempt
    <3>2. Creating(s)
      BY DEF MediaInv
    <3>3. ASSUME NEW k \in MediaIn(db, s) PROVE k \in DOMAIN writes[s] \cap MediaKey /\ k[2] = s /\ db[k].url = s
      <4>1. k \in MediaKey /\ k[2] = s /\ k \in DOMAIN db
        BY <3>3 DEF MediaIn
      <4>2. k \in DOMAIN writes[s]
        <5> SUFFICES ASSUME k \notin DOMAIN writes[s] PROVE FALSE
          OBVIOUS
        <5>1. k \in DOMAIN store /\ Marks(k, store[k], s)
          BY <1>1, <4>1 DEF Marks
        <5> QED BY <1>0, <5>1, NoneBefore
      <4>3. writes[s][k] # NoRow /\ db[k] = writes[s][k]
        BY <1>1, <4>1, <4>2
      <4> QED BY <4>1, <4>2, <4>3 DEF OwnersInv, OwnRow
    <3>4. \A k \in MediaIn(db, s) : \A i \in 0..k[3] : Medium(s, i) \in DOMAIN db
      BY <1>0, <3>1, <3>2, <3>3 DEF Creating
    <3> QED BY <2>3, <3>3, <3>4 DEF MediaWhole, Medium
  <2> QED BY <2>1, <2>2, <2>3
<1> QED BY <1>2, <1>3

(* The media invariant: what every modification and every new listing has  *)
(* done so far, and that the media of an open listing are whole.           *)
THEOREM MediaIsInvariant == SafetySpec => []MediaInv
<1>1. Init => MediaInv
  <2> SUFFICES ASSUME Init PROVE MediaInv
    OBVIOUS
  <2>1. \A t \in Sessions : pc[t] = "idle"
    BY DEF Init
  <2>2. store = InitStore
    BY DEF Init
  <2> QED BY <2>1, <2>2, MarketplaceAssumption DEF MediaInv, Changing, Creating, Modifying, Active
<1>2. (SafeInv /\ SafeInv' /\ AgreeInv /\ WritesInv /\ ProgressInv /\ OwnersInv /\ OwnersInv' /\ TraceInv /\ MediaInv /\ [Next]_vars) => MediaInv'
  <2> SUFFICES ASSUME SafeInv, SafeInv', AgreeInv, WritesInv, ProgressInv, OwnersInv, OwnersInv', TraceInv, MediaInv,
                      [Next]_vars
               PROVE  MediaInv'
    OBVIOUS
  <2>1. CASE UNCHANGED vars
    BY <2>1 DEF vars, MediaInv, Changing, Creating, Modifying, Active, Finished, Remade, View, Statement, Exempt
  <2>2. ASSUME NEW s \in Sessions, Execute(s) \/ Handle(s) \/ QueryFails(s) PROVE MediaInv'
    <3>1. \A t \in Sessions : Changing(t)'
      BY <2>2, OwnChanging, OthersChanging
    <3>2. \A t \in Sessions : Creating(t)'
      BY <2>2, StepCreating
    <3>3. ASSUME NEW l \in ListingID, IsOpenListing(store', l), ~Exempt(l)' PROVE MediaWhole(store', l)
      <4>0. TypeInv /\ Remade \subseteq Remade'
        BY <2>2, RequestStays DEF SafeInv
      <4>1. ~Exempt(l)
        BY <3>3, <4>0 DEF Exempt
      <4>2. CASE UNCHANGED store
        BY <3>3, <4>1, <4>2 DEF MediaInv
      <4>3. CASE pc[s] = "commit" /\ store' = View(s)
        BY <2>2, <3>3, <4>1, <4>3, CommitWhole
      <4> QED BY <2>2, <4>0, <4>2, <4>3, Steps DEF StaysOutside, Fails, Chooses, PassesRow, WroteRow, LockedRow, Ends
    <3> QED BY <3>1, <3>2, <3>3 DEF MediaInv
  <2> QED BY <2>1, <2>2 DEF Next, Terminating
<1> QED BY <1>1, <1>2, SafeIsInvariant, AgreeIsInvariant, WritesAreJustified, ProgressIsInvariant, OwnersIsInvariant,
           TraceIsInvariant, PTL DEF SafetySpec

(* Somebody who may have made its media has asked for it. *)
LEMMA RemadeIsRequested ==
    ASSUME TypeInv, NEW l, l \in Remade
    PROVE  Requested("modify-listing", l)
<1>1. PICK t \in Sessions : pc[t] # "idle" /\ req[t].op = "modify-listing" /\ req[t].listing = l
  BY DEF Remade
<1>2. req[t] # Null
  BY <1>1, MarketplaceAssumption DEF TypeInv, Position
<1> QED BY <1>1, <1>2 DEF Requested

(* The media of an open listing are those of one request (MediaAreWhole).  *)
THEOREM MediaStayWhole == Spec => []MediaAreWhole
<1>1. (TypeInv /\ MediaInv) => MediaAreWhole
  <2> SUFFICES ASSUME TypeInv, MediaInv, NEW l \in ListingID,
                      IsOpenListing(store, l), ~(l \in Sessions /\ Requested("modify-listing", l))
               PROVE  MediaWhole(store, l)
    BY DEF MediaAreWhole
  <2>1. ~Exempt(l)
    BY RemadeIsRequested DEF Exempt
  <2> QED BY <2>1 DEF MediaInv
<1> QED BY <1>1, SafeIsInvariant, MediaIsInvariant, PTL DEF SafeInv, Spec, SafetySpec
-----------------------------------------------------------------------------
(* The step that has a request accepted is its COMMIT, with something to   *)
(* show.                                                                   *)
LEMMA AcceptedCommits ==
    ASSUME TypeInv, TypeInv', OutcomeInv, [Next]_vars, NEW s \in Sessions, Accepted(s)', ~Answered(s)
    PROVE  /\ Execute(s) \/ Handle(s) \/ QueryFails(s)
           /\ pc[s] = "commit" /\ store' = View(s) /\ req' = req
           /\ ~(returned[s] \subseteq DropFromResults(req[s].op))
<1>0. /\ pc'[s] = "done" /\ pc[s] # "done" /\ GetStatus(req'[s].op, error'[s]) < 300
      /\ error'[s] \in Errors \cup {"null"}
  BY DEF Accepted, Answered, TypeInv, TypeOK
<1>1. PICK t \in Sessions : Execute(t) \/ Handle(t) \/ QueryFails(t)
  BY <1>0 DEF Next, Terminating, vars
<1>2. t = s
  BY <1>0, <1>1, StepFrame
<1>3. error'[s] = "null"
  <2>1. error'[s] \in Errors => GetStatus(req'[s].op, error'[s]) \in {400, 401, 403, 404, 409, 500}
    BY DEF Errors, GetStatus
  <2> QED BY <1>0, <2>1
<1>4. Ends(s)
  BY <1>0, <1>1, <1>2, <1>3, Steps DEF StaysOutside, Fails, Chooses, PassesRow, WroteRow, LockedRow, Goes
<1>5. pc[s] = "rollback" => error[s] \notin {"null", "Unacknowledged"}
  BY DEF OutcomeInv, Knows
<1>6. pc[s] = "commit" /\ store' = View(s) /\ req' = req /\ PrepareResults(req[s].op, returned[s]) = "null"
  BY <1>3, <1>4, <1>5 DEF Ends
<1> QED BY <1>1, <1>2, <1>6 DEF PrepareResults

(* A modification that found its listing closed before it was done: it had *)
(* no column to change, and left the first of its media only.              *)
LEMMA CutShort ==
    ASSUME TypeInv, OwnersInv, TraceInv, NEW s \in Sessions, pc[s] = "commit", Modifying(s), Changing(s),
           ~Ready(View(s), req[s]), returned[s] # {}, req[s].location # New
    PROVE  LET l == req[s].listing
               mine == {k[3] : k \in {m \in MediaIn(View(s), l) : View(s)[m].url = s}}
           IN /\ req[s].columns = {} /\ req[s].location = Null
              /\ ~IsOpenListing(View(s), l)
              /\ \E n \in 1..req[s].media : mine = 0..(n - 1)
<1> DEFINE r == req[s]
           l == r.listing
           db == View(s)
           w == writes[s]
           mine == {k[3] : k \in {m \in MediaIn(db, l) : db[m].url = s}}
<1>0. /\ r.media \in Nat /\ TypeOK /\ Active(s) /\ r.op = "modify-listing"
      /\ \A i \in MediaIndex : Medium(l, i) \in MediaKey
  BY ModificationKinds DEF Modifying, TypeInv
<1>1. Begun(db, w, r) /\ Answering(s, w, r, returned[s])
  BY DEF Changing
<1>2. <<"listing", l>> \notin DOMAIN w
  BY <1>1 DEF Begun
<1>3. Stays(w, Medium(l, 0))
  BY <1>1, <1>2 DEF Answering
<1>4. 0 \in MediaIndex /\ Medium(l, 0) \in MediaKey /\ Medium(l, 0)[2] = l
  <2>1. Medium(l, 0) \in Key /\ Medium(l, 0)[1] = "media" /\ Medium(l, 0)[2] = l /\ Medium(l, 0)[3] = 0
    BY <1>0, <1>3 DEF Stays, TypeOK, Medium
  <2>2. Medium(l, 0) \in MediaKey
    BY <2>1, KeyKinds
  <2> QED BY <2>1, <2>2 DEF MediaKey
<1>5. Owns(db, r.actor, l) /\ Pinned(w, r)
  BY <1>1, <1>3, <1>4 DEF Begun, Stays
<1>6. r.columns = {} /\ r.location = Null
  BY <1>2, <1>5 DEF Pinned
<1>7. ~IsOpenListing(db, l)
  BY <1>5 DEF Ready
<1>8. PICK n \in 0..r.media : Stored(w, l) = 0..(n - 1)
  BY <1>1 DEF Begun
<1>9. n \in 1..r.media
  <2>1. 0 \in Stored(w, l)
    BY <1>3, <1>4 DEF Stored
  <2> QED BY <1>0, <1>8, <2>1
<1>10. ASSUME NEW k \in MediaKey
       PROVE  /\ k \in DOMAIN db <=> IF k \in DOMAIN w THEN w[k] # NoRow ELSE k \in DOMAIN store
              /\ k \in DOMAIN db => db[k] = IF k \in DOMAIN w THEN w[k] ELSE store[k]
  BY <1>0, ViewType
<1>11. ASSUME NEW m \in MediaIn(db, l), db[m].url = s PROVE m[3] \in Stored(w, l)
  <2>1. m \in MediaKey /\ m \in DOMAIN db /\ m[2] = l /\ m[3] \in MediaIndex /\ m = Medium(l, m[3])
    BY <1>11 DEF MediaIn, MediaKey, Medium
  <2>2. m \in DOMAIN w
    <3> SUFFICES ASSUME m \notin DOMAIN w PROVE FALSE
      OBVIOUS
    <3>1. m \in DOMAIN store /\ Marks(m, store[m], s)
      BY <1>10, <1>11, <2>1 DEF Marks
    <3> QED BY <3>1, NoneBefore
  <2>3. w[m] # NoRow
    BY <1>10, <2>1, <2>2
  <2> QED BY <2>1, <2>2, <2>3 DEF Stored, Stays
<1>12. ASSUME NEW i \in Stored(w, l) PROVE i \in mine
  <2>1. i \in MediaIndex /\ Medium(l, i) \in DOMAIN w /\ w[Medium(l, i)] # NoRow /\ Medium(l, i) \in MediaKey
    BY <1>0 DEF Stored, Stays
  <2>2. w[Medium(l, i)].url = s
    BY <2>1 DEF OwnersInv, OwnRow
  <2>3. Medium(l, i) \in DOMAIN db /\ db[Medium(l, i)].url = s
    BY <1>10, <2>1, <2>2
  <2>4. Medium(l, i) \in {m \in MediaIn(db, l) : db[m].url = s} /\ Medium(l, i)[3] = i
    BY <2>1, <2>3 DEF MediaIn, Medium
  <2> QED BY <2>4
<1>13. mine = Stored(w, l)
  BY <1>11, <1>12
<1> QED BY <1>6, <1>7, <1>8, <1>9, <1>13

(* A modification that found its listing closed, or another member's, and  *)
(* asked for a new location: it left the row of that address and no other. *)
LEMMA AddressAlone ==
    ASSUME TypeInv, OwnersInv, TraceInv, NEW s \in Sessions, pc[s] = "commit", Modifying(s), Changing(s),
           ~Ready(View(s), req[s]), returned[s] # {}, req[s].location = New
    PROVE  LET address == <<"address", s>> IN
           /\ DOMAIN View(s) = DOMAIN store \cup {address}
           /\ View(s)[address].owner = req[s].actor
           /\ \A k \in DOMAIN store : View(s)[k] = store[k]
<1> DEFINE r == req[s]
           l == r.listing
           w == writes[s]
           address == <<"address", s>>
<1>0. TypeOK /\ r.op = "modify-listing" /\ r.location # Null
  BY SchemaAssumption DEF Modifying, TypeInv
<1>1. Begun(View(s), w, r) /\ Answering(s, w, r, returned[s])
  BY DEF Changing
<1>2. <<"listing", l>> \notin DOMAIN w
  BY <1>1 DEF Begun
<1>3. \A k \in DOMAIN w : ~(k \in MediaKey /\ k[2] = l)
  BY <1>0, <1>1, <1>2 DEF Begun, Pinned
<1>4. \A k \in DOMAIN w : k = address /\ w[k] = [owner |-> r.actor]
  <2> SUFFICES ASSUME NEW k \in DOMAIN w PROVE k = address /\ w[k] = [owner |-> r.actor]
    OBVIOUS
  <2>1. OfModification(s, r, k, w[k])
    BY <1>0 DEF OwnersInv, OwnRow
  <2> HIDE DEF r, w
  <2> QED BY <1>2, <1>3, <2>1 DEF OfModification, l
<1>5. address \in DOMAIN w
  <2>1. ~Stays(w, Medium(l, 0))
    <3> SUFFICES ASSUME Stays(w, Medium(l, 0)) PROVE FALSE
      OBVIOUS
    <3>1. Medium(l, 0) \in DOMAIN w /\ Medium(l, 0)[1] = "media" /\ address[1] = "address"
      BY DEF Stays, Medium
    <3> QED BY <1>4, <3>1
  <2> QED BY <1>1, <1>2, <2>1 DEF Answering
<1>6. address \notin DOMAIN store
  BY NoneBefore DEF Marks
<1>7. w[address] # NoRow
  <2>1. r \in ModifyListingRequest
    BY <1>0, RequestKinds DEF TypeInv, Position
  <2>2. [owner |-> r.actor] \in AddressRow
    BY <2>1 DEF ModifyListingRequest, AddressRow
  <2>3. [owner |-> r.actor] \in Row
    BY <2>2 DEF Row
  <2> QED BY <1>4, <1>5, <2>3, MarketplaceAssumption
<1>8. /\ \A k : k \in DOMAIN View(s) <=> IF k \in DOMAIN w THEN w[k] # NoRow ELSE k \in DOMAIN store
      /\ \A k \in DOMAIN View(s) : View(s)[k] = IF k \in DOMAIN w THEN w[k] ELSE store[k]
  BY DEF View
<1> HIDE DEF r, w, address
<1>9. \A k : k \in DOMAIN w <=> k = address
  BY <1>4, <1>5
<1>10. DOMAIN View(s) = DOMAIN store \cup {address}
  BY <1>7, <1>8, <1>9
<1>11. View(s)[address].owner = r.actor
  <2>1. View(s)[address] = [owner |-> r.actor]
    BY <1>4, <1>5, <1>8, <1>10
  <2> QED BY <2>1
<1>12. \A k \in DOMAIN store : View(s)[k] = store[k]
  BY <1>6, <1>8, <1>9, <1>10
<1> QED BY <1>10, <1>11, <1>12 DEF r, address

(* All or nothing, for a modification of a listing that was there: what is *)
(* accepted was applied as a whole, columns, location and media, or it     *)
(* ended in one of the two other ways that ModificationIsWhole names.      *)
THEOREM ModificationStaysWhole == Spec => ModificationIsWhole
<1> DEFINE AllOf(s) ==
             (/\ Accepted(s)' /\ ~Answered(s)
              /\ req[s].op = "modify-listing" /\ req[s].listing \notin Sessions) =>
                ModifiedAll(s) \/ ModifiedMediaInPart(s) \/ MadeAddressOnly(s)
           WholeStep == \A s \in Sessions : AllOf(s)
<1>1. (SafeInv /\ SafeInv' /\ OutcomeInv /\ OwnersInv /\ TraceInv /\ MediaInv /\ [Next]_vars) => [WholeStep]_vars
  <2> SUFFICES ASSUME SafeInv, SafeInv', OutcomeInv, OwnersInv, TraceInv, MediaInv, [Next]_vars, NEW s \in Sessions,
                      Accepted(s)', ~Answered(s), req[s].op = "modify-listing", req[s].listing \notin Sessions
               PROVE  ModifiedAll(s) \/ ModifiedMediaInPart(s) \/ MadeAddressOnly(s)
    OBVIOUS
  <2> DEFINE r == req[s]
             l == r.listing
             db == View(s)
  <2>1. TypeInv /\ TypeInv'
    BY DEF SafeInv
  <2>2. pc[s] = "commit" /\ store' = db /\ req' = req /\ returned[s] # {}
    <3>1. pc[s] = "commit" /\ store' = db /\ req' = req /\ ~(returned[s] \subseteq DropFromResults(req[s].op))
      BY <2>1, AcceptedCommits
    <3> QED BY <3>1
  <2>3. Modifying(s) /\ Changing(s)
    BY <2>2 DEF MediaInv, Modifying, Active
  <2>4. MediaOf(l)' = MediaIn(db, l)
    BY <2>2 DEF MediaOf, MediaIn
  <2>5. CASE Ready(db, r)
    <3>1. /\ r.media > 0 =>
               /\ \A k \in MediaIn(db, l) : k[3] \in 0..(r.media - 1)
               /\ \A i \in 0..(r.media - 1) : Medium(l, i) \in MediaIn(db, l) /\ db[Medium(l, i)].url = s
          /\ \A c \in r.columns : db[<<"listing", l>>].columns[c] = s
          /\ r.location # Null => db[<<"listing", l>>].address = AddressOf(s, r)
      BY <2>1, <2>2, <2>3, <2>5, CommittedModification
    <3>2. ASSUME r.media > 0
          PROVE  /\ MediaOf(l)' = {<<"media", l, i>> : i \in 0..(r.media - 1)}
                 /\ \A k \in MediaOf(l)' : store'[k].url = s
      <4>1. \A k \in MediaIn(db, l) : k = Medium(l, k[3]) /\ k[3] \in 0..(r.media - 1)
        BY <3>1, <3>2 DEF MediaIn, MediaKey, Medium
      <4>2. \A k \in MediaIn(db, l) : db[k].url = s
        BY <3>1, <3>2, <4>1
      <4>3. MediaIn(db, l) = {<<"media", l, i>> : i \in 0..(r.media - 1)}
        BY <3>1, <3>2, <4>1 DEF Medium
      <4> HIDE DEF r, db
      <4> QED BY <2>2, <2>4, <4>2, <4>3
    <3>3. Owns(store', r.actor, l) /\ IsOpenListing(store', l)
      BY <2>2, <2>5 DEF Ready
    <3> HIDE DEF db
    <3> QED BY <2>2, <3>1, <3>2, <3>3 DEF ModifiedAll
  <2>6. CASE ~Ready(db, r) /\ r.location # New
    <3>1. /\ r.columns = {} /\ r.location = Null
          /\ ~IsOpenListing(db, l)
          /\ \E n \in 1..r.media : {k[3] : k \in {m \in MediaIn(db, l) : db[m].url = s}} = 0..(n - 1)
      BY <2>1, <2>2, <2>3, <2>6, CutShort
    <3>2. \E n \in 1..r.media : {k[3] : k \in {m \in MediaOf(l)' : store'[m].url = s}} = 0..(n - 1)
      BY <2>2, <2>4, <3>1
    <3> HIDE DEF db
    <3> QED BY <2>2, <3>1, <3>2 DEF ModifiedMediaInPart
  <2>7. CASE ~Ready(db, r) /\ r.location = New
    <3>1. /\ DOMAIN db = DOMAIN store \cup {<<"address", s>>}
          /\ db[<<"address", s>>].owner = r.actor
          /\ \A k \in DOMAIN store : db[k] = store[k]
      BY <2>1, <2>2, <2>3, <2>7, AddressAlone
    <3>2. ~(Owns(store', r.actor, l) /\ IsOpenListing(store', l))
      BY <2>2, <2>7 DEF Ready
    <3> HIDE DEF db
    <3> QED BY <2>2, <2>7, <3>1, <3>2 DEF MadeAddressOnly
  <2> QED BY <2>5, <2>6, <2>7
<1> QED BY <1>1, SafeIsInvariant, OutcomeIsInvariant, OwnersIsInvariant, TraceIsInvariant, MediaIsInvariant, PTL DEF Spec, SafetySpec, ModificationIsWhole
-----------------------------------------------------------------------------
(* What a transaction that has nothing to show may hold: a row as it is;   *)
(* of a close-account request, a listing or a conversation of its account, *)
(* closed; of a modification, a medium of its listing, deleted.  That the  *)
(* database is a function lets rows be compared one by one.                *)
ShutBy(t, k, row) ==
    /\ req[t].op = "close-account" /\ k \in DOMAIN store /\ row = [store[k] EXCEPT !.open = FALSE]
    /\ \/ k \in ListingKey /\ store[k].contributor = req[t].actor
       \/ k \in ConversationKey /\ IsParty(store, req[t].actor, k)

Untold(t, k, row) ==
    \/ k \in DOMAIN store /\ row = store[k]
    \/ ShutBy(t, k, row)
    \/ req[t].op = "modify-listing" /\ k \in MediaKey /\ k[2] = req[t].listing /\ row = NoRow

(* The conversations that a close-account request is about to close. *)
ShutsTalk(t) == pc[t] = "rows" /\ req[t].op = "close-account" /\ Statement(t).query = "close_conversations"

UntoldInv ==
    /\ store = [k \in DOMAIN store |-> store[k]]
    /\ \A t \in Sessions :
         /\ Bare(t) => \A k \in DOMAIN writes[t] : Untold(t, k, writes[t][k])
         /\ ShutsTalk(t) => \A e \in todo[t] : e[1] \in ConversationKey /\ IsParty(store, req[t].actor, e[1])

(* So it sees the committed rows, or has closed them. *)
LEMMA BareSeen ==
    ASSUME TypeInv, UntoldInv, NEW t \in Sessions, DOMAIN writes[t] # {} => Bare(t), NEW k \in DOMAIN View(t)
    PROVE  k \in DOMAIN store /\ (View(t)[k] = store[k] \/ ShutBy(t, k, View(t)[k]))
<1>1. CASE k \in DOMAIN writes[t]
  <2>1. View(t)[k] = writes[t][k] /\ writes[t][k] # NoRow
    BY <1>1, ViewType DEF TypeInv
  <2>2. Untold(t, k, writes[t][k])
    BY <1>1 DEF UntoldInv
  <2> QED BY <2>1, <2>2 DEF Untold, ShutBy
<1>2. CASE k \notin DOMAIN writes[t]
  BY <1>2, ViewType DEF TypeInv
<1> QED BY <1>1, <1>2

(* Closing a row that is there, as seen, is closing it as committed. *)
LEMMA ClosedAsCommitted ==
    ASSUME TypeInv, NEW t \in Sessions, NEW k \in (ListingKey \cup ConversationKey) \cap DOMAIN store, NEW old,
           old = store[k] \/ old = [store[k] EXCEPT !.open = FALSE]
    PROVE  [old EXCEPT !.open = FALSE] = [store[k] EXCEPT !.open = FALSE]
<1>1. store[k] \in ListingRow \cup ConversationRow
  BY RowKinds DEF TypeInv, TypeOK, IsDatabase
<1> QED BY <1>1 DEF ListingRow, ConversationRow

(* A statement that has nothing to show writes such rows.                  *)
LEMMA UntoldWritten ==
    ASSUME SafeInv, ProgressInv, DealInv, UntoldInv, NEW s \in Sessions, Execute(s) \/ Handle(s) \/ QueryFails(s),
           WroteRow(s), Bare(s)'
    PROVE  \E row : Puts(s, cur[s][1], row) /\ Untold(s, cur[s][1], row)
<1> DEFINE k == cur[s][1]
           old == View(s)[k]
           q == Statement(s)
           r == req[s]
           row == Written(View(s), s, r, q, k)
<1>0. /\ TypeInv /\ pc[s] = "rows" /\ ~Skips(s) /\ UNCHANGED req
      /\ returned[s] \subseteq returned'[s] /\ returned'[s] \subseteq DropFromResults(r.op)
      /\ Puts(s, k, row)
  BY DEF SafeInv, WroteRow, Goes, Writes, Bare
<1>1. q.query \in Unreturning /\ (DOMAIN writes[s] # {} => Bare(s))
  BY BareBefore
<1>2. /\ r \in Request /\ q \in StatementOf(r) /\ k \in Key /\ k \in Aims(s, r, q) /\ k \in DOMAIN View(s)
      /\ row = Updated(old, s, r, q)
  BY <1>0, <1>1, RowAt DEF Unreturning, Inserts, Upserts, PlainInserts, Written
<1>3. k \in DOMAIN store /\ (old = store[k] \/ old = [store[k] EXCEPT !.open = FALSE])
  BY <1>0, <1>1, <1>2, BareSeen DEF ShutBy
<1>4. cur[s] \in todo[s]
  BY <1>0 DEF TypeInv, Position
<1>5. CASE q.query = "close_listings"
  <2>1. k \in ListingKey
    BY <1>2, <1>5 DEF Aims, Inserts, Upserts, PlainInserts, AccountUpdates, ListingUpdates
  <2>2. r.op = "close-account"
    BY <1>2, <1>5, StatementKinds DEF CloseAccountRequest
  <2>3. store[k].contributor = r.actor
    BY <1>0, <1>4, <1>5 DEF DealInv, Acts
  <2>4. row = [old EXCEPT !.open = FALSE]
    BY <1>2, <1>5 DEF Updated
  <2>5. row = [store[k] EXCEPT !.open = FALSE]
    BY <1>0, <1>3, <2>1, <2>4, ClosedAsCommitted
  <2> HIDE DEF row, k
  <2>6. Untold(s, k, row)
    BY <1>3, <2>1, <2>2, <2>3, <2>5 DEF Untold, ShutBy
  <2> QED BY <1>0, <2>6 DEF k
<1>6. CASE q.query = "close_conversations"
  <2>1. r.op = "close-account"
    <3>1. r.op \in {"close-listing", "close-account"}
      BY <1>2, <1>6, StatementKinds DEF CloseAccountRequest, CloseListingRequest
    <3>2. r.op # "close-listing"
      <4> SUFFICES ASSUME r.op = "close-listing" PROVE FALSE
        OBVIOUS
      <4>1. Backreference(r, q) = {"close_listing"}
        BY <1>6 DEF Backreference
      <4>2. Backreference(r, q) \subseteq returned[s]
        BY <1>0 DEF ProgressInv, Progress
      <4>3. DropFromResults(r.op) = {"close_conversations"}
        BY DEF DropFromResults
      <4> QED BY <1>0, <4>1, <4>2, <4>3
    <3> QED BY <3>1, <3>2
  <2>2. k \in ConversationKey /\ IsParty(store, r.actor, k)
    BY <1>0, <1>4, <1>6, <2>1 DEF UntoldInv, ShutsTalk
  <2>3. row = [old EXCEPT !.open = FALSE]
    BY <1>2, <1>6 DEF Updated
  <2>4. row = [store[k] EXCEPT !.open = FALSE]
    BY <1>0, <1>3, <2>2, <2>3, ClosedAsCommitted
  <2> HIDE DEF row, k
  <2>5. Untold(s, k, row)
    BY <1>3, <2>1, <2>2, <2>4 DEF Untold, ShutBy
  <2> QED BY <1>0, <2>5 DEF k
<1>7. CASE q.query = "drop_extra_media"
  <2>1. k \in MediaKey /\ k[2] = r.listing
    BY <1>2, <1>7 DEF Aims, Inserts, Upserts, PlainInserts
  <2>2. r.op = "modify-listing"
    BY <1>2, <1>7, StatementKinds DEF ModifyListingRequest
  <2>3. row = NoRow
    BY <1>2, <1>7 DEF Updated
  <2> HIDE DEF row, k
  <2>4. Untold(s, k, row)
    BY <2>1, <2>2, <2>3 DEF Untold
  <2> QED BY <1>0, <2>4 DEF k
<1> QED BY <1>1, <1>5, <1>6, <1>7 DEF Unreturning

(* And change_email locks the row as it is.                                *)
LEMMA UntoldLocked ==
    ASSUME TypeInv, UntoldInv, NEW s \in Sessions, LockedRow(s), Bare(s)
    PROVE  \E row : Puts(s, cur[s][1], row) /\ Untold(s, cur[s][1], row)
<1> DEFINE k == cur[s][1]
<1>0. pc[s] = "rows" /\ Statement(s).query = "change_email" /\ k \in DOMAIN View(s) /\ Puts(s, k, View(s)[k])
  BY DEF LockedRow, LocksRow
<1>1. req[s].op # "close-account"
  <2>1. req[s] \in Request /\ Statement(s) \in StatementOf(req[s])
    BY <1>0, StatementType
  <2> QED BY <1>0, <2>1, StatementKinds DEF ModifyAccountRequest
<1>2. k \in DOMAIN store /\ View(s)[k] = store[k]
  BY <1>0, <1>1, BareSeen DEF ShutBy
<1>3. Untold(s, k, View(s)[k])
  BY <1>2 DEF Untold
<1> QED BY <1>0, <1>3

(* What is untold in a transaction stays so when another commits. *)
LEMMA OthersUntold ==
    ASSUME SafeInv, UntoldInv, NEW s \in Sessions, Execute(s) \/ Handle(s) \/ QueryFails(s),
           NEW t \in Sessions, t # s, Bare(t)', NEW k \in DOMAIN writes'[t]
    PROVE  Untold(t, k, writes[t][k])'
<1>0. /\ TypeInv /\ IsDatabase(store) /\ Later(store, store')
      /\ writes'[t] = writes[t] /\ req'[t] = req[t] /\ (Bare(t)' <=> Bare(t))
  BY StepFrame, StoreLater DEF SafeInv, TypeInv, TypeOK, Bare, Active
<1>1. k \in DOMAIN writes[t] /\ Untold(t, k, writes[t][k])
  BY <1>0 DEF UntoldInv
<1>2. k \in DOMAIN store => k \in DOMAIN store' /\ store'[k] = store[k]
  <2>1. store' = View(s) \/ UNCHANGED store
    BY <1>0, Effects
  <2>2. k \notin DOMAIN writes[s]
    BY <1>1 DEF SafeInv, IInv, LocksExclusive
  <2> QED BY <1>0, <2>1, <2>2, ViewType DEF TypeInv
<1>3. \A a, c : IsParty(store, a, c) => IsParty(store', a, c)
  BY <1>0, LaterKeeps
<1> QED BY <1>0, <1>1, <1>2, <1>3 DEF Untold, ShutBy

(* Every step keeps it so. *)
LEMMA UntoldStep ==
    ASSUME SafeInv, SafeInv', ProgressInv, DealInv, UntoldInv,
           NEW s \in Sessions, Execute(s) \/ Handle(s) \/ QueryFails(s)
    PROVE  UntoldInv'
<1>0. TypeInv /\ TypeInv' /\ VersionsInv /\ IsDatabase(store) /\ Later(store, store')
  BY StoreLater DEF SafeInv, TypeInv, TypeOK
<1>1. (store = [k \in DOMAIN store |-> store[k]])'
  <2>1. CASE store' = View(s)
    BY <2>1 DEF View
  <2>2. CASE UNCHANGED store
    BY <2>2 DEF UntoldInv
  <2> QED BY <1>0, <2>1, <2>2, Effects
<1>2. ASSUME NEW t \in Sessions, Bare(t)', NEW k \in DOMAIN writes'[t] PROVE Untold(t, k, writes[t][k])'
  <2>1. CASE t # s
    BY <1>2, <2>1, OthersUntold
  <2>2. ASSUME t = s, UNCHANGED <<store, req>>, k \in DOMAIN writes[s], writes'[s][k] = writes[s][k]
        PROVE  Untold(t, k, writes[t][k])'
    <3>1. Bare(s)
      BY <1>2, <2>2, BareBefore
    <3>2. Untold(s, k, writes[s][k])
      BY <2>2, <3>1 DEF UntoldInv
    <3> QED BY <2>2, <3>2 DEF Untold, ShutBy
  <2>3. CASE t = s /\ (Chooses(s) \/ PassesRow(s))
    BY <1>2, <2>2, <2>3 DEF Chooses, PassesRow
  <2>4. CASE t = s /\ (WroteRow(s) \/ LockedRow(s))
    <3>0. UNCHANGED <<store, req>>
      BY <2>4 DEF WroteRow, LockedRow
    <3>1. PICK row : Puts(s, cur[s][1], row) /\ Untold(s, cur[s][1], row)
      <4>1. CASE WroteRow(s)
        BY <1>2, <2>4, <4>1, UntoldWritten
      <4>2. CASE LockedRow(s)
        <5>1. Bare(s)
          BY <1>2, <2>4, <4>2 DEF LockedRow, Bare, Active
        <5> QED BY <1>0, <4>2, <5>1, UntoldLocked
      <4> QED BY <2>4, <4>1, <4>2
    <3>2. IF k = cur[s][1] THEN writes'[s][k] = row ELSE k \in DOMAIN writes[s] /\ writes'[s][k] = writes[s][k]
      BY <1>0, <1>2, <2>4, <3>1, PutsOne
    <3>3. CASE k = cur[s][1]
      BY <2>4, <3>0, <3>1, <3>2, <3>3 DEF Untold, ShutBy
    <3> QED BY <2>2, <2>4, <3>0, <3>2, <3>3
  <2>5. CASE t = s /\ StaysOutside(s)
    <3>1. DOMAIN writes[s] = {} /\ writes'[s] = writes[s]
      BY <2>5 DEF StaysOutside, SafeInv, IInv, LocksExclusive, InTransaction
    <3> QED BY <1>2, <2>5, <3>1
  <2>6. CASE t = s /\ (Fails(s) \/ Ends(s))
    BY <1>2, <2>6 DEF Fails, Ends, Bare, Active
  <2> QED BY <1>0, <2>1, <2>3, <2>4, <2>5, <2>6, Steps
<1>3. ASSUME NEW t \in Sessions, ShutsTalk(t)', NEW e \in todo'[t]
      PROVE  e[1] \in ConversationKey /\ IsParty(store', req'[t].actor, e[1])
  <2>1. \A a, c : IsParty(store, a, c) => IsParty(store', a, c)
    BY <1>0, LaterKeeps
  <2>2. CASE t # s
    <3>1. Statement(t)' = Statement(t) /\ pc'[t] = pc[t] /\ todo'[t] = todo[t] /\ req'[t] = req[t]
      BY <1>0, <2>2, StepFrame DEF Statement
    <3> QED BY <1>3, <2>1, <3>1 DEF UntoldInv, ShutsTalk
  <2>3. CASE t = s
    <3>1. pc'[s] = "rows" /\ req'[s].op = "close-account" /\ Statement(s)'.query = "close_conversations"
      BY <1>3, <2>3 DEF ShutsTalk
    <3>2. /\ req'[s] = req[s] /\ Statement(s)' = Statement(s)
          /\ \/ pc[s] = "rows" /\ todo'[s] \subseteq todo[s]
             \/ pc[s] = "query" /\ \A x \in todo'[s] : x[1] \in Chosen(View(s), s, req[s], Statement(s))
      BY <1>0, <3>1, TodoStep
    <3>3. CASE pc[s] = "rows" /\ todo'[s] \subseteq todo[s]
      BY <1>3, <2>1, <2>3, <3>1, <3>2, <3>3 DEF UntoldInv, ShutsTalk
    <3>4. CASE pc[s] = "query" /\ e[1] \in Chosen(View(s), s, req[s], Statement(s))
      <4>1. e[1] \in ConversationKey /\ IsParty(View(s), req[s].actor, e[1])
        BY <3>1, <3>2, <3>4 DEF Chosen, Selects, Inserts, Upserts, PlainInserts, AccountUpdates, ListingUpdates
      <4>2. IsParty(store, req[s].actor, e[1])
        <5> DEFINE k == <<"listing", e[1][3]>>
        <5>1. SUFFICES ASSUME Owns(View(s), req[s].actor, e[1][3]) PROVE Owns(store, req[s].actor, e[1][3])
          BY <4>1 DEF IsParty
        <5>2. k \in DOMAIN View(s) /\ View(s)[k].contributor = req[s].actor
          BY <5>1 DEF Owns
        <5>3. k \in ListingKey
          BY <4>1 DEF ConversationKey, ListingKey
        <5>4. k \in DOMAIN store /\ View(s)[k].contributor = store[k].contributor
          BY <1>0, <3>1, <3>2, <5>2, <5>3, SeenDeals
        <5> QED BY <5>2, <5>4 DEF Owns
      <4> QED BY <2>1, <2>3, <3>2, <4>1, <4>2
    <3> QED BY <1>3, <2>3, <3>2, <3>3, <3>4
  <2> QED BY <2>2, <2>3
<1> QED BY <1>1, <1>2, <1>3 DEF UntoldInv

(* A transaction that has nothing to show holds no more than that: the     *)
(* invariant that RefusedLeavesNoTrace rests on.                           *)
THEOREM UntoldIsInvariant == SafetySpec => []UntoldInv
<1>1. Init => UntoldInv
  <2> SUFFICES ASSUME Init PROVE UntoldInv
    OBVIOUS
  <2>1. store = [k \in DOMAIN store |-> store[k]]
    BY MarketplaceAssumption DEF Init
  <2>2. \A t \in Sessions : pc[t] = "idle"
    BY DEF Init
  <2> QED BY <2>1, <2>2 DEF UntoldInv, Bare, Active, ShutsTalk
<1>2. (SafeInv /\ SafeInv' /\ ProgressInv /\ DealInv /\ UntoldInv /\ [Next]_vars) => UntoldInv'
  <2> SUFFICES ASSUME SafeInv, SafeInv', ProgressInv, DealInv, UntoldInv, [Next]_vars PROVE UntoldInv'
    OBVIOUS
  <2>1. CASE UNCHANGED vars
    <3>1. /\ UNCHANGED <<store, writes, req, todo>>
          /\ \A t \in Sessions : (Bare(t)' <=> Bare(t)) /\ (ShutsTalk(t)' <=> ShutsTalk(t))
      BY <2>1 DEF vars, Bare, Active, ShutsTalk, Statement
    <3>2. ASSUME NEW t \in Sessions, NEW k, Untold(t, k, writes[t][k]) PROVE Untold(t, k, writes[t][k])'
      BY <3>1, <3>2 DEF Untold, ShutBy
    <3>3. \A t \in Sessions : Bare(t)' => \A k \in DOMAIN writes'[t] : Untold(t, k, writes[t][k])'
      BY <3>1, <3>2 DEF UntoldInv
    <3>4. \A t \in Sessions : ShutsTalk(t)' =>
            \A e \in todo'[t] : e[1] \in ConversationKey /\ IsParty(store', req'[t].actor, e[1])
      BY <3>1 DEF UntoldInv
    <3>5. (store = [k \in DOMAIN store |-> store[k]])'
      BY <3>1 DEF UntoldInv
    <3> QED BY <3>3, <3>4, <3>5 DEF UntoldInv
  <2>2. ASSUME NEW s \in Sessions, Execute(s) \/ Handle(s) \/ QueryFails(s) PROVE UntoldInv'
    BY <2>2, UntoldStep
  <2> QED BY <2>1, <2>2 DEF Next, Terminating
<1> QED BY <1>1, <1>2, SafeIsInvariant, ProgressIsInvariant, DealIsInvariant, PTL DEF SafetySpec

(* What a transaction commits that has nothing to show: nothing, or what   *)
(* a second close-account closes, or what a modification by a number about *)
(* to be given drops.                                                      *)
LEMMA CommittedUntold ==
    ASSUME SafeInv, OwnersInv, TraceInv, DealInv, MediaInv, UntoldInv,
           NEW s \in Sessions, pc[s] = "commit", Bare(s)
    PROVE  LET db == View(s) IN
           \/ db = store
           \/ /\ req[s].op = "close-account" /\ ~store[Own(s)].open /\ DOMAIN db = DOMAIN store
              /\ \A k \in DOMAIN store : db[k] # store[k] => ShutBy(s, k, db[k])
           \/ /\ req[s].op = "modify-listing" /\ req[s].listing \in Sessions
              /\ \A k \in DOMAIN store : k \notin DOMAIN db => k \in MediaKey /\ k[2] = req[s].listing
              /\ \A k \in DOMAIN db : k \in DOMAIN store /\ db[k] = store[k]
<1> DEFINE db == View(s)
           w == writes[s]
           l == req[s].listing
<1>0. TypeInv /\ TypeOK /\ VersionsInv /\ IsDatabase(store)
  BY DEF SafeInv, TypeInv, TypeOK
<1>1. \A k \in DOMAIN db : k \in DOMAIN store /\ (db[k] = store[k] \/ ShutBy(s, k, db[k]))
  BY <1>0, BareSeen
<1>2. ASSUME NEW k \in DOMAIN store, k \notin DOMAIN db
      PROVE  k \in DOMAIN w /\ req[s].op = "modify-listing" /\ k \in MediaKey /\ k[2] = l
  <2>1. k \in DOMAIN w /\ w[k] = NoRow
    BY <1>0, <1>2, ViewType
  <2>2. w[k] # store[k]
    BY <1>0, <2>1, RowsAreRows, MarketplaceAssumption DEF IsDatabase
  <2>3. ~ShutBy(s, k, w[k])
    BY <1>0, <2>1 DEF ShutBy, VersionsInv, Kept
  <2>4. Untold(s, k, w[k])
    BY <2>1 DEF UntoldInv
  <2> QED BY <2>1, <2>2, <2>3, <2>4 DEF Untold
<1>3. store = [k \in DOMAIN store |-> store[k]] /\ db = [k \in DOMAIN db |-> db[k]]
  BY DEF UntoldInv, View
<1>4. CASE req[s].op = "close-account"
  <2>1. ~store[Own(s)].open
    <3>1. DropFromResults(req[s].op) = {"close_listings", "close_conversations"}
      BY <1>4 DEF DropFromResults
    <3>2. ~Shutting(s)
      BY <3>1 DEF Bare, Shutting
    <3>3. ShutsOwn(s) /\ Shuts(s)
      BY <1>4 DEF DealInv, Shuts, Bare
    <3> QED BY <3>2, <3>3 DEF ShutsOwn
  <2>2. DOMAIN db = DOMAIN store
    BY <1>1, <1>2, <1>4
  <2> QED BY <1>1, <1>4, <2>1, <2>2
<1>5. CASE req[s].op = "modify-listing" /\ l \in Sessions
  <2>1. \A k \in DOMAIN db : k \in DOMAIN store /\ db[k] = store[k]
    BY <1>1, <1>5 DEF ShutBy
  <2> QED BY <1>2, <1>5, <2>1
<1>6. CASE req[s].op # "close-account" /\ ~(req[s].op = "modify-listing" /\ l \in Sessions)
  <2>1. \A k \in DOMAIN db : k \in DOMAIN store /\ db[k] = store[k]
    BY <1>1, <1>6 DEF ShutBy
  <2>2. ASSUME NEW k \in DOMAIN store, k \notin DOMAIN db PROVE FALSE
    <3> DEFINE m == Medium(l, 0)
    <3>1. k \in DOMAIN w /\ req[s].op = "modify-listing" /\ k \in MediaKey /\ k[2] = l
      BY <1>2, <2>2
    <3>2. Modifying(s)
      BY <1>6, <3>1 DEF Modifying, Bare
    <3>3. m \in DOMAIN w /\ w[m] # NoRow
      BY <3>1, <3>2 DEF MediaInv, Changing, Begun, Stays
    <3>4. m \in MediaKey
      <4>1. m \in Key /\ m[1] = "media"
        BY <1>0, <3>3 DEF TypeOK, Medium
      <4> QED BY <4>1, KeyKinds
    <3>5. w[m].url = s
      BY <3>3, <3>4 DEF OwnersInv, OwnRow
    <3>6. m \in DOMAIN store /\ w[m] = store[m]
      BY <1>6, <3>3 DEF UntoldInv, Untold, ShutBy
    <3>7. Marks(m, store[m], s)
      BY <3>4, <3>5, <3>6 DEF Marks
    <3> HIDE DEF m
    <3> QED BY <1>0, <3>6, <3>7, NoneBefore
  <2>3. DOMAIN db = DOMAIN store
    BY <2>1, <2>2
  <2>4. db = store
    BY <1>3, <2>1, <2>3
  <2> QED BY <2>4
<1> QED BY <1>4, <1>5, <1>6

(* All or nothing, the nothing: the database changes only in the step that *)
(* grants a request, or that a COMMIT's lost acknowledgement has refused;  *)
(* the two requests whose empty results hide what they did are named.      *)
THEOREM RefusedHasNoTrace == Spec => RefusedLeavesNoTrace
<1> DEFINE Granted(s) ==
             /\ ~Answered(s) /\ Answered(s)'
             /\ \/ Accepted(s)' \/ error'[s] = "Unacknowledged"
                \/ ClosesAgain(s) \/ DropsUnseen(s)
           GrantStep == store' # store => \E s \in Sessions : Granted(s)
<1>1. (/\ SafeInv /\ SafeInv' /\ ProgressInv /\ OwnersInv /\ TraceInv /\ DealInv /\ MediaInv /\ UntoldInv
       /\ [Next]_vars) => [GrantStep]_vars
  <2> SUFFICES ASSUME SafeInv, SafeInv', ProgressInv, OwnersInv, TraceInv, DealInv, MediaInv, UntoldInv,
                      [Next]_vars, store' # store
               PROVE  \E s \in Sessions : Granted(s)
    OBVIOUS
  <2>0. TypeInv
    BY DEF SafeInv
  <2>1. PICK s \in Sessions : Execute(s) \/ Handle(s) \/ QueryFails(s)
    BY DEF Next, Terminating, vars
  <2>2. /\ pc[s] = "commit" /\ pc'[s] = "done" /\ store' = View(s) /\ UNCHANGED <<req, returned>>
        /\ error'[s] \in {PrepareResults(req[s].op, returned[s]), "Unacknowledged"}
    BY <2>0, <2>1, Steps DEF StaysOutside, Fails, Chooses, PassesRow, WroteRow, LockedRow, Ends
  <2>3. ~Answered(s) /\ Answered(s)'
    BY <2>2 DEF Answered
  <2>4. CASE error'[s] = "null"
    <3>1. GetStatus(req'[s].op, error'[s]) \in {200, 201}
      BY <2>4 DEF GetStatus
    <3>2. Accepted(s)'
      BY <2>3, <3>1 DEF Accepted
    <3> QED BY <2>3, <3>2
  <2>5. CASE error'[s] = "Unacknowledged"
    BY <2>3, <2>5
  <2>6. CASE error'[s] = "EmptyResponseError"
    <3>1. returned[s] \subseteq DropFromResults(req[s].op)
      BY <2>2, <2>6 DEF PrepareResults
    <3>2. Bare(s)
      BY <2>0, <2>2, <3>1, ListingReturned DEF Bare, Active
    <3>3. Refused(s)'
      <4>1. GetStatus(req'[s].op, error'[s]) \in {403, 404, 409}
        BY <2>6 DEF GetStatus
      <4> QED BY <2>3, <4>1 DEF Refused
    <3>4. \/ /\ req[s].op = "close-account" /\ ~store[Own(s)].open /\ DOMAIN store' = DOMAIN store
             /\ \A k \in DOMAIN store : store'[k] # store[k] => ShutBy(s, k, store'[k])
          \/ /\ req[s].op = "modify-listing" /\ req[s].listing \in Sessions
             /\ \A k \in DOMAIN store : k \notin DOMAIN store' => k \in MediaKey /\ k[2] = req[s].listing
             /\ \A k \in DOMAIN store' : k \in DOMAIN store /\ store'[k] = store[k]
      BY <2>2, <3>2, CommittedUntold
    <3>5. ClosesAgain(s) \/ DropsUnseen(s)
      BY <3>3, <3>4 DEF ClosesAgain, DropsUnseen, ShutBy, Own
    <3> QED BY <2>3, <3>5
  <2>7. PrepareResults(req[s].op, returned[s]) \in {"null", "EmptyResponseError"}
    BY DEF PrepareResults
  <2> QED BY <2>2, <2>4, <2>5, <2>6, <2>7
<1> QED BY <1>1, SafeIsInvariant, ProgressIsInvariant, OwnersIsInvariant, TraceIsInvariant, DealIsInvariant,
       MediaIsInvariant, UntoldIsInvariant, PTL DEF Spec, SafetySpec, RefusedLeavesNoTrace
-----------------------------------------------------------------------------
(* The account and the picture that a change of a profile is about.        *)
Profile(r) == <<"account", r.actor>>
Portrait(r) == <<"picture", r.actor>>

(* What statement q of session t leaves on the account, if it is open, and *)
(* of the picture.                                                         *)
Shows(row, t, r, q) ==
    /\ q.query \in {"change_name", "change_dob"} => row.columns[ColumnOf(q)] = t
    /\ q.query = "change_email" => row.email = r.email
    /\ q.query = "change_password" => row.password = r.newPassword

Applied(db, w, t, r, q) ==
    /\ q.query \in AccountUpdates /\ db[Profile(r)].open =>
         Profile(r) \in DOMAIN w /\ Shows(db[Profile(r)], t, r, q)
    /\ q.query = "change_pfp" => Portrait(r) \in DOMAIN w /\ w[Portrait(r)].url = t

(* A row of the account in the transaction is open, and bears no mark that *)
(* the request did not ask for.                                            *)
Retouched(row, t, r) == row.open /\ \A c \in AccountColumns : row.columns[c] = t => c \in r.columns

Profiling(t) == Active(t) /\ req[t].op = "modify-account"

(* What a change of a profile has done so far.                             *)
Reshaping(t) ==
    LET r == req[t]
        w == writes[t]
    IN /\ pc[t] # "idle" /\ r.op = "modify-account" => Profile(r) \in DOMAIN store
       /\ Profiling(t) =>
            /\ Profile(r) \in DOMAIN w => Retouched(w[Profile(r)], t, r)
            /\ "change_pfp" \in returned[t] => r.picture
            /\ returned[t] \cap AccountUpdates # {} => Profile(r) \in DOMAIN w
            /\ \A i : Finished(t, i) => Applied(View(t), w, t, r, Build(r)[i])

ProfileInv == \A t \in Sessions : Reshaping(t)

(* What a change of a profile asks for, and the account that it sees.      *)
LEMMA ProfileKinds ==
    ASSUME SafeInv, ProfileInv, NEW t \in Sessions, Profiling(t)
    PROVE  LET r == req[t]
               k == Profile(r)
           IN /\ r \in Request /\ r \in ModifyAccountRequest /\ r.op = "modify-account"
              /\ k \in AccountKey /\ k \in Key /\ k \in Kept /\ Portrait(r) \in PictureKey /\ k # Portrait(r)
              /\ k \in DOMAIN store /\ k \in DOMAIN View(t) /\ View(t)[k] \in AccountRow
              /\ View(t)[k] = IF k \in DOMAIN writes[t] THEN writes[t][k] ELSE store[k]
<1> DEFINE r == req[t]
           k == Profile(r)
<1>0. TypeInv /\ TypeOK /\ VersionsInv /\ pc[t] # "idle"
  BY DEF SafeInv, TypeInv, Profiling, Active
<1>1. r \in Request /\ r.op = "modify-account"
  BY <1>0 DEF TypeInv, Position, Profiling
<1>2. r \in ModifyAccountRequest
  BY <1>1, RequestKinds DEF ModifyAccountRequest, CreateAccountRequest, CloseAccountRequest
<1>3. k \in AccountKey /\ k \in Key /\ k \in Kept /\ Portrait(r) \in PictureKey /\ k # Portrait(r)
  <2>1. r.actor \in AccountID
    BY <1>2 DEF ModifyAccountRequest
  <2> QED BY <2>1 DEF Profile, Portrait, AccountKey, PictureKey, Key, Kept
<1>4. k \in DOMAIN store
  BY <1>0, <1>1 DEF ProfileInv, Reshaping
<1>5. k \in DOMAIN View(t)
  BY <1>0, <1>3, <1>4, SeenFollows
<1>6. View(t)[k] \in RowOf(k)
  BY <1>0, <1>5, ViewType DEF IsDatabase
<1>7. View(t)[k] \in AccountRow
  BY <1>3, <1>6, RowKinds
<1> QED BY <1>0, <1>1, <1>2, <1>3, <1>4, <1>5, <1>7, ViewType

(* An account that a transaction has not written bears no mark of it.      *)
LEMMA NotYetShown ==
    ASSUME SafeInv, TraceInv, ProfileInv, NEW t \in Sessions, Profiling(t), Profile(req[t]) \notin DOMAIN writes[t],
           NEW c \in AccountColumns
    PROVE  View(t)[Profile(req[t])].columns[c] # t
<1> DEFINE k == Profile(req[t])
<1> SUFFICES ASSUME View(t)[k].columns[c] = t PROVE FALSE
  OBVIOUS
<1>1. k \in AccountKey /\ k \in DOMAIN store /\ View(t)[k] = store[k] /\ store[k] \in AccountRow
  BY ProfileKinds
<1>2. DOMAIN store[k].columns = AccountColumns
  BY <1>1 DEF AccountRow
<1>3. Marks(k, store[k], t)
  BY <1>1, <1>2 DEF Marks
<1>4. Settled(t)
  BY <1>1, <1>3 DEF TraceInv
<1> QED BY <1>4 DEF Settled, Profiling, Active
-----------------------------------------------------------------------------
(* The accounts that requests act for stay.                                *)
LEMMA ProfileStays ==
    ASSUME SafeInv, SafeInv', ProfileInv, NEW s \in Sessions, Execute(s) \/ Handle(s) \/ QueryFails(s), NEW t \in Sessions
    PROVE  pc'[t] # "idle" /\ req'[t].op = "modify-account" => Profile(req'[t]) \in DOMAIN store'
<1> SUFFICES ASSUME pc'[t] # "idle", req'[t].op = "modify-account" PROVE Profile(req'[t]) \in DOMAIN store'
  OBVIOUS
<1>0. TypeInv /\ TypeInv' /\ TypeOK /\ VersionsInv
  BY DEF SafeInv, TypeInv
<1>1. Profile(req'[t]) \in Kept
  <2>1. req'[t] \in ModifyAccountRequest
    BY <1>0, RequestKinds DEF TypeInv, Position, ModifyAccountRequest, CreateAccountRequest, CloseAccountRequest
  <2> QED BY <2>1 DEF ModifyAccountRequest, Profile, Kept, AccountKey
<1>2. Profile(req'[t]) \in DOMAIN store
  <2>1. CASE pc[t] # "idle"
    <3>1. req'[t] = req[t]
      BY <1>0, <2>1, RequestStays
    <3> QED BY <2>1, <3>1 DEF ProfileInv, Reshaping
  <2>2. CASE pc[t] = "idle"
    <3>1. t = s
      BY <1>0, <2>2, StepFrame
    <3>2. Execute(s)
      BY <1>0, <2>2, <3>1, Steps
         DEF StaysOutside, Fails, Chooses, PassesRow, WroteRow, LockedRow, Ends
    <3>3. req \in [Sessions -> Request \cup {Null}]
      BY <1>0 DEF TypeOK
    <3> QED BY <3>1, <3>2, <3>3 DEF Execute, Profile
  <2> QED BY <2>1, <2>2
<1>3. store' = View(s) \/ UNCHANGED store
  BY <1>0, Effects
<1> QED BY <1>0, <1>1, <1>2, <1>3, SeenFollows

(* What the others do leaves a change of a profile as it is, or closes the *)
(* account before it is touched.                                           *)
LEMMA OthersReshaping ==
    ASSUME SafeInv, SafeInv', AgreeInv, ProfileInv, NEW s \in Sessions, Execute(s) \/ Handle(s) \/ QueryFails(s),
           NEW t \in Sessions, t # s
    PROVE  Reshaping(t)'
<1> DEFINE r == req[t]
           w == writes[t]
           k == Profile(r)
<1>0. /\ TypeInv /\ pc'[t] = pc[t] /\ req'[t] = req[t] /\ returned'[t] = returned[t]
      /\ writes'[t] = writes[t] /\ step'[t] = step[t]
  BY StepFrame DEF SafeInv
<1>1. pc'[t] # "idle" /\ r.op = "modify-account" => k \in DOMAIN store'
  BY <1>0, ProfileStays
<1>2. ASSUME Profiling(t)
      PROVE  /\ k \in DOMAIN w => Retouched(w[k], t, r)
             /\ "change_pfp" \in returned[t] => r.picture
             /\ returned[t] \cap AccountUpdates # {} => k \in DOMAIN w
             /\ \A i : Finished(t, i) => Applied(View(t)', w, t, r, Build(r)[i])
  <2>1. /\ k \in DOMAIN w => Retouched(w[k], t, r)
        /\ "change_pfp" \in returned[t] => r.picture
        /\ returned[t] \cap AccountUpdates # {} => k \in DOMAIN w
        /\ \A i : Finished(t, i) => Applied(View(t), w, t, r, Build(r)[i])
    BY <1>2 DEF ProfileInv, Reshaping
  <2>2. k \in DOMAIN View(t) \cap Kept /\ k \in AccountKey /\ View(t)[k] \in AccountRow /\ pc'[t] # "done"
    BY <1>0, <1>2, ProfileKinds DEF Profiling, Active
  <2>3. k \in DOMAIN View(t)' /\ Follows(k, View(t)[k], View(t)'[k])
    BY <2>2, ViewStep DEF Later
  <2>4. View(t)'[k].open => View(t)[k].open
    BY <2>2, <2>3 DEF Follows
  <2>5. k \in DOMAIN w => View(t)'[k] = View(t)[k]
    <3>1. TypeOK /\ TypeOK'
      BY DEF SafeInv, TypeInv
    <3>2. k \in DOMAIN writes'[t] => View(t)'[k] = writes'[t][k]
      BY <2>3 DEF View
    <3> QED BY <1>0, <2>2, <3>1, <3>2, ViewType
  <2> HIDE DEF k, r, w
  <2>6. ASSUME NEW q, Applied(View(t), w, t, r, q) PROVE Applied(View(t)', w, t, r, q)
    BY <2>4, <2>5, <2>6 DEF Applied, k
  <2> QED BY <2>1, <2>6
<1> QED BY <1>0, <1>1, <1>2 DEF Reshaping, Profiling, Active, Finished

(* A change of a profile that has just begun has done nothing yet.         *)
LEMMA OutsideReshaping ==
    ASSUME SafeInv, SafeInv', OwnersInv, ProfileInv, NEW s \in Sessions, Execute(s) \/ Handle(s) \/ QueryFails(s),
           StaysOutside(s) \/ Fails(s) \/ Ends(s)
    PROVE  Reshaping(s)'
<1>0. TypeInv /\ TypeInv' /\ LocksExclusive
  BY DEF SafeInv, IInv
<1>1. pc'[s] # "idle" /\ req'[s].op = "modify-account" => Profile(req'[s]) \in DOMAIN store'
  BY ProfileStays
<1>2. CASE Fails(s) \/ Ends(s)
  BY <1>1, <1>2 DEF Reshaping, Profiling, Active, Fails, Ends
<1>3. CASE StaysOutside(s) /\ ~Active(s)'
  BY <1>1, <1>3 DEF Reshaping, Profiling
<1>4. CASE StaysOutside(s) /\ Active(s)'
  <2>1. pc[s] \in {"idle", "password", "store"} /\ pc'[s] = "query" /\ UNCHANGED <<store, writes, returned, step>>
    BY <1>4 DEF StaysOutside, Active
  <2>2. returned[s] = {} /\ step[s] = 1 /\ DOMAIN writes[s] = {}
    BY <1>0, <2>1 DEF OwnersInv, TypeInv, Position, LocksExclusive, InTransaction
  <2>3. ~\E i : Finished(s, i)'
    <3>1. Len(Build(req'[s])) \in Nat
      BY <1>0, <2>1, BuildElements DEF TypeInv, Position
    <3> QED BY <2>1, <2>2, <3>1 DEF Finished
  <2> QED BY <1>1, <2>1, <2>2, <2>3 DEF Reshaping, Profiling
<1> QED BY <1>2, <1>3, <1>4
-----------------------------------------------------------------------------
(* What one statement of a change of a profile makes of the account, next  *)
(* to what those before it made.                                           *)
LEMMA UpdatedShows ==
    ASSUME NEW old \in AccountRow, NEW t \in Sessions, NEW r, NEW q,
           q.query \in {"change_name", "change_email", "change_password", "change_dob"}
    PROVE  LET new == Updated(old, t, r, q)
           IN /\ new.open = old.open
              /\ Shows(new, t, r, q)
              /\ \A p : Shows(old, t, r, p) => Shows(new, t, r, p)
              /\ \A c \in AccountColumns : new.columns[c] = t =>
                   old.columns[c] = t \/ (q.query \in {"change_name", "change_dob"} /\ c = ColumnOf(q))
<1> DEFINE new == Updated(old, t, r, q)
<1>0. /\ old = [open |-> old.open, email |-> old.email, password |-> old.password, columns |-> old.columns]
      /\ DOMAIN old.columns = {"name", "dob"}
  BY DEF AccountRow, AccountColumns
<1>1. CASE q.query = "change_email"
  <2>1. new = [old EXCEPT !.email = r.email]
    BY <1>1 DEF Updated
  <2>2. new.open = old.open /\ new.email = r.email /\ new.password = old.password /\ new.columns = old.columns
    BY <1>0, <2>1
  <2> HIDE DEF new
  <2> QED BY <1>1, <2>2 DEF Shows, new
<1>2. CASE q.query = "change_password"
  <2>1. new = [old EXCEPT !.password = r.newPassword]
    BY <1>2 DEF Updated
  <2>2. new.open = old.open /\ new.email = old.email /\ new.password = r.newPassword /\ new.columns = old.columns
    BY <1>0, <2>1
  <2> HIDE DEF new
  <2> QED BY <1>2, <2>2 DEF Shows, new
<1>3. CASE q.query \in {"change_name", "change_dob"}
  <2>1. new = [old EXCEPT !.columns[ColumnOf(q)] = t] /\ ColumnOf(q) \in {"name", "dob"}
    BY <1>3 DEF Updated, ColumnOf
  <2>2. /\ new.open = old.open /\ new.email = old.email /\ new.password = old.password
        /\ new.columns = [old.columns EXCEPT ![ColumnOf(q)] = t]
    BY <1>0, <2>1
  <2>3. new.columns[ColumnOf(q)] = t
    BY <1>0, <2>1, <2>2
  <2>4. \A c \in {"name", "dob"} : new.columns[c] = IF c = ColumnOf(q) THEN t ELSE old.columns[c]
    BY <1>0, <2>2
  <2>5. \A p : p.query \in {"change_name", "change_dob"} => ColumnOf(p) \in {"name", "dob"}
    BY DEF ColumnOf
  <2> HIDE DEF new
  <2>6. Shows(new, t, r, q)
    BY <1>3, <2>3 DEF Shows
  <2>7. ASSUME NEW p, Shows(old, t, r, p) PROVE Shows(new, t, r, p)
    BY <2>2, <2>4, <2>5, <2>7 DEF Shows
  <2> QED BY <1>3, <2>2, <2>4, <2>6, <2>7 DEF AccountColumns, new
<1> QED BY <1>1, <1>2, <1>3

(* After one more row or statement, a change of a profile is as it should  *)
(* be if what the step wrote is.                                           *)
LEMMA GoesReshaping ==
    ASSUME SafeInv, SafeInv', ProfileInv, NEW s \in Sessions, Profiling(s), Execute(s) \/ Handle(s) \/ QueryFails(s),
           UNCHANGED req, pc[s] \in {"query", "rows"},
           NEW rest, NEW names, Goes(s, rest, names),
           Profile(req[s]) \in DOMAIN writes'[s] => Retouched(writes'[s][Profile(req[s])], s, req[s]),
           "change_pfp" \in names => req[s].picture,
           names \cap AccountUpdates # {} => Profile(req[s]) \in DOMAIN writes'[s],
           DOMAIN writes[s] \subseteq DOMAIN writes'[s],
           \A i : Finished(s, i) => Applied(View(s)', writes'[s], s, req[s], Build(req[s])[i]),
           rest = {} => Applied(View(s)', writes'[s], s, req[s], Statement(s))
    PROVE  Reshaping(s)'
<1> DEFINE r == req[s]
           b == Build(r)
           n == step[s]
<1>0. /\ r \in Request /\ n \in 1..Len(b) /\ Len(b) \in Nat /\ Statement(s) = b[n] /\ req'[s] = r
      /\ returned'[s] = returned[s] \cup names /\ pc[s] # "commit"
  <2>1. r \in Request /\ n \in 1..Len(b)
    BY DEF SafeInv, TypeInv, Position
  <2> QED BY <2>1, BuildElements DEF Statement, Goes
<1>1. pc'[s] # "idle" /\ req'[s].op = "modify-account" => Profile(req'[s]) \in DOMAIN store'
  BY ProfileStays
<1>2. /\ "change_pfp" \in returned[s] => r.picture
      /\ returned[s] \cap AccountUpdates # {} => Profile(r) \in DOMAIN writes[s]
  BY DEF ProfileInv, Reshaping
<1> HIDE DEF r, b, n
<1>3. ASSUME NEW i \in 1..Len(b), i < step'[s] \/ pc'[s] = "commit"
      PROVE  Applied(View(s)', writes'[s], s, r, b[i])
  <2>1. CASE i < n
    <3>1. Finished(s, i)
      BY <2>1 DEF Finished, b, r, n
    <3> QED BY <3>1 DEF r, b
  <2>2. CASE ~(i < n)
    <3>1. i = n /\ rest = {}
      <4>1. CASE rest # {} /\ pc'[s] = "rows" /\ step'[s] = step[s]
        BY <1>3, <2>2, <4>1 DEF n
      <4>2. CASE rest = {} /\ pc'[s] = "query" /\ step'[s] = step[s] + 1
        BY <1>0, <1>3, <2>2, <4>2 DEF n
      <4>3. CASE rest = {} /\ step[s] = Len(Build(req[s])) /\ pc'[s] = "commit"
        BY <1>0, <1>3, <2>2, <4>3 DEF n, b, r
      <4> QED BY <4>1, <4>2, <4>3 DEF Goes
    <3> QED BY <1>0, <3>1 DEF r
  <2> QED BY <2>1, <2>2
<1>4. (\A i : Finished(s, i) => Applied(View(s), writes[s], s, req[s], Build(req[s])[i]))'
  BY <1>0, <1>3 DEF Finished, b
<1>5. /\ "change_pfp" \in returned'[s] => r.picture
      /\ returned'[s] \cap AccountUpdates # {} => Profile(r) \in DOMAIN writes'[s]
  BY <1>0, <1>2 DEF r
<1>6. Profile(r) \in DOMAIN writes'[s] => Retouched(writes'[s][Profile(r)], s, r)
  BY DEF r
<1> QED BY <1>0, <1>1, <1>4, <1>5, <1>6 DEF Reshaping

(* A statement that finds no row: the account is closed. *)
LEMMA ChoosesReshaping ==
    ASSUME SafeInv, SafeInv', ProfileInv, NEW s \in Sessions, Profiling(s), Execute(s) \/ Handle(s) \/ QueryFails(s),
           Chooses(s)
    PROVE  Reshaping(s)'
<1> DEFINE r == req[s]
           q == Statement(s)
           db == View(s)
           k == Profile(r)
           C == Chosen(db, s, r, q)
           chosen == {<<j, Lookup(db, j)>> : j \in C}
<1>0. /\ pc[s] = "query" /\ UNCHANGED <<req, writes>> /\ Goes(s, chosen, {}) /\ View(s)' = db
  BY DEF Chooses, View
<1>1. k \in DOMAIN db
  BY ProfileKinds
<1>2. ASSUME chosen = {} PROVE Applied(db, writes[s], s, r, q)
  <2>1. C = {}
    <3> SUFFICES ASSUME NEW j \in C PROVE FALSE
      OBVIOUS
    <3>1. <<j, Lookup(db, j)>> \in chosen
      OBVIOUS
    <3> QED BY <1>2, <3>1
  <2>2. ASSUME q.query \in AccountUpdates, db[k].open PROVE FALSE
    <3>1. q.query \notin Inserts
      BY <2>2 DEF AccountUpdates, Inserts, Upserts, PlainInserts
    <3>2. Selects(db, r, q, k)
      BY <2>2 DEF Selects, Profile, AccountUpdates, ListingUpdates
    <3>3. k \in C
      BY <1>1, <3>1, <3>2 DEF Chosen
    <3> QED BY <2>1, <3>3
  <2>3. q.query # "change_pfp"
    BY <2>1 DEF Chosen, SelectsSource, Inserts, Upserts
  <2> HIDE DEF r, q, db
  <2> QED BY <2>2, <2>3 DEF Applied, k
<1>3. /\ k \in DOMAIN writes[s] => Retouched(writes[s][k], s, r)
      /\ \A i : Finished(s, i) => Applied(db, writes[s], s, r, Build(r)[i])
  BY DEF ProfileInv, Reshaping
<1>4. writes'[s] = writes[s] /\ pc[s] \in {"query", "rows"}
  BY <1>0
<1> HIDE DEF r, q, db, chosen, C
<1> QED BY <1>0, <1>2, <1>3, <1>4, GoesReshaping DEF r, q, db, k

(* A row that it passes over is that of a closed account. *)
LEMMA PassesReshaping ==
    ASSUME SafeInv, SafeInv', ProfileInv, NEW s \in Sessions, Profiling(s), Execute(s) \/ Handle(s) \/ QueryFails(s),
           PassesRow(s)
    PROVE  Reshaping(s)'
<1> DEFINE r == req[s]
           q == Statement(s)
           db == View(s)
           k == Profile(r)
           rest == todo[s] \ {cur[s]}
<1>0. /\ pc[s] = "rows" /\ UNCHANGED <<req, writes>> /\ Goes(s, rest, {}) /\ Skips(s)
      /\ View(s)' = db /\ TypeInv /\ IsDatabase(db)
  BY ViewType DEF PassesRow, View, SafeInv, TypeInv
<1>1. k \in DOMAIN db /\ k \in AccountKey /\ r.op = "modify-account"
  BY ProfileKinds
<1>2. q \in StatementOf(r) /\ cur[s][1] \in Aims(s, r, q)
  BY <1>0, StatementType DEF TypeInv, Position, Visits
<1>3. q.query \notin Inserts
  <2>1. q.query # "create_account"
    BY <1>1, <1>2 DEF StatementOf, Names
  <2> QED BY <1>0, <2>1 DEF Skips
<1>4. q.query \in AccountUpdates
  BY <1>1, <1>2, <1>3 DEF StatementOf, Names, Inserts, Upserts, AccountUpdates
<1>5. cur[s][1] = k
  BY <1>2, <1>3, <1>4 DEF Aims, Profile
<1>6. ~Gone(s)
  <2>1. k \notin SavedListingKey \cup MediaKey
    BY <1>1, KeyKinds DEF Key
  <2> QED BY <1>0, <1>1, <1>5, <2>1, LookupType DEF Gone
<1>7. ~db[k].open
  BY <1>0, <1>3, <1>4, <1>5, <1>6 DEF Skips, StillSelects
<1>8. q.query # "change_pfp"
  BY <1>4 DEF AccountUpdates
<1>9. /\ k \in DOMAIN writes[s] => Retouched(writes[s][k], s, r)
      /\ \A i : Finished(s, i) => Applied(db, writes[s], s, r, Build(r)[i])
  BY DEF ProfileInv, Reshaping
<1> HIDE DEF r, q, db, rest
<1>10. Applied(db, writes[s], s, r, q)
  BY <1>7, <1>8 DEF Applied
<1>11. writes'[s] = writes[s] /\ pc[s] \in {"query", "rows"}
  BY <1>0
<1> QED BY <1>0, <1>9, <1>10, <1>11, GoesReshaping DEF r, q, db, k

(* The picture is the one that change_pfp stores. *)
LEMMA PictureReshaping ==
    ASSUME SafeInv, SafeInv', ProfileInv, NEW s \in Sessions, Profiling(s), Execute(s) \/ Handle(s) \/ QueryFails(s),
           WroteRow(s), Statement(s).query = "change_pfp"
    PROVE  Reshaping(s)'
<1> DEFINE r == req[s]
           q == Statement(s)
           db == View(s)
           k == Profile(r)
           row == Written(db, s, r, q, Portrait(r))
           rest == todo[s] \ {cur[s]}
           names == {q.query} \ Unreturning
<1>0. /\ pc[s] = "rows" /\ UNCHANGED <<req, store>> /\ Goes(s, rest, names) /\ ~Skips(s) /\ Writes(s)
      /\ TypeInv /\ TypeInv' /\ q.query \in Inserts
  BY DEF WroteRow, SafeInv, Inserts, Upserts
<1>1. k \in DOMAIN db /\ k # Portrait(r) /\ r \in Request /\ r.op = "modify-account"
  BY ProfileKinds
<1>2. cur[s][1] = Portrait(r)
  BY <1>0, RowAt DEF InsertedKey, Portrait
<1>3. Puts(s, Portrait(r), row)
  BY <1>0, <1>2 DEF Writes
<1>4. row.url = s
  <2>1. row = [born |-> IF Portrait(r) \in DOMAIN db THEN db[Portrait(r)].born ELSE s, url |-> s]
    BY <1>0 DEF Written, Inserted
  <2> QED BY <2>1
<1> HIDE DEF row
<1>5. /\ DOMAIN writes'[s] = DOMAIN writes[s] \cup {Portrait(r)}
      /\ writes'[s][Portrait(r)] = row
      /\ \A j \in DOMAIN writes[s] : j # Portrait(r) => writes'[s][j] = writes[s][j]
  BY <1>0, <1>3, PutsOne
<1>6. View(s)'[k] = db[k]
  BY <1>0, <1>1, <1>3, WrittenView
<1>7. r.picture
  <2>1. step[s] \in 1..Len(Build(r))
    BY <1>0 DEF TypeInv, Position
  <2>2. Asks(r, q.query)
    BY <1>1, <2>1, ProfileLists DEF Statement
  <2> QED BY <2>2 DEF Asks
<1>8. /\ k \in DOMAIN writes[s] => Retouched(writes[s][k], s, r)
      /\ \A i : Finished(s, i) => Applied(db, writes[s], s, r, Build(r)[i])
  BY DEF ProfileInv, Reshaping
<1>9. k \in DOMAIN writes'[s] => Retouched(writes'[s][k], s, r)
  BY <1>1, <1>5, <1>8
<1>10. names \cap AccountUpdates = {}
  BY DEF AccountUpdates
<1>11. Applied(View(s)', writes'[s], s, r, q)
  BY <1>4, <1>5 DEF Applied, AccountUpdates
<1> HIDE DEF q
<1>12. ASSUME NEW i, Finished(s, i) PROVE Applied(View(s)', writes'[s], s, r, Build(r)[i])
  <2>1. Applied(db, writes[s], s, r, Build(r)[i])
    BY <1>8, <1>12
  <2> HIDE DEF db, r
  <2> QED BY <1>4, <1>5, <1>6, <2>1 DEF Applied, k
<1> HIDE DEF r, db, rest, names
<1>13. pc[s] \in {"query", "rows"} /\ DOMAIN writes[s] \subseteq DOMAIN writes'[s] /\ UNCHANGED req
  BY <1>0, <1>5
<1> QED BY <1>0, <1>7, <1>9, <1>10, <1>11, <1>12, <1>13, GoesReshaping DEF r, q, db, k

(* The account gets what the statement sets, and keeps what it had. *)
LEMMA AccountReshaping ==
    ASSUME SafeInv, SafeInv', TraceInv, ProfileInv, NEW s \in Sessions, Profiling(s),
           Execute(s) \/ Handle(s) \/ QueryFails(s), WroteRow(s), Statement(s).query # "change_pfp"
    PROVE  Reshaping(s)'
<1> DEFINE r == req[s]
           q == Statement(s)
           db == View(s)
           k == Profile(r)
           old == db[k]
           row == Updated(old, s, r, q)
           rest == todo[s] \ {cur[s]}
           names == {q.query} \ Unreturning
<1>0. /\ pc[s] = "rows" /\ UNCHANGED <<req, store>> /\ Goes(s, rest, names) /\ ~Skips(s) /\ Writes(s)
      /\ TypeInv /\ TypeInv'
  BY DEF WroteRow, SafeInv
<1>1. /\ k \in DOMAIN db /\ k # Portrait(r) /\ r \in Request /\ r.op = "modify-account" /\ old \in AccountRow
      /\ old = IF k \in DOMAIN writes[s] THEN writes[s][k] ELSE store[k]
  BY ProfileKinds
<1>2. q.query \in {"change_name", "change_email", "change_password", "change_dob"}
  <2>1. q \in StatementOf(r)
    BY <1>0, StatementType
  <2> QED BY <1>1, <2>1 DEF StatementOf, Names
<1>3. q.query \in AccountUpdates /\ q.query \notin Inserts
  BY <1>2 DEF AccountUpdates, Inserts, Upserts, PlainInserts
<1>4. cur[s][1] = k /\ old.open
  <2>1. cur[s][1] = k
    BY <1>0, <1>3, RowAt DEF Aims, Profile
  <2>2. StillSelects(q, old)
    BY <1>0, <1>3, <2>1, RowAt
  <2> QED BY <1>3, <2>1, <2>2 DEF StillSelects
<1>5. Puts(s, k, row)
  BY <1>0, <1>3, <1>4 DEF Writes, Written
<1>6. /\ row.open = old.open
      /\ Shows(row, s, r, q)
      /\ \A p : Shows(old, s, r, p) => Shows(row, s, r, p)
      /\ \A c \in AccountColumns : row.columns[c] = s =>
           old.columns[c] = s \/ (q.query \in {"change_name", "change_dob"} /\ c = ColumnOf(q))
  BY <1>1, <1>2, UpdatedShows
<1>7. row # NoRow
  <2>1. cur[s][1] \in Kept
    BY <1>4, ProfileKinds
  <2>2. PICK x : Puts(s, cur[s][1], x) /\ x # NoRow
    BY <1>0, <2>1, RowLeft
  <2>3. writes'[s][k] = x
    BY <1>0, <1>4, <2>2, PutsOne
  <2>4. writes'[s][k] = row
    BY <1>0, <1>5, PutsOne
  <2> QED BY <2>2, <2>3, <2>4
<1> HIDE DEF row, old
<1>8. /\ DOMAIN writes'[s] = DOMAIN writes[s] \cup {k}
      /\ writes'[s][k] = row
      /\ \A j \in DOMAIN writes[s] : j # k => writes'[s][j] = writes[s][j]
  BY <1>0, <1>5, PutsOne
<1>9. View(s)'[k] = row
  BY <1>0, <1>5, <1>7, WrittenView
<1>10. \A c \in AccountColumns : old.columns[c] = s => c \in r.columns
  <2>1. CASE k \in DOMAIN writes[s]
    BY <1>1, <2>1 DEF ProfileInv, Reshaping, Retouched
  <2>2. CASE k \notin DOMAIN writes[s]
    BY <2>2, NotYetShown DEF old
  <2> QED BY <2>1, <2>2
<1>11. \A c \in AccountColumns : q.query \in {"change_name", "change_dob"} /\ c = ColumnOf(q) => c \in r.columns
  <2>1. step[s] \in 1..Len(Build(r))
    BY <1>0 DEF TypeInv, Position
  <2>2. Asks(r, q.query)
    BY <1>1, <2>1, ProfileLists DEF Statement
  <2> QED BY <2>2 DEF Asks, ColumnOf
<1>12. Retouched(writes'[s][k], s, r)
  BY <1>4, <1>6, <1>8, <1>10, <1>11 DEF Retouched
<1>13. \A i : Finished(s, i) => Applied(db, writes[s], s, r, Build(r)[i])
  BY DEF ProfileInv, Reshaping
<1>14. Applied(View(s)', writes'[s], s, r, q)
  BY <1>2, <1>6, <1>8, <1>9 DEF Applied
<1>15. "change_pfp" \notin names
  BY <1>2
<1> HIDE DEF q
<1>16. ASSUME NEW i, Finished(s, i) PROVE Applied(View(s)', writes'[s], s, r, Build(r)[i])
  <2>1. Applied(db, writes[s], s, r, Build(r)[i])
    BY <1>13, <1>16
  <2> HIDE DEF db, r
  <2> QED BY <1>1, <1>4, <1>6, <1>8, <1>9, <2>1 DEF Applied, k, old
<1> HIDE DEF r, db, rest, names
<1>17. pc[s] \in {"query", "rows"} /\ DOMAIN writes[s] \subseteq DOMAIN writes'[s] /\ UNCHANGED req /\ k \in DOMAIN writes'[s]
  BY <1>0, <1>8
<1> QED BY <1>0, <1>12, <1>14, <1>15, <1>16, <1>17, GoesReshaping DEF r, q, db, k

(* change_email locks the account as it is. *)
LEMMA LocksReshaping ==
    ASSUME SafeInv, SafeInv', TraceInv, ProfileInv, NEW s \in Sessions, Profiling(s),
           Execute(s) \/ Handle(s) \/ QueryFails(s), LockedRow(s)
    PROVE  Reshaping(s)'
<1> DEFINE r == req[s]
           q == Statement(s)
           db == View(s)
           k == Profile(r)
<1>0. /\ pc[s] = "rows" /\ UNCHANGED <<store, req, pc, step, returned>> /\ ~Skips(s) /\ LocksRow(s)
      /\ q.query = "change_email" /\ TypeInv /\ TypeInv'
  BY DEF LockedRow, SafeInv
<1>1. q.query \in AccountUpdates /\ q.query \notin Inserts
  BY <1>0 DEF AccountUpdates, Inserts, Upserts, PlainInserts
<1>2. cur[s][1] = k /\ db[k].open
  <2>1. cur[s][1] = k
    BY <1>0, <1>1, RowAt DEF Aims, Profile
  <2>2. StillSelects(q, db[k])
    BY <1>0, <1>1, <2>1, RowAt
  <2> QED BY <1>1, <2>1, <2>2 DEF StillSelects
<1>3. Puts(s, k, db[k])
  BY <1>0, <1>2 DEF LocksRow
<1>4. /\ k \in DOMAIN db /\ k # Portrait(r) /\ db[k] \in AccountRow
      /\ db[k] = IF k \in DOMAIN writes[s] THEN writes[s][k] ELSE store[k]
      /\ k \in AccountKey /\ k \in Key
  BY ProfileKinds
<1>5. db[k] # NoRow
  BY <1>4, RowsAreRows, RowKinds, MarketplaceAssumption
<1>6. /\ DOMAIN writes'[s] = DOMAIN writes[s] \cup {k}
      /\ writes'[s][k] = db[k]
      /\ \A j \in DOMAIN writes[s] : j # k => writes'[s][j] = writes[s][j]
  BY <1>0, <1>3, PutsOne
<1>7. View(s)'[k] = db[k]
  BY <1>0, <1>3, <1>5, WrittenView
<1>8. \A c \in AccountColumns : db[k].columns[c] = s => c \in r.columns
  <2>1. CASE k \in DOMAIN writes[s]
    BY <1>4, <2>1 DEF ProfileInv, Reshaping, Retouched
  <2>2. CASE k \notin DOMAIN writes[s]
    BY <2>2, NotYetShown
  <2> QED BY <2>1, <2>2
<1> HIDE DEF db, r
<1>9. Retouched(writes'[s][k], s, r)
  BY <1>2, <1>6, <1>8 DEF Retouched
<1>10. ASSUME NEW i, Finished(s, i) PROVE Applied(View(s)', writes'[s], s, r, Build(r)[i])
  <2>1. Applied(db, writes[s], s, r, Build(r)[i])
    BY <1>10 DEF ProfileInv, Reshaping, db, r
  <2> QED BY <1>4, <1>6, <1>7, <2>1 DEF Applied, k
<1>11. pc'[s] # "idle" /\ req'[s].op = "modify-account" => Profile(req'[s]) \in DOMAIN store'
  BY ProfileStays
<1>12. "change_pfp" \in returned[s] => r.picture
  BY DEF ProfileInv, Reshaping, r
<1>13. (\A i : Finished(s, i) => Applied(View(s), writes[s], s, req[s], Build(req[s])[i]))'
  BY <1>0, <1>10 DEF Finished, r
<1> QED BY <1>0, <1>6, <1>9, <1>11, <1>12, <1>13 DEF Reshaping, r

(* Every step of a session keeps its own change of a profile as it is to be. *)
LEMMA OwnReshaping ==
    ASSUME SafeInv, SafeInv', OwnersInv, TraceInv, ProfileInv,
           NEW s \in Sessions, Execute(s) \/ Handle(s) \/ QueryFails(s)
    PROVE  Reshaping(s)'
<1>0. TypeInv
  BY DEF SafeInv
<1>1. CASE StaysOutside(s) \/ Fails(s) \/ Ends(s)
  BY <1>1, OutsideReshaping
<1>2. CASE (Chooses(s) \/ PassesRow(s) \/ WroteRow(s) \/ LockedRow(s)) /\ Profiling(s)
  <2>1. CASE Chooses(s)
    BY <1>2, <2>1, ChoosesReshaping
  <2>2. CASE PassesRow(s)
    BY <1>2, <2>2, PassesReshaping
  <2>3. CASE WroteRow(s)
    BY <1>2, <2>3, PictureReshaping, AccountReshaping
  <2>4. CASE LockedRow(s)
    BY <1>2, <2>4, LocksReshaping
  <2> QED BY <1>2, <2>1, <2>2, <2>3, <2>4
<1>3. CASE (Chooses(s) \/ PassesRow(s) \/ WroteRow(s) \/ LockedRow(s)) /\ ~Profiling(s)
  <2>1. UNCHANGED req /\ pc[s] \in {"query", "rows"}
    BY <1>3 DEF Chooses, PassesRow, WroteRow, LockedRow
  <2>2. req'[s].op # "modify-account"
    BY <1>3, <2>1 DEF Profiling, Active
  <2> QED BY <2>2 DEF Reshaping, Profiling
<1> QED BY <1>0, <1>1, <1>2, <1>3, Steps

(* What a change of a profile has done so far, at any point: the invariant *)
(* that ProfileChangeIsWhole rests on.                                     *)
THEOREM ProfileIsInvariant == SafetySpec => []ProfileInv
<1>1. Init => ProfileInv
  BY DEF Init, ProfileInv, Reshaping, Profiling, Active
<1>2. (SafeInv /\ SafeInv' /\ AgreeInv /\ OwnersInv /\ TraceInv /\ ProfileInv /\ [Next]_vars) => ProfileInv'
  <2> SUFFICES ASSUME SafeInv, SafeInv', AgreeInv, OwnersInv, TraceInv, ProfileInv, [Next]_vars PROVE ProfileInv'
    OBVIOUS
  <2>1. CASE UNCHANGED vars
    <3> SUFFICES ASSUME NEW t \in Sessions PROVE Reshaping(t)'
      BY DEF ProfileInv
    <3>1. View(t)' = View(t)
      BY <2>1 DEF vars, View
    <3> QED BY <2>1, <3>1 DEF vars, ProfileInv, Reshaping, Profiling, Active, Finished
  <2>2. ASSUME NEW s \in Sessions, Execute(s) \/ Handle(s) \/ QueryFails(s) PROVE ProfileInv'
    BY <2>2, OwnReshaping, OthersReshaping DEF ProfileInv
  <2> QED BY <2>1, <2>2 DEF Next, Terminating
<1> QED BY <1>1, <1>2, SafeIsInvariant, AgreeIsInvariant, OwnersIsInvariant, TraceIsInvariant, PTL DEF SafetySpec

(* At its COMMIT, a change of a profile that has something to show was     *)
(* applied as a whole, or found the account closed.                        *)
LEMMA CommittedProfile ==
    ASSUME SafeInv, TraceInv, ProfileInv, ProgressInv, NEW s \in Sessions, Profiling(s), pc[s] = "commit",
           returned[s] # {}
    PROVE  LET r == req[s]
               account == View(s)[Profile(r)]
               applied == {c \in AccountColumns : account.columns[c] = s}
           IN /\ r.picture => View(s)[Portrait(r)].url = s
              /\ \/ /\ account.open /\ applied = r.columns
                    /\ r.email # Null => account.email = r.email
                    /\ r.newPassword # Null => account.password = r.newPassword
                 \/ ~account.open /\ applied = {} /\ r.picture
<1> DEFINE r == req[s]
           b == Build(r)
           k == Profile(r)
           account == View(s)[k]
           applied == {c \in AccountColumns : account.columns[c] = s}
<1>0. /\ TypeInv /\ TypeOK /\ r \in Request /\ r.op = "modify-account" /\ r.columns \subseteq AccountColumns
      /\ k \in DOMAIN View(s) /\ account = IF k \in DOMAIN writes[s] THEN writes[s][k] ELSE store[k]
      /\ Portrait(r) \in PictureKey
  BY ProfileKinds DEF SafeInv, TypeInv, ModifyAccountRequest
<1>1. ASSUME NEW name, Asks(r, name)
      PROVE  \E q : q.query = name /\ Applied(View(s), writes[s], s, r, q)
  <2>1. PICK i \in 1..Len(b) : b[i] = Named(name, 0)
    BY <1>0, <1>1, ProfileLists
  <2>2. Finished(s, i)
    BY DEF Finished
  <2>3. Applied(View(s), writes[s], s, r, b[i])
    BY <2>2 DEF ProfileInv, Reshaping
  <2>4. b[i].query = name
    BY <2>1 DEF Named
  <2> QED BY <2>3, <2>4
<1> HIDE DEF applied, account, r, b
<1>2. ASSUME r.picture PROVE View(s)[Portrait(r)].url = s
  <2>1. PICK q : q.query = "change_pfp" /\ Applied(View(s), writes[s], s, r, q)
    BY <1>1, <1>2 DEF Asks
  <2>2. Portrait(r) \in DOMAIN writes[s] /\ writes[s][Portrait(r)].url = s
    BY <2>1 DEF Applied
  <2>3. Portrait(r) \in Kept
    BY <1>0 DEF Kept
  <2>4. writes[s][Portrait(r)] # NoRow
    BY <2>2, <2>3 DEF SafeInv, VersionsInv
  <2>5. View(s)[Portrait(r)] = writes[s][Portrait(r)]
    BY <1>0, <2>2, <2>4, ViewType
  <2> QED BY <2>2, <2>5
<1>3. ASSUME account.open
      PROVE  /\ applied = r.columns
             /\ r.email # Null => account.email = r.email
             /\ r.newPassword # Null => account.password = r.newPassword
  <2>1. ASSUME NEW name \in AccountUpdates, Asks(r, name)
        PROVE  \E q : q.query = name /\ Shows(account, s, r, q)
    <3>1. PICK q : q.query = name /\ Applied(View(s), writes[s], s, r, q)
      BY <1>1, <2>1
    <3> QED BY <1>3, <3>1 DEF Applied, account
  <2>2. {"change_name", "change_dob", "change_email", "change_password"} \subseteq AccountUpdates
    BY DEF AccountUpdates
  <2>3. r.email # Null => account.email = r.email
    BY <2>1, <2>2 DEF Asks, Shows
  <2>4. r.newPassword # Null => account.password = r.newPassword
    BY <2>1, <2>2 DEF Asks, Shows
  <2>5. "name" \in r.columns => account.columns["name"] = s
    <3> SUFFICES ASSUME "name" \in r.columns PROVE account.columns["name"] = s
      OBVIOUS
    <3>1. PICK q : q.query = "change_name" /\ Shows(account, s, r, q)
      BY <2>1, <2>2 DEF Asks
    <3> QED BY <3>1 DEF Shows, ColumnOf
  <2>6. "dob" \in r.columns => account.columns["dob"] = s
    <3> SUFFICES ASSUME "dob" \in r.columns PROVE account.columns["dob"] = s
      OBVIOUS
    <3>1. PICK q : q.query = "change_dob" /\ Shows(account, s, r, q)
      BY <2>1, <2>2 DEF Asks
    <3> QED BY <3>1 DEF Shows, ColumnOf
  <2>7. ASSUME NEW c \in AccountColumns, account.columns[c] = s PROVE c \in r.columns
    <3>1. CASE k \in DOMAIN writes[s]
      BY <1>0, <2>7, <3>1 DEF ProfileInv, Reshaping, Retouched, r
    <3>2. CASE k \notin DOMAIN writes[s]
      BY <2>7, <3>2, NotYetShown DEF account, r
    <3> QED BY <3>1, <3>2
  <2>8. applied = r.columns
    BY <1>0, <2>5, <2>6, <2>7 DEF applied, AccountColumns
  <2> QED BY <2>3, <2>4, <2>8
<1>4. ASSUME ~account.open PROVE applied = {} /\ r.picture
  <2>1. k \notin DOMAIN writes[s]
    BY <1>0, <1>4 DEF ProfileInv, Reshaping, Retouched, r
  <2>2. applied = {}
    BY <2>1, NotYetShown DEF account, applied, r
  <2>3. returned[s] \subseteq AccountUpdates \cup {"change_pfp"}
    <3>1. pc[s] # "idle"
      OBVIOUS
    <3>2. returned[s] \subseteq Names(r.op)
      BY <3>1 DEF ProgressInv, Progress, r
    <3> QED BY <1>0, <3>2 DEF Names, AccountUpdates
  <2>4. returned[s] \cap AccountUpdates = {}
    BY <2>1 DEF ProfileInv, Reshaping, r
  <2>5. "change_pfp" \in returned[s]
    BY <2>3, <2>4
  <2>6. r.picture
    BY <2>5 DEF ProfileInv, Reshaping, r
  <2> QED BY <2>2, <2>6
<1>5. account.open \/ ~account.open
  OBVIOUS
<1> QED BY <1>2, <1>3, <1>4, <1>5 DEF r, account, applied

(* All or nothing, for a change of a profile: one that is accepted was     *)
(* applied as a whole, or came too late for everything but the picture.    *)
THEOREM ProfileStaysWhole == Spec => ProfileChangeIsWhole
<1> DEFINE account(s) == store'[<<"account", req[s].actor>>]
           applied(s) == {c \in AccountColumns : account(s).columns[c] = s}
           AllOf(s) ==
             (Accepted(s)' /\ ~Answered(s) /\ req[s].op = "modify-account") =>
               /\ req[s].picture => store'[<<"picture", req[s].actor>>].url = s
               /\ \/ /\ account(s).open /\ applied(s) = req[s].columns
                     /\ req[s].email # Null => account(s).email = req[s].email
                     /\ req[s].newPassword # Null => account(s).password = req[s].newPassword
                  \/ ~account(s).open /\ applied(s) = {} /\ req[s].picture
           WholeStep == \A s \in Sessions : AllOf(s)
<1>1. (SafeInv /\ SafeInv' /\ OutcomeInv /\ ProgressInv /\ TraceInv /\ ProfileInv /\ [Next]_vars) => [WholeStep]_vars
  <2> SUFFICES ASSUME SafeInv, SafeInv', OutcomeInv, ProgressInv, TraceInv, ProfileInv, [Next]_vars, NEW s \in Sessions,
                      Accepted(s)', ~Answered(s), req[s].op = "modify-account"
               PROVE  /\ req[s].picture => store'[<<"picture", req[s].actor>>].url = s
                      /\ \/ /\ account(s).open /\ applied(s) = req[s].columns
                            /\ req[s].email # Null => account(s).email = req[s].email
                            /\ req[s].newPassword # Null => account(s).password = req[s].newPassword
                         \/ ~account(s).open /\ applied(s) = {} /\ req[s].picture
    OBVIOUS
  <2>1. TypeInv /\ TypeInv'
    BY DEF SafeInv
  <2>2. pc[s] = "commit" /\ store' = View(s) /\ returned[s] # {}
    <3>1. pc[s] = "commit" /\ store' = View(s) /\ ~(returned[s] \subseteq DropFromResults(req[s].op))
      BY <2>1, AcceptedCommits
    <3> QED BY <3>1
  <2>3. Profiling(s)
    BY <2>2 DEF Profiling, Active
  <2> QED BY <2>2, <2>3, CommittedProfile DEF Profile, Portrait
<1> QED BY <1>1, SafeIsInvariant, OutcomeIsInvariant, ProgressIsInvariant, TraceIsInvariant, ProfileIsInvariant, PTL
       DEF Spec, SafetySpec, ProfileChangeIsWhole
=============================================================================
