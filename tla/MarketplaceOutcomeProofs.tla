---------------------- MODULE MarketplaceOutcomeProofs ----------------------
(***************************************************************************)
(* What the answers of module Marketplace promise about the database, for  *)
(* any sessions, menu, database and pool: a listing is given away once; a  *)
(* request that is accepted has made all that it asked for, and what it    *)
(* closed stays closed; the database bears the marks of granted requests   *)
(* only.  And so the marketplace is the exchange of module Exchange: only  *)
(* a COMMIT changes what the members see, DealInv bounds what it may       *)
(* bring, and Knows, Progress and Trace tie that to the answer.            *)
(***************************************************************************)
EXTENDS MarketplaceSafetyProofs

(* The listing that a close-listing request is about, closed by it. *)
Target(s) == <<"listing", req[s].listing>>
Closes(s) == pc[s] # "idle" /\ req[s].op = "close-listing"
Took(s) == "close_listing" \in returned[s]
ClosedFor(s, row) == ~row.open /\ row.receiver = req[s].receiver

(* A request that was granted: its transaction has committed something     *)
(* that counts, and it was answered so, or its acknowledgement was lost.   *)
Unheard(s) == error[s] = "Unacknowledged" /\ PrepareResults(req[s].op, returned[s]) = "null"
Settled(s) == pc[s] = "done" /\ (error[s] = "null" \/ Unheard(s))
Won(s) == Closes(s) /\ Settled(s)

(* What session s knows: nothing has returned before its transaction, and  *)
(* a transaction that is rolled back has an error.  The close_listing of a *)
(* close-listing request has returned just if its transaction holds the    *)
(* listing, which stays open for the others until it commits.              *)
Knows(s) ==
    /\ pc[s] \in {"idle", "password", "store"} => returned[s] = {}
    /\ pc[s] = "rollback" => error[s] \notin {"null", "Unacknowledged"}
    /\ Closes(s) =>
         /\ returned[s] \subseteq {"close_listing"}
         /\ pc[s] \in {"query", "rows", "commit"} =>
              /\ Took(s) => /\ Target(s) \in DOMAIN store /\ store[Target(s)].open
                            /\ Target(s) \in DOMAIN writes[s] /\ ClosedFor(s, writes[s][Target(s)])
              /\ ~Took(s) => Target(s) \notin DOMAIN writes[s]
         /\ Won(s) => Target(s) \in DOMAIN store /\ ClosedFor(s, store[Target(s)])

OutcomeInv ==
    /\ \A s \in Sessions : Knows(s)
    /\ \A s, t \in Sessions : Won(s) /\ Won(t) /\ Target(s) = Target(t) => s = t
-----------------------------------------------------------------------------
(* A kept row that is closed, or held by another transaction, is committed *)
(* as it was.                                                              *)
LEMMA StoreFrame ==
    ASSUME SafeInv, NEW s \in Sessions, Execute(s) \/ Handle(s) \/ QueryFails(s),
           NEW k \in DOMAIN store \cap ListingKey,
           ~store[k].open \/ \E t \in Sessions \ {s} : k \in DOMAIN writes[t]
    PROVE  k \in DOMAIN store' /\ store'[k] = store[k]
<1>1. UNCHANGED store \/ store' = View(s)
  BY Effects DEF SafeInv
<1>2. CASE store' = View(s) /\ ~store[k].open
  BY <1>2, SeenFollows DEF SafeInv, TypeInv, Follows, Kept
<1>3. CASE store' = View(s) /\ \E t \in Sessions \ {s} : k \in DOMAIN writes[t]
  <2>1. k \notin DOMAIN writes[s]
    BY <1>3 DEF SafeInv, IInv, LocksExclusive
  <2> QED BY <1>3, <2>1, ViewType DEF SafeInv, TypeInv
<1> QED BY <1>1, <1>2, <1>3

(* What the others know stays true. *)
LEMMA OthersKnow ==
    ASSUME SafeInv, OutcomeInv, NEW s \in Sessions, Execute(s) \/ Handle(s) \/ QueryFails(s),
           NEW t \in Sessions, t # s
    PROVE  /\ Knows(t)'
           /\ Won(t)' <=> Won(t)
           /\ Target(t)' = Target(t)
<1>1. /\ pc'[t] = pc[t] /\ req'[t] = req[t] /\ returned'[t] = returned[t]
      /\ error'[t] = error[t] /\ writes'[t] = writes[t]
  BY StepFrame DEF SafeInv
<1>2. /\ Target(t)' = Target(t) /\ (Closes(t)' <=> Closes(t)) /\ (Took(t)' <=> Took(t)) /\ (Won(t)' <=> Won(t))
      /\ \A row : ClosedFor(t, row)' <=> ClosedFor(t, row)
  BY <1>1 DEF Target, Closes, Took, Won, Settled, Unheard, ClosedFor
<1>3. Knows(t)
  BY DEF OutcomeInv
<1>4. Closes(t) => Target(t) \in ListingKey
  BY RequestKinds DEF Closes, Target, SafeInv, TypeInv, Position, CloseListingRequest, ListingKey
<1>5. ASSUME Closes(t), Target(t) \in DOMAIN store,
             ~store[Target(t)].open \/ Target(t) \in DOMAIN writes[t]
      PROVE  Target(t) \in DOMAIN store' /\ store'[Target(t)] = store[Target(t)]
  BY <1>4, <1>5, StoreFrame
<1>6. ClosedFor(t, store[Target(t)])' <=> ~store'[Target(t)].open /\ store'[Target(t)].receiver = req[t].receiver
  BY <1>1, <1>2 DEF ClosedFor
<1>7. ClosedFor(t, writes[t][Target(t)])' <=> ClosedFor(t, writes[t][Target(t)])
  BY <1>1, <1>2 DEF ClosedFor
<1>8. Knows(t)'
  BY <1>1, <1>2, <1>3, <1>5, <1>6, <1>7 DEF Knows, ClosedFor
<1> QED BY <1>2, <1>8
-----------------------------------------------------------------------------
(* A close-listing request and its statements. *)
LEMMA CloserKinds ==
    ASSUME TypeInv, NEW s \in Sessions, Closes(s)
    PROVE  /\ req[s] \in CloseListingRequest /\ Target(s) \in ListingKey /\ Target(s) \in Key
           /\ pc[s] \in {"query", "rows"} => Statement(s).query \in {"close_listing", "close_conversations"}
<1>1. req[s] \in CloseListingRequest
  BY RequestKinds DEF TypeInv, Position, Closes
<1>2. Target(s) \in ListingKey
  BY <1>1 DEF Target, CloseListingRequest, ListingKey
<1>3. Names(req[s].op) = {"close_listing", "close_conversations"}
  BY DEF Closes, Names
<1> QED BY <1>1, <1>2, <1>3, StatementType DEF StatementOf, Key

(* The steps before a transaction. *)
LEMMA OutsideKnows ==
    ASSUME SafeInv, OutcomeInv, NEW s \in Sessions,
           \/ Execute(s) \/ IsUserPasswordValid(s) \/ Store(s)
           \/ QueryFails(s) /\ pc[s] \in {"password", "store"}
    PROVE  Knows(s)' /\ ~Won(s)'
<1>0. /\ pc \in [Sessions -> {"idle", "password", "store", "done"} \cup InTransaction]
      /\ error \in [Sessions -> Errors \cup {"null"}]
      /\ Knows(s)
  BY DEF SafeInv, TypeInv, TypeOK, OutcomeInv
<1>1. /\ pc[s] \in {"idle", "password", "store"}
      /\ UNCHANGED <<store, writes, returned>>
      /\ \/ pc'[s] \in {"password", "store", "query"}
         \/ pc'[s] = "done" /\ error'[s] \notin {"null", "Unacknowledged"}
  <2>1. CASE Execute(s)
    BY <1>0, <2>1 DEF Execute
  <2>2. CASE IsUserPasswordValid(s)
    BY <1>0, <2>2 DEF IsUserPasswordValid, Reject
  <2>3. CASE Store(s)
    BY <1>0, <2>3 DEF Store, Reject
  <2>4. CASE QueryFails(s) /\ pc[s] \in {"password", "store"}
    BY <1>0, <2>4 DEF QueryFails, Reject
  <2> QED BY <2>1, <2>2, <2>3, <2>4
<1>2. returned'[s] = {} /\ writes'[s] = writes[s]
  BY <1>0, <1>1 DEF Knows
<1>3. DOMAIN writes[s] = {}
  BY <1>1 DEF SafeInv, IInv, LocksExclusive, InTransaction
<1>4. ~Took(s)' /\ ~Won(s)'
  BY <1>1, <1>2 DEF Took, Won, Settled, Unheard
<1>5. \A k : k \notin DOMAIN writes'[s]
  BY <1>2, <1>3
<1> QED BY <1>1, <1>2, <1>4, <1>5 DEF Knows

(* A statement that fails. *)
LEMMA FailKnows ==
    ASSUME SafeInv, OutcomeInv, NEW s \in Sessions, pc[s] \in {"query", "rows", "commit"},
           NEW e \in Errors \ {"Unacknowledged"}, Fail(s, e), UNCHANGED <<req, returned>>
    PROVE  Knows(s)' /\ ~Won(s)'
<1>1. /\ pc'[s] = "rollback" /\ error'[s] \notin {"null", "Unacknowledged"}
      /\ returned'[s] = returned[s] /\ req'[s] = req[s]
  BY DEF Fail, SafeInv, TypeInv, TypeOK, Errors
<1>2. Knows(s) /\ (Closes(s)' <=> Closes(s))
  BY <1>1 DEF OutcomeInv, Closes
<1> QED BY <1>1, <1>2 DEF Knows, Won, Settled

(* A statement that goes on without having written anything. *)
LEMMA ContinueKnows ==
    ASSUME SafeInv, OutcomeInv, NEW s \in Sessions, pc[s] \in {"query", "rows"},
           NEW rest, Continue(s, rest, {}), UNCHANGED <<store, writes, req>>
    PROVE  Knows(s)' /\ ~Won(s)'
<1>1. pc'[s] \in {"query", "rows", "commit"} /\ returned'[s] = returned[s] /\ req'[s] = req[s]
  BY DEF Continue, SafeInv, TypeInv, TypeOK
<1>2. /\ Knows(s) /\ (Closes(s)' <=> Closes(s)) /\ (Took(s)' <=> Took(s)) /\ Target(s)' = Target(s)
      /\ ~Won(s)'
      /\ store' = store /\ writes'[s] = writes[s]
  BY <1>1 DEF OutcomeInv, Closes, Took, Target, Won, Settled
<1> QED BY <1>1, <1>2 DEF Knows, ClosedFor

(* A row written: close_listing takes the listing, once.                   *)
LEMMA WriteKnows ==
    ASSUME SafeInv, OutcomeInv, NEW s \in Sessions, VisitRow(s), ~Skips(s), WriteRow(s), Writes(s)
    PROVE  Knows(s)' /\ ~Won(s)'
<1>0. pc[s] = "rows" /\ UNCHANGED <<store, req>> /\ TypeInv
  BY DEF VisitRow, SafeInv
<1>k. PICK k \in Key : k = cur[s][1]
  BY <1>0, RowAt
<1>r. PICK row : row = Written(View(s), s, req[s], Statement(s), k) /\ Puts(s, k, row)
  BY <1>k DEF Writes
<1>1. /\ pc'[s] \in {"query", "rows", "commit"} /\ req'[s] = req[s]
      /\ returned'[s] = returned[s] \cup ({Statement(s).query} \ Unreturning)
  BY <1>0 DEF WriteRow, Continue, TypeInv, TypeOK
<1>2. writes'[s] = [j \in DOMAIN writes[s] \cup {k} |-> IF j = k THEN row ELSE writes[s][j]]
  BY <1>r DEF Puts, SafeInv, IInv, ShapeInv
<1>3. ~Won(s)' /\ (Closes(s)' <=> Closes(s)) /\ Target(s)' = Target(s)
  BY <1>0, <1>1 DEF Won, Settled, Closes, Target
<1>4. ASSUME Closes(s)
      PROVE  /\ returned'[s] \subseteq {"close_listing"}
             /\ Took(s)' => /\ Target(s) \in DOMAIN store /\ store[Target(s)].open
                            /\ Target(s) \in DOMAIN writes'[s] /\ ClosedFor(s, writes'[s][Target(s)])
             /\ ~Took(s)' => Target(s) \notin DOMAIN writes'[s]
  <2>0. /\ Target(s) \in ListingKey /\ Target(s) \in Key
        /\ Statement(s).query \in {"close_listing", "close_conversations"}
        /\ req[s] \in CloseListingRequest
    BY <1>0, <1>4, CloserKinds
  <2>1. /\ returned[s] \subseteq {"close_listing"}
        /\ Took(s) => /\ Target(s) \in DOMAIN store /\ store[Target(s)].open
                      /\ Target(s) \in DOMAIN writes[s] /\ ClosedFor(s, writes[s][Target(s)])
        /\ ~Took(s) => Target(s) \notin DOMAIN writes[s]
    BY <1>0, <1>4 DEF OutcomeInv, Knows
  <2>2. /\ Statement(s).query \notin Inserts
        /\ k \in Aims(s, req[s], Statement(s)) /\ k \in DOMAIN View(s) /\ View(s)[k] \in RowOf(k)
        /\ StillSelects(Statement(s), View(s)[k])
        /\ row = Updated(View(s)[k], s, req[s], Statement(s))
    BY <1>0, <1>k, <1>r, <2>0, RowAt DEF Written, Inserts, Upserts, PlainInserts
  <2>3. CASE Statement(s).query = "close_listing"
    <3>1. k = Target(s) /\ View(s)[k].open
      BY <2>2, <2>3 DEF Aims, Target, StillSelects, ListingUpdates
    <3>2. View(s)[k] \in ListingRow
      BY <2>0, <2>2, <3>1, RowKinds
    <3>3. row = [View(s)[k] EXCEPT !.open = FALSE, !.receiver = req[s].receiver]
      BY <2>2, <2>3 DEF Updated
    <3>4. ClosedFor(s, row)
      BY <3>2, <3>3 DEF ListingRow, ClosedFor
    <3>5. ~Took(s)
      <4>1. k \in DOMAIN writes[s] => View(s)[k] = writes[s][k]
        BY <2>2, ViewType DEF SafeInv, TypeInv
      <4> QED BY <2>1, <3>1, <4>1 DEF ClosedFor
    <3>6. k \notin DOMAIN writes[s]
      BY <2>1, <3>1, <3>5
    <3>7. k \in DOMAIN store /\ store[k] = View(s)[k]
      BY <2>2, <3>6, ViewType DEF SafeInv, TypeInv
    <3>8. returned'[s] = returned[s] \cup {"close_listing"}
      BY <1>1, <2>3 DEF Unreturning
    <3> QED BY <1>2, <2>1, <3>1, <3>4, <3>7, <3>8 DEF Took
  <2>4. CASE Statement(s).query = "close_conversations"
    <3>1. k \in ConversationKey
      BY <2>2, <2>4 DEF Aims, AccountUpdates, ListingUpdates
    <3>2. k # Target(s)
      BY <2>0, <3>1, KeyKinds
    <3>3. returned'[s] = returned[s]
      BY <1>1, <2>4 DEF Unreturning
    <3> QED BY <1>2, <2>1, <3>2, <3>3 DEF Took
  <2> QED BY <2>0, <2>3, <2>4
<1>5. \A j : ClosedFor(s, writes[s][j])' <=> ClosedFor(s, writes'[s][j])
  BY <1>1 DEF ClosedFor
<1> QED BY <1>0, <1>1, <1>3, <1>4, <1>5 DEF Knows

(* The end of a transaction keeps what its session knows; one that won has *)
(* closed a listing that was open until then.                              *)
LEMMA EndKnows ==
    ASSUME SafeInv, OutcomeInv, NEW s \in Sessions, Commit(s) \/ CommitUnacknowledged(s) \/ Rollback(s)
    PROVE  /\ Knows(s)'
           /\ Won(s)' => store[Target(s)].open
<1>0. Knows(s)
  BY DEF OutcomeInv
<1>1. CASE Rollback(s)
  <2>1. /\ pc[s] = "rollback" /\ pc'[s] = "done" /\ error'[s] \notin {"null", "Unacknowledged"}
        /\ returned'[s] = returned[s] /\ req'[s] = req[s]
    BY <1>0, <1>1 DEF Rollback, Knows, SafeInv, TypeInv, TypeOK
  <2>2. ~Won(s)' /\ (Closes(s)' <=> Closes(s))
    BY <2>1 DEF Won, Settled, Unheard, Closes
  <2> QED BY <1>0, <2>1, <2>2 DEF Knows
<1>2. CASE Commit(s) \/ CommitUnacknowledged(s)
  <2>1. /\ pc[s] = "commit" /\ pc'[s] = "done" /\ returned'[s] = returned[s] /\ req'[s] = req[s]
        /\ error'[s] \in {PrepareResults(req[s].op, returned[s]), "Unacknowledged"} /\ store' = View(s)
    BY <1>2 DEF Commit, CommitUnacknowledged, TakesEffect, SafeInv, TypeInv, TypeOK
  <2>2. /\ (Closes(s)' <=> Closes(s)) /\ Target(s)' = Target(s)
        /\ Won(s)' => Closes(s) /\ PrepareResults(req[s].op, returned[s]) = "null"
    BY <2>1 DEF Won, Settled, Unheard, Closes, Target
  <2>3. ASSUME Closes(s), PrepareResults(req[s].op, returned[s]) = "null"
        PROVE  /\ store[Target(s)].open
               /\ Target(s) \in DOMAIN store' /\ ClosedFor(s, store'[Target(s)])
    <3>1. DropFromResults(req[s].op) = {"close_conversations"}
      BY <2>3 DEF Closes, DropFromResults
    <3>2. Took(s)
      BY <1>0, <2>1, <2>3, <3>1 DEF Knows, PrepareResults, Took
    <3>3. /\ Target(s) \in DOMAIN store /\ store[Target(s)].open
          /\ Target(s) \in DOMAIN writes[s] /\ ClosedFor(s, writes[s][Target(s)])
      BY <1>0, <2>1, <2>3, <3>2 DEF Knows
    <3>4. Target(s) \in DOMAIN View(s) /\ View(s)[Target(s)] = writes[s][Target(s)]
      BY <2>3, <3>3, CloserKinds, ViewType DEF SafeInv, VersionsInv, Kept, TypeInv
    <3> QED BY <2>1, <3>3, <3>4
  <2>4. Closes(s) => returned[s] \subseteq {"close_listing"}
    BY <1>0 DEF Knows
  <2>5. ClosedFor(s, store[Target(s)])' <=> ClosedFor(s, store'[Target(s)])
    BY <2>1, <2>2 DEF ClosedFor
  <2> QED BY <2>1, <2>2, <2>3, <2>4, <2>5 DEF Knows
<1> QED BY <1>1, <1>2

(* Every step of a session: what it knows afterwards, and that it wins     *)
(* only a listing that was open.                                           *)
LEMMA OwnStep ==
    ASSUME SafeInv, OutcomeInv, NEW s \in Sessions, Execute(s) \/ Handle(s) \/ QueryFails(s)
    PROVE  Knows(s)' /\ (Won(s)' => Target(s)' = Target(s) /\ store[Target(s)].open)
<1>1. CASE Execute(s) \/ IsUserPasswordValid(s) \/ Store(s)
  BY <1>1, OutsideKnows
<1>2. CASE NextQuery(s)
  <2>1. pc[s] = "query" /\ UNCHANGED <<store, writes, req>>
    BY <1>2 DEF NextQuery
  <2>2. \/ Fail(s, "BackreferenceError") /\ UNCHANGED returned
        \/ \E rest : Continue(s, rest, {})
    BY <1>2 DEF NextQuery
  <2> QED BY <2>1, <2>2, FailKnows, ContinueKnows DEF Errors
<1>3. CASE VisitRow(s)
  <2>1. pc[s] = "rows" /\ UNCHANGED <<store, req>> /\ \A t \in Sessions : ~WaitsFor(s, t)
    BY <1>3 DEF VisitRow
  <2>2. CASE Continue(s, todo[s] \ {cur[s]}, {}) /\ UNCHANGED writes
    BY <2>1, <2>2, ContinueKnows
  <2>3. CASE /\ ~Skips(s) /\ Violation(View(s), s, req[s], Statement(s), cur[s][1]) = "null"
             /\ WriteRow(s)
    <3>1. Writes(s)
      BY <2>1, <2>3 DEF WriteRow, Writes, Puts
    <3> QED BY <1>3, <2>3, <3>1, WriteKnows
  <2>4. CASE /\ Violation(View(s), s, req[s], Statement(s), cur[s][1]) # "null"
             /\ Fail(s, Violation(View(s), s, req[s], Statement(s), cur[s][1]))
             /\ UNCHANGED returned
    BY <2>1, <2>4, ViolationType, FailKnows
  <2> QED BY <1>3, <2>2, <2>3, <2>4 DEF VisitRow
<1>4. CASE LockRow(s)
  <2>1. /\ pc[s] = "rows" /\ UNCHANGED <<store, req, pc, returned, error>>
        /\ Statement(s).query = "change_email"
    BY <1>4 DEF LockRow
  <2>2. ~Closes(s)
    BY <2>1, CloserKinds DEF SafeInv
  <2> QED BY <2>1, <2>2 DEF Knows, Won, Settled, Unheard, Closes, OutcomeInv
<1>5. CASE DeadlockDetected(s)
  <2>1. pc[s] = "rows"
    BY <1>5 DEF DeadlockDetected, OnCycle, WaitsFor
  <2> QED BY <1>5, <2>1, FailKnows DEF DeadlockDetected, Errors
<1>6. CASE QueryFails(s)
  <2>1. CASE pc[s] \in {"password", "store"}
    BY <1>6, <2>1, OutsideKnows
  <2>2. CASE pc[s] \notin {"password", "store"}
    BY <1>6, <2>2, FailKnows DEF QueryFails, Errors
  <2> QED BY <2>1, <2>2
<1>7. CASE Commit(s) \/ CommitUnacknowledged(s) \/ Rollback(s)
  BY <1>7, EndKnows DEF Commit, CommitUnacknowledged, TakesEffect, Rollback, Target
<1> QED BY <1>1, <1>2, <1>3, <1>4, <1>5, <1>6, <1>7 DEF Handle

(* Two close-listing requests never both win the same listing. *)
THEOREM OutcomeIsInvariant == SafetySpec => []OutcomeInv
<1>1. Init => OutcomeInv
  BY DEF Init, OutcomeInv, Knows, Closes, Won, Settled
<1>2. SafeInv /\ OutcomeInv /\ [Next]_vars => OutcomeInv'
  <2> SUFFICES ASSUME SafeInv, OutcomeInv, [Next]_vars PROVE OutcomeInv'
    OBVIOUS
  <2>1. CASE UNCHANGED vars
    BY <2>1 DEF vars, OutcomeInv, Knows, Closes, Won, Settled, Unheard, Took, Target, ClosedFor
  <2>2. ASSUME NEW s \in Sessions, Execute(s) \/ Handle(s) \/ QueryFails(s) PROVE OutcomeInv'
    <3>1. \A t \in Sessions : Knows(t)'
      BY <2>2, OwnStep, OthersKnow
    <3>2. ASSUME NEW t \in Sessions \ {s}, Won(s)', Won(t)', Target(s)' = Target(t)' PROVE FALSE
      <4>1. Won(t) /\ Target(t) = Target(s)
        BY <2>2, <3>2, OwnStep, OthersKnow
      <4>2. Closes(t) /\ Knows(t)
        BY <4>1 DEF Won, OutcomeInv
      <4>3. ~store[Target(t)].open
        BY <4>1, <4>2 DEF Knows, ClosedFor
      <4> QED BY <2>2, <3>2, <4>1, <4>3, OwnStep
    <3>3. \A t, u \in Sessions : Won(t)' /\ Won(u)' /\ Target(t)' = Target(u)' => t = u
      <4> SUFFICES ASSUME NEW t \in Sessions, NEW u \in Sessions, Won(t)', Won(u)', Target(t)' = Target(u)'
                   PROVE  t = u
        OBVIOUS
      <4>1. CASE t = s \/ u = s
        BY <3>2, <4>1
      <4>2. CASE t # s /\ u # s
        BY <2>2, <4>2, OthersKnow DEF OutcomeInv
      <4> QED BY <4>1, <4>2
    <3> QED BY <3>1, <3>3 DEF OutcomeInv
  <2> QED BY <2>1, <2>2 DEF Next, Terminating
<1> QED BY <1>1, <1>2, SafeIsInvariant, PTL DEF SafetySpec

(* A listing is given away once: of all the close-listing requests for it  *)
(* one at most is accepted, and the receiver it named is the one recorded, *)
(* from then on.                                                           *)
THEOREM GivenOnce == Spec => []OneReceiver
<1>1. TypeInv /\ OutcomeInv => OneReceiver
  <2> SUFFICES ASSUME TypeInv, OutcomeInv, NEW s \in Sessions, Accepted(s), req[s].op = "close-listing"
               PROVE  /\ <<"listing", req[s].listing>> \in DOMAIN store
                      /\ ~store[<<"listing", req[s].listing>>].open
                      /\ store[<<"listing", req[s].listing>>].receiver = req[s].receiver
                      /\ \A t \in Sessions \ {s} :
                           (req[t] # Null /\ req[t].op = "close-listing" /\ req[t].listing = req[s].listing)
                             => ~Accepted(t)
    BY DEF OneReceiver
  <2>1. \A t \in Sessions : Accepted(t) => error[t] = "null" /\ pc[t] = "done"
    <3> SUFFICES ASSUME NEW t \in Sessions, Accepted(t) PROVE error[t] = "null" /\ pc[t] = "done"
      OBVIOUS
    <3>1. pc[t] = "done" /\ GetStatus(req[t].op, error[t]) < 300
      BY DEF Accepted, Answered
    <3>2. error[t] \in Errors \cup {"null"}
      BY DEF TypeInv, TypeOK
    <3>3. error[t] \in Errors => GetStatus(req[t].op, error[t]) \in {400, 401, 403, 404, 409, 500}
      BY DEF Errors, GetStatus
    <3> QED BY <3>1, <3>2, <3>3
  <2>2. \A t \in Sessions : Accepted(t) /\ req[t].op = "close-listing" => Won(t)
    BY <2>1 DEF Won, Settled, Closes
  <2>3. Target(s) \in DOMAIN store /\ ClosedFor(s, store[Target(s)])
    BY <2>2 DEF OutcomeInv, Knows, Won
  <2> QED BY <2>2, <2>3 DEF Target, ClosedFor, OutcomeInv
<1> QED BY <1>1, TypeIsInvariant, OutcomeIsInvariant, PTL DEF Spec, SafetySpec
-----------------------------------------------------------------------------
(* The kinds of step that a session takes, and what each changes of it. *)
Goes(s, rest, names) ==
    /\ todo'[s] = rest /\ returned'[s] = returned[s] \cup names
    /\ \/ rest # {} /\ pc'[s] = "rows" /\ step'[s] = step[s]
       \/ rest = {} /\ step[s] < Len(Build(req[s])) /\ pc'[s] = "query" /\ step'[s] = step[s] + 1
       \/ rest = {} /\ step[s] = Len(Build(req[s])) /\ pc'[s] = "commit" /\ step'[s] = step[s]

StaysOutside(s) ==
    /\ pc[s] \in {"idle", "password", "store"}
    /\ UNCHANGED <<store, writes, returned, step>> /\ (Execute(s) \/ (pc[s] # "idle" /\ UNCHANGED req))
    /\ \/ pc'[s] \in {"password", "store", "query"}
       \/ pc'[s] = "done" /\ error'[s] \notin {"null", "Unacknowledged"}

Fails(s) ==
    /\ pc[s] \in {"query", "rows", "commit"} /\ pc'[s] = "rollback"
    /\ UNCHANGED <<store, writes, req, returned>>

Chooses(s) ==
    /\ pc[s] = "query" /\ UNCHANGED <<store, writes, req>>
    /\ Backreference(req[s], Statement(s)) \subseteq returned[s]
    /\ Goes(s, {<<k, Lookup(View(s), k)>> : k \in Chosen(View(s), s, req[s], Statement(s))}, {})

PassesRow(s) ==
    /\ pc[s] = "rows" /\ UNCHANGED <<store, writes, req>> /\ Skips(s)
    /\ Goes(s, todo[s] \ {cur[s]}, {})

WroteRow(s) ==
    /\ pc[s] = "rows" /\ UNCHANGED <<store, req>> /\ ~Skips(s) /\ Writes(s)
    /\ Goes(s, todo[s] \ {cur[s]}, {Statement(s).query} \ Unreturning)

LockedRow(s) ==
    /\ pc[s] = "rows" /\ UNCHANGED <<store, req, pc, step, todo, returned, error>>
    /\ ~Skips(s) /\ LocksRow(s) /\ Statement(s).query = "change_email"

Ends(s) ==
    /\ UNCHANGED <<req, returned>> /\ pc'[s] = "done" /\ writes' = [writes EXCEPT ![s] = NoWrites]
    /\ \/ /\ pc[s] = "commit" /\ store' = View(s)
          /\ error'[s] \in {PrepareResults(req[s].op, returned[s]), "Unacknowledged"}
       \/ pc[s] = "rollback" /\ UNCHANGED <<store, error>>

(* Continue is that: to the next row, the next statement, or the COMMIT. *)
LEMMA ContinueGoes ==
    ASSUME TypeInv, NEW s \in Sessions, pc[s] \in {"query", "rows"}, NEW rest, NEW names,
           Continue(s, rest, names)
    PROVE  Goes(s, rest, names)
<1>0. /\ pc \in [Sessions -> {"idle", "password", "store", "done"} \cup InTransaction]
      /\ step \in [Sessions -> Nat \ {0}]
      /\ todo \in [Sessions -> SUBSET (Key \X (Row \cup {NoRow}))]
      /\ returned \in [Sessions -> SUBSET Statements]
      /\ req[s] \in Request /\ step[s] \in 1..Len(Build(req[s]))
  BY DEF TypeInv, TypeOK, Position
<1>1. Len(Build(req[s])) \in Nat
  BY <1>0, BuildType, LenProperties
<1>2. todo'[s] = rest /\ returned'[s] = returned[s] \cup names
  BY <1>0 DEF Continue
<1>3. CASE rest # {}
  <2>1. pc'[s] = "rows" /\ step' = step
    BY <1>0, <1>3 DEF Continue
  <2> QED BY <1>2, <1>3, <2>1 DEF Goes
<1>4. CASE rest = {} /\ step[s] < Len(Build(req[s]))
  <2>1. pc'[s] = "query" /\ step'[s] = step[s] + 1
    BY <1>0, <1>4 DEF Continue
  <2> QED BY <1>2, <1>4, <2>1 DEF Goes
<1>5. CASE rest = {} /\ ~(step[s] < Len(Build(req[s])))
  <2>1. pc'[s] = "commit" /\ step' = step
    BY <1>0, <1>5 DEF Continue
  <2>2. step[s] = Len(Build(req[s]))
    BY <1>0, <1>1, <1>5
  <2> QED BY <1>2, <1>5, <2>1, <2>2 DEF Goes
<1> QED BY <1>3, <1>4, <1>5

(* A statement that fails leaves everything but the session's own place. *)
LEMMA FailsIs ==
    ASSUME TypeInv, NEW s \in Sessions, pc[s] \in {"query", "rows", "commit"}, NEW e, Fail(s, e),
           UNCHANGED <<store, writes, req, returned>>
    PROVE  Fails(s)
<1>0. pc \in [Sessions -> {"idle", "password", "store", "done"} \cup InTransaction]
  BY DEF TypeInv, TypeOK
<1> QED BY <1>0 DEF Fail, Fails

(* Every step of a session is of one of these kinds. *)
LEMMA Steps ==
    ASSUME TypeInv, NEW s \in Sessions, Execute(s) \/ Handle(s) \/ QueryFails(s)
    PROVE  StaysOutside(s) \/ Fails(s) \/ Chooses(s) \/ PassesRow(s) \/ WroteRow(s) \/ LockedRow(s) \/ Ends(s)
<1>0. /\ pc \in [Sessions -> {"idle", "password", "store", "done"} \cup InTransaction]
      /\ error \in [Sessions -> Errors \cup {"null"}]
  BY DEF TypeInv, TypeOK
<1>1. CASE Execute(s)
  <2>1. pc[s] = "idle" /\ pc'[s] \in {"password", "store"} /\ UNCHANGED <<store, writes, returned, step>>
    BY <1>0, <1>1 DEF Execute
  <2> QED BY <1>1, <2>1 DEF StaysOutside
<1>2. CASE IsUserPasswordValid(s)
  <2>1. /\ pc[s] = "password" /\ UNCHANGED <<store, writes, req, returned, step>>
        /\ pc'[s] = "store" \/ (pc'[s] = "done" /\ error'[s] \notin {"null", "Unacknowledged"})
    BY <1>0, <1>2 DEF IsUserPasswordValid, Reject
  <2> QED BY <2>1 DEF StaysOutside
<1>3. CASE Store(s)
  <2>1. /\ pc[s] = "store" /\ UNCHANGED <<store, writes, req, returned, step>>
        /\ pc'[s] = "query" \/ (pc'[s] = "done" /\ error'[s] \notin {"null", "Unacknowledged"})
    BY <1>0, <1>3 DEF Store, Reject
  <2> QED BY <2>1 DEF StaysOutside
<1>4. CASE NextQuery(s)
  <2>1. pc[s] = "query" /\ UNCHANGED <<store, writes, req>>
    BY <1>4 DEF NextQuery
  <2>2. CASE Fail(s, "BackreferenceError") /\ UNCHANGED <<step, returned>>
    BY <2>1, <2>2, FailsIs
  <2>3. CASE /\ Backreference(req[s], Statement(s)) \subseteq returned[s]
             /\ Continue(s, {<<k, Lookup(View(s), k)>> : k \in Chosen(View(s), s, req[s], Statement(s))}, {})
    BY <2>1, <2>3, ContinueGoes DEF Chooses
  <2> QED BY <1>4, <2>2, <2>3 DEF NextQuery
<1>5. CASE VisitRow(s)
  <2>1. pc[s] = "rows" /\ UNCHANGED <<store, req>> /\ \A t \in Sessions : ~WaitsFor(s, t)
    BY <1>5 DEF VisitRow
  <2>2. CASE Skips(s) /\ Continue(s, todo[s] \ {cur[s]}, {}) /\ UNCHANGED writes
    BY <2>1, <2>2, ContinueGoes DEF PassesRow
  <2>3. CASE /\ ~Skips(s) /\ Violation(View(s), s, req[s], Statement(s), cur[s][1]) = "null" /\ WriteRow(s)
    <3>1. Writes(s)
      BY <2>1, <2>3 DEF WriteRow, Writes, Puts
    <3>2. Continue(s, todo[s] \ {cur[s]}, {Statement(s).query} \ Unreturning)
      BY <2>3 DEF WriteRow
    <3> QED BY <2>1, <2>3, <3>1, <3>2, ContinueGoes DEF WroteRow
  <2>4. CASE /\ Fail(s, Violation(View(s), s, req[s], Statement(s), cur[s][1]))
             /\ UNCHANGED <<writes, step, returned>>
    BY <2>1, <2>4, FailsIs
  <2> QED BY <1>5, <2>2, <2>3, <2>4 DEF VisitRow
<1>6. CASE LockRow(s)
  <2>1. /\ pc[s] = "rows" /\ UNCHANGED <<store, req, pc, step, todo, returned, error>>
        /\ ~Skips(s) /\ Statement(s).query = "change_email"
    BY <1>6 DEF LockRow
  <2>2. cur[s][1] \in DOMAIN View(s)
    BY <2>1, RowThere DEF Inserts, Upserts, PlainInserts
  <2>3. LocksRow(s)
    BY <1>6, <2>2 DEF LockRow, LocksRow, Puts
  <2> QED BY <2>1, <2>3 DEF LockedRow
<1>7. CASE DeadlockDetected(s)
  <2>1. pc[s] = "rows"
    BY <1>7 DEF DeadlockDetected, OnCycle, WaitsFor
  <2> QED BY <1>7, <2>1, FailsIs DEF DeadlockDetected
<1>8. CASE QueryFails(s)
  <2>1. CASE pc[s] \in {"query", "rows", "commit"} /\ Fail(s, "QueryExecutionError")
    BY <1>8, <2>1, FailsIs DEF QueryFails
  <2>2. CASE pc[s] \in {"password", "store"} /\ Reject(s, "QueryExecutionError")
    BY <1>0, <1>8, <2>2 DEF QueryFails, Reject, StaysOutside
  <2> QED BY <1>8, <2>1, <2>2 DEF QueryFails
<1>9. CASE Commit(s) \/ CommitUnacknowledged(s)
  BY <1>0, <1>9 DEF Commit, CommitUnacknowledged, TakesEffect, Ends
<1>10. CASE Rollback(s)
  BY <1>0, <1>10 DEF Rollback, Ends
<1> QED BY <1>1, <1>2, <1>3, <1>4, <1>5, <1>6, <1>7, <1>8, <1>9, <1>10 DEF Handle
-----------------------------------------------------------------------------
(* What the requests that have come in ask for: the conversations to open, *)
(* and the listings to modify.                                             *)
Reopened ==
    {<<"conversation", req[t].actor, req[t].listing>> :
        t \in {u \in Sessions : pc[u] # "idle" /\ req[u].op = "create-conversation"}}

Remade == {req[t].listing : t \in {u \in Sessions : pc[u] # "idle" /\ req[u].op = "modify-listing"}}

(* Who writes what: media are deleted by the modification of their listing *)
(* only, a conversation is open in a transaction only for who asked for    *)
(* it, an account is closed only by itself.  And no account, listing,      *)
(* address, conversation, message or picture that was there at first is    *)
(* lost (a saved listing or a medium may be: see Kept).                    *)
Justified(s, k, row) ==
    /\ k \in MediaKey /\ row = NoRow => req[s].op = "modify-listing" /\ req[s].listing = k[2]
    /\ k \in ConversationKey /\ row.open =>
         req[s].op = "create-conversation" /\ k = <<"conversation", req[s].actor, req[s].listing>>
    /\ k \in AccountKey /\ ~row.open =>
         req[s].op = "close-account" /\ k = <<"account", req[s].actor>>

WritesInv ==
    /\ Later(InitStore, store)
    /\ \A s \in Sessions : \A k \in DOMAIN writes[s] : Justified(s, k, writes[s][k])

(* A transaction has one version of a row. *)
LEMMA PutsOne ==
    ASSUME TypeInv, NEW s \in Sessions, NEW k, NEW row, Puts(s, k, row)
    PROVE  /\ DOMAIN writes'[s] = DOMAIN writes[s] \cup {k}
           /\ writes'[s][k] = row
           /\ \A j \in DOMAIN writes[s] : j # k => writes'[s][j] = writes[s][j]
           /\ \A t \in Sessions \ {s} : writes'[t] = writes[t]
<1>1. /\ writes'[s] = [j \in DOMAIN writes[s] \cup {k} |-> IF j = k THEN row ELSE writes[s][j]]
      /\ \A u \in Sessions \ {s} : writes'[u] = writes[u]
  BY DEF Puts, TypeInv, TypeOK
<1> QED BY <1>1

(* What a session writes is justified by its request. *)
LEMMA RowJustified ==
    ASSUME TypeInv, NEW s \in Sessions, WroteRow(s) \/ LockedRow(s)
    PROVE  \E row \in RowOf(cur[s][1]) \cup {NoRow} :
             Puts(s, cur[s][1], row) /\ Justified(s, cur[s][1], row)
<1> DEFINE k == cur[s][1]
           old == View(s)[k]
           q == Statement(s)
           row == Written(View(s), s, req[s], q, k)
<1>0. /\ pc[s] = "rows" /\ ~Skips(s)
      /\ req[s] \in Request /\ q \in StatementOf(req[s]) /\ q.query \in Statements
      /\ k \in Key /\ k \in Aims(s, req[s], q) /\ IsDatabase(View(s))
  <2>1. pc[s] = "rows" /\ ~Skips(s)
    BY DEF WroteRow, LockedRow
  <2> QED BY <2>1, RowAt, StatementType
<1>1. CASE LockedRow(s)
  <2>1. q.query = "change_email" /\ q.query \notin Inserts /\ Puts(s, k, old)
    BY <1>1 DEF LockedRow, LocksRow, Inserts, Upserts, PlainInserts
  <2>2. k \in DOMAIN View(s) /\ old \in RowOf(k) /\ StillSelects(q, old)
    BY <1>0, <2>1, RowAt
  <2>3. k \in AccountKey /\ old.open
    BY <1>0, <2>1, <2>2, KeyKinds DEF Aims, StillSelects, AccountUpdates
  <2> HIDE DEF k, old, q
  <2>4. Justified(s, k, old)
    BY <1>0, <2>3, KeyKinds DEF Justified
  <2> QED BY <2>1, <2>2, <2>4 DEF k
<1>2. CASE WroteRow(s) /\ q.query \in Inserts
  <2>1. k = InsertedKey(s, req[s], q) /\ row = Inserted(View(s), s, req[s], q, k) /\ Puts(s, k, row)
    BY <1>0, <1>2, RowAt DEF Written, WroteRow, Writes
  <2>2. row \in RowOf(k)
    BY <1>0, <1>2, <2>1, InsertedType
  <2>3. row # NoRow
    BY <1>0, <2>2, RowsAreRows, MarketplaceAssumption
  <2>4. k \in ConversationKey => q.query = "create_conversation"
    BY <1>0, <1>2, <2>1, InsertedKeys, KeyKinds DEF Inserts, Upserts, PlainInserts
  <2>5. q.query = "create_conversation" => /\ req[s].op = "create-conversation"
                                          /\ k = <<"conversation", req[s].actor, req[s].listing>>
    BY <1>0, <2>1, StatementKinds DEF InsertedKey, CreateConversationRequest
  <2>6. k \in AccountKey => q.query = "create_account"
    BY <1>0, <1>2, <2>1, InsertedKeys, KeyKinds DEF Inserts, Upserts, PlainInserts
  <2>7. q.query = "create_account" => row.open
    BY <2>1 DEF Inserted
  <2> HIDE DEF k, row, q
  <2>8. Justified(s, k, row)
    BY <2>3, <2>4, <2>5, <2>6, <2>7 DEF Justified
  <2> QED BY <2>1, <2>2, <2>8 DEF k
<1>3. CASE WroteRow(s) /\ q.query \notin Inserts
  <2>1. /\ k \in DOMAIN View(s) /\ old \in RowOf(k) /\ row = Updated(old, s, req[s], q) /\ Puts(s, k, row)
        /\ StillSelects(q, old)
    BY <1>0, <1>3, RowAt DEF Written, WroteRow, Writes
  <2>2. row \in RowOf(k) \cup {NoRow}
    BY <1>0, <1>3, <2>1, UpdatedType
  <2>3. k \in MediaKey => q.query = "drop_extra_media"
    BY <1>0, <1>3, KeyKinds DEF Aims, Statements, AccountUpdates, ListingUpdates
  <2>4. q.query = "drop_extra_media" => req[s].op = "modify-listing" /\ req[s].listing = k[2]
    BY <1>0, <1>3, StatementKinds DEF Aims, ModifyListingRequest
  <2>5. k \in ConversationKey => ~row.open
    <3> SUFFICES ASSUME k \in ConversationKey PROVE ~row.open
      OBVIOUS
    <3>1. q.query \in {"close_conversations", "close_conversation"}
      BY <1>0, <1>3, KeyKinds DEF Aims, Statements, AccountUpdates, ListingUpdates
    <3>2. row = [old EXCEPT !.open = FALSE] /\ old \in ConversationRow
      BY <1>0, <2>1, <3>1, RowKinds DEF Updated
    <3> QED BY <3>2 DEF ConversationRow
  <2>6. k \in AccountKey => row.open \/ (req[s].op = "close-account" /\ k = <<"account", req[s].actor>>)
    <3> SUFFICES ASSUME k \in AccountKey PROVE row.open \/ (req[s].op = "close-account" /\ k = <<"account", req[s].actor>>)
      OBVIOUS
    <3>1. q.query \in AccountUpdates /\ k = <<"account", req[s].actor>>
      BY <1>0, <1>3, KeyKinds DEF Aims, Statements, AccountUpdates, ListingUpdates
    <3>2. CASE q.query = "close_account"
      BY <1>0, <3>1, <3>2, StatementKinds DEF CloseAccountRequest
    <3>3. CASE q.query # "close_account"
      <4>1. old.open /\ old \in AccountRow
        BY <1>0, <2>1, <3>1, RowKinds DEF StillSelects
      <4>2. row.open = old.open
        <5>1. CASE q.query = "change_email"
          <6>1. row = [old EXCEPT !.email = req[s].email]
            BY <2>1, <5>1 DEF Updated
          <6> QED BY <4>1, <6>1 DEF AccountRow
        <5>2. CASE q.query = "change_password"
          <6>1. row = [old EXCEPT !.password = req[s].newPassword]
            BY <2>1, <5>2 DEF Updated
          <6> QED BY <4>1, <6>1 DEF AccountRow
        <5>3. CASE q.query \in {"change_name", "change_dob"}
          <6>1. row = [old EXCEPT !.columns[ColumnOf(q)] = s]
            BY <2>1, <5>3 DEF Updated
          <6> QED BY <4>1, <6>1 DEF AccountRow
        <5> QED BY <3>1, <3>3, <5>1, <5>2, <5>3 DEF AccountUpdates
      <4> QED BY <4>1, <4>2
    <3> QED BY <3>2, <3>3
  <2> HIDE DEF k, row, q, old
  <2>7. Justified(s, k, row)
    BY <1>0, <2>3, <2>4, <2>5, <2>6, KeyKinds DEF Justified
  <2> QED BY <2>1, <2>2, <2>7 DEF k
<1> QED BY <1>0, <1>1, <1>2, <1>3

(* A request that has come in stays what it is. *)
LEMMA RequestStays ==
    ASSUME TypeInv, NEW s \in Sessions, Execute(s) \/ Handle(s) \/ QueryFails(s)
    PROVE  /\ \A t \in Sessions : pc[t] # "idle" => pc'[t] # "idle" /\ req'[t] = req[t]
           /\ Reopened \subseteq Reopened' /\ Remade \subseteq Remade'
<1>1. pc[s] # "idle" => pc'[s] # "idle" /\ req'[s] = req[s]
  <2>1. CASE Execute(s)
    BY <2>1 DEF Execute
  <2>2. CASE ~Execute(s)
    BY <2>2, Steps DEF StaysOutside, Fails, Chooses, PassesRow, WroteRow, LockedRow, Ends, Goes
  <2> QED BY <2>1, <2>2
<1>2. \A t \in Sessions : pc[t] # "idle" => pc'[t] # "idle" /\ req'[t] = req[t]
  BY <1>1, StepFrame
<1> QED BY <1>2 DEF Reopened, Remade

(* The rows of a session's view, and the committed ones, stay as they are  *)
(* but for those that some request had a reason to change.                 *)
Rewritten(k, old, new) ==
    \/ k \in DOMAIN new /\ new[k] = old[k]
    \/ \E u \in Sessions : \E row :
         /\ pc[u] # "idle" /\ Justified(u, k, row)
         /\ IF row = NoRow THEN k \notin DOMAIN new ELSE k \in DOMAIN new /\ new[k] = row

(* Every step does so, to the database and to what every session sees of   *)
(* it.                                                                     *)
LEMMA ViewRewritten ==
    ASSUME SafeInv, SafeInv', WritesInv, NEW s \in Sessions, Execute(s) \/ Handle(s) \/ QueryFails(s)
    PROVE  /\ \A k \in DOMAIN store : Rewritten(k, store, store')
           /\ \A t \in Sessions : pc'[t] = "done" \/ \A k \in DOMAIN View(t) : Rewritten(k, View(t), View(t)')
<1>0. TypeInv /\ TypeInv' /\ Later(InitStore, store)
  BY DEF SafeInv, WritesInv
<1>1. ASSUME NEW u \in Sessions, NEW k \in DOMAIN writes[u]
      PROVE  pc[u] # "idle" /\ Justified(u, k, writes[u][k])
  BY DEF SafeInv, IInv, LocksExclusive, InTransaction, WritesInv
<1>2. ASSUME NEW u \in Sessions, NEW k \in DOMAIN store PROVE Rewritten(k, store, View(u))
  <2>1. CASE k \in DOMAIN writes[u]
    <3>1. /\ k \in DOMAIN View(u) <=> writes[u][k] # NoRow
          /\ k \in DOMAIN View(u) => View(u)[k] = writes[u][k]
      BY <1>0, <2>1, ViewType DEF TypeInv
    <3> QED BY <1>1, <2>1, <3>1 DEF Rewritten
  <2>2. CASE k \notin DOMAIN writes[u]
    BY <1>0, <2>2, ViewType DEF TypeInv, Rewritten
  <2> QED BY <2>1, <2>2
<1>3. CASE StaysOutside(s) \/ Fails(s) \/ Chooses(s) \/ PassesRow(s)
  <2>1. UNCHANGED <<store, writes>>
    BY <1>3 DEF StaysOutside, Fails, Chooses, PassesRow
  <2> QED BY <2>1 DEF View, Rewritten
<1>4. CASE WroteRow(s) \/ LockedRow(s)
  <2>k. PICK k : k = cur[s][1]
    OBVIOUS
  <2>1. PICK row : Puts(s, k, row) /\ Justified(s, k, row)
    BY <1>0, <1>4, <2>k, RowJustified
  <2>2. UNCHANGED store /\ pc[s] = "rows"
    BY <1>4 DEF WroteRow, LockedRow
  <2>3. /\ \A j \in DOMAIN View(s)' : IF j = k THEN View(s)'[j] = row ELSE j \in DOMAIN View(s) /\ View(s)'[j] = View(s)[j]
        /\ \A j \in DOMAIN View(s) : j # k => j \in DOMAIN View(s)' /\ View(s)'[j] = View(s)[j]
        /\ row # NoRow => k \in DOMAIN View(s)' /\ View(s)'[k] = row
        /\ \A t \in Sessions \ {s} : View(t)' = View(t)
    BY <1>0, <2>1, <2>2, WrittenView
  <2>4. row = NoRow => k \notin DOMAIN View(s)'
    <3>1. k \in DOMAIN writes'[s] /\ writes'[s][k] = row
      BY <1>0, <2>1, PutsOne
    <3>2. k \in DOMAIN View(s)' <=> IF k \in DOMAIN writes'[s] THEN writes'[s][k] # NoRow ELSE k \in DOMAIN store'
      BY DEF View
    <3> QED BY <3>1, <3>2
  <2>5. ASSUME NEW j \in DOMAIN View(s) PROVE Rewritten(j, View(s), View(s)')
    <3>1. CASE j # k
      BY <2>3, <3>1 DEF Rewritten
    <3>2. CASE j = k
      BY <2>1, <2>2, <2>3, <2>4, <3>2 DEF Rewritten
    <3> QED BY <3>1, <3>2
  <2>6. \A t \in Sessions \ {s} : \A j \in DOMAIN View(t) : Rewritten(j, View(t), View(t)')
    BY <2>3 DEF Rewritten
  <2> QED BY <2>2, <2>5, <2>6 DEF Rewritten
<1>5. CASE Ends(s)
  <2>1. pc'[s] = "done" /\ \A t \in Sessions \ {s} : writes'[t] = writes[t]
    BY <1>0, <1>5 DEF Ends, TypeInv, TypeOK
  <2>2. CASE UNCHANGED store
    <3>1. \A t \in Sessions \ {s} : View(t)' = View(t)
      BY <2>1, <2>2 DEF View
    <3> QED BY <2>1, <2>2, <3>1 DEF Rewritten
  <2>3. CASE store' = View(s)
    <3>1. ASSUME NEW t \in Sessions \ {s}, NEW k \in DOMAIN View(t) PROVE Rewritten(k, View(t), View(t)')
      <4>1. /\ k \in DOMAIN View(t)' <=>
                 IF k \in DOMAIN writes'[t] THEN writes'[t][k] # NoRow ELSE k \in DOMAIN store'
            /\ k \in DOMAIN View(t)' =>
                 View(t)'[k] = IF k \in DOMAIN writes'[t] THEN writes'[t][k] ELSE store'[k]
        BY DEF View
      <4>2. CASE k \in DOMAIN writes[t]
        <5>1. k \in DOMAIN View(t)' /\ View(t)'[k] = View(t)[k]
          BY <1>0, <2>1, <4>1, <4>2, ViewType DEF TypeInv
        <5> QED BY <5>1 DEF Rewritten
      <4>3. CASE k \notin DOMAIN writes[t]
        <5>1. k \in DOMAIN store /\ View(t)[k] = store[k]
          BY <1>0, <4>3, ViewType DEF TypeInv
        <5>2. Rewritten(k, store, View(s))
          BY <1>2, <5>1
        <5>3. /\ k \in DOMAIN View(t)' <=> k \in DOMAIN View(s)
              /\ k \in DOMAIN View(t)' => View(t)'[k] = View(s)[k]
          BY <2>1, <2>3, <4>1, <4>3
        <5> QED BY <5>1, <5>2, <5>3 DEF Rewritten
      <4> QED BY <4>2, <4>3
    <3> QED BY <1>2, <2>1, <2>3, <3>1
  <2> QED BY <1>5, <2>2, <2>3 DEF Ends
<1> QED BY <1>0, <1>3, <1>4, <1>5, Steps

(* Every step keeps what the transactions hold justified. *)
LEMMA WritesStep ==
    ASSUME SafeInv, SafeInv', WritesInv, NEW s \in Sessions, Execute(s) \/ Handle(s) \/ QueryFails(s)
    PROVE  WritesInv'
<1>0. TypeInv
  BY DEF SafeInv
<1>1. Later(InitStore, store')
  <2>1. UNCHANGED store \/ store' = View(s)
    BY <1>0, Effects
  <2>2. CASE store' = View(s)
    BY <2>2, SeenFollows, FollowsTransitive DEF WritesInv, Later, SafeInv, TypeInv
  <2> QED BY <2>1, <2>2 DEF WritesInv
<1>2. ASSUME NEW t \in Sessions, NEW k \in DOMAIN writes'[t] PROVE Justified(t, k, writes[t][k])'
  <2>1. CASE k \in DOMAIN writes[t] /\ writes'[t][k] = writes[t][k]
    <3>1. pc[t] # "idle"
      BY <2>1 DEF SafeInv, IInv, LocksExclusive, InTransaction
    <3>2. req'[t] = req[t]
      BY <1>0, <3>1, RequestStays
    <3> QED BY <2>1, <3>2 DEF WritesInv, Justified
  <2>2. CASE t = s /\ (WroteRow(s) \/ LockedRow(s)) /\ k = cur[s][1]
    <3>1. PICK row : Puts(s, k, row) /\ Justified(s, k, row)
      BY <1>0, <2>2, RowJustified
    <3>2. writes'[s][k] = row
      BY <1>0, <3>1, PutsOne
    <3>3. UNCHANGED req
      BY <2>2 DEF WroteRow, LockedRow
    <3> QED BY <2>2, <3>1, <3>2, <3>3 DEF Justified
  <2>3. CASE t # s
    BY <1>0, <2>1, <2>3, StepFrame
  <2>4. CASE t = s /\ (StaysOutside(s) \/ Fails(s) \/ Chooses(s) \/ PassesRow(s))
    BY <2>1, <2>4 DEF StaysOutside, Fails, Chooses, PassesRow
  <2>5. CASE t = s /\ (WroteRow(s) \/ LockedRow(s)) /\ k # cur[s][1]
    <3>1. PICK row : Puts(s, cur[s][1], row)
      BY <1>0, <2>5, RowJustified
    <3>2. k \in DOMAIN writes[t] /\ writes'[t][k] = writes[t][k]
      BY <1>0, <2>5, <3>1, PutsOne
    <3> QED BY <2>1, <3>2
  <2>6. CASE t = s /\ Ends(s)
    <3>1. DOMAIN writes'[s] = {}
      BY <1>0, <2>6 DEF Ends, NoWrites, TypeInv, TypeOK
    <3> QED BY <2>6, <3>1
  <2> QED BY <1>0, <2>2, <2>3, <2>4, <2>5, <2>6, Steps
<1> QED BY <1>1, <1>2 DEF WritesInv, Later, Justified

(* Nobody deletes a medium, opens a conversation or closes an account      *)
(* without a reason in its request, and no account, listing, address,      *)
(* conversation, message or picture that was there at first is lost: the   *)
(* invariant that the outcomes of requests rest on.                        *)
THEOREM WritesAreJustified == SafetySpec => []WritesInv
<1>1. Init => WritesInv
  <2>1. Later(InitStore, InitStore)
    BY DEF Later, Follows
  <2> QED BY <2>1 DEF Init, NoWrites, WritesInv
<1>2. SafeInv /\ SafeInv' /\ WritesInv /\ [Next]_vars => WritesInv'
  <2> SUFFICES ASSUME SafeInv, SafeInv', WritesInv, [Next]_vars PROVE WritesInv'
    OBVIOUS
  <2>1. CASE UNCHANGED vars
    BY <2>1 DEF vars, WritesInv, Justified, Later, Follows
  <2>2. ASSUME NEW s \in Sessions, Execute(s) \/ Handle(s) \/ QueryFails(s) PROVE WritesInv'
    BY <2>2, WritesStep
  <2> QED BY <2>1, <2>2 DEF Next, Terminating
<1> QED BY <1>1, <1>2, SafeIsInvariant, PTL DEF SafetySpec
-----------------------------------------------------------------------------
(* Database new comes after db, once the listings remade have been asked   *)
(* to get other media and the conversations reopened to be open.           *)
Onward(db, new, remade, reopened) ==
    /\ Later(db, new)
    /\ \A k \in DOMAIN db \cap MediaKey : k \in DOMAIN new \/ k[2] \in remade
    /\ \A k \in DOMAIN db \cap ConversationKey : ~db[k].open => ~new[k].open \/ k \in reopened

(* So does every step lead the database onward, and what each session      *)
(* sees.                                                                   *)
LEMMA ViewOnward ==
    ASSUME SafeInv, SafeInv', AgreeInv, WritesInv, NEW s \in Sessions, Execute(s) \/ Handle(s) \/ QueryFails(s)
    PROVE  /\ Onward(store, store', Remade', Reopened')
           /\ \A t \in Sessions : pc'[t] = "done" \/ Onward(View(t), View(t)', Remade', Reopened')
<1>0. TypeInv /\ IsDatabase(store) /\ Remade \subseteq Remade' /\ Reopened \subseteq Reopened'
  BY RequestStays DEF SafeInv, TypeInv, TypeOK
<1>1. ASSUME NEW db, NEW new, \A k \in DOMAIN db : Rewritten(k, db, new), Later(db, new)
      PROVE  Onward(db, new, Remade', Reopened')
  <2>1. ASSUME NEW k \in DOMAIN db, k \in MediaKey PROVE k \in DOMAIN new \/ k[2] \in Remade
    BY <1>1, <2>1 DEF Rewritten, Justified, Remade
  <2>2. ASSUME NEW k \in DOMAIN db, k \in ConversationKey, ~db[k].open PROVE ~new[k].open \/ k \in Reopened
    <3>1. k \in DOMAIN new
      BY <1>1, <2>2 DEF Later, Kept
    <3> QED BY <1>1, <2>2, <3>1 DEF Rewritten, Justified, Reopened
  <2> QED BY <1>0, <1>1, <2>1, <2>2 DEF Onward
<1>2. Later(store, store')
  <2>1. UNCHANGED store \/ store' = View(s)
    BY <1>0, Effects
  <2> QED BY <2>1, SeenFollows DEF Later, Follows, SafeInv, TypeInv
<1> QED BY <1>1, <1>2, ViewRewritten, ViewStep

(* What closing is to close, of what was there at first. *)
Due(r, q) ==
    {k \in DOMAIN InitStore :
        \/ q.query = "close_listings" /\ k \in ListingKey /\ InitStore[k].contributor = r.actor
        \/ /\ q.query = "close_conversations" /\ k \in ConversationKey
           /\ IF r.op = "close-listing" THEN k[3] = r.listing ELSE IsParty(InitStore, r.actor, k)}

Shut(db, k, reopened) == k \in DOMAIN db /\ (~db[k].open \/ (k \in ConversationKey /\ k \in reopened))

(* What statement q of request r, of session s, has left in database db. *)
Fulfilled(db, s, r, q, remade, reopened) ==
    /\ q.query = "create_account" => <<"account", s>> \in DOMAIN db
    /\ q.query = "store_address" => OwnsAddress(db, s, s)
    /\ q.query = "insert_pfp" => <<"picture", s>> \in DOMAIN db
    /\ q.query = "create_listing" => Owns(db, r.actor, s)
    /\ q.query = "insert_media" => <<"media", s, q.index>> \in DOMAIN db \/ s \in remade
    /\ q.query = "create_message" => <<"message", s>> \in DOMAIN db /\ IsParty(db, r.actor, r.conversation)
    /\ q.query = "close_account" =>
         <<"account", r.actor>> \in DOMAIN db /\ ~db[<<"account", r.actor>>].open
    /\ \A k \in Due(r, q) : Shut(db, k, reopened)

(* What is shut stays shut. *)
LEMMA ShutStays ==
    ASSUME NEW db, NEW new, NEW a, NEW b, NEW c, a \subseteq b, Onward(db, new, c, b), NEW k \in Kept, Shut(db, k, a),
           k \in ListingKey \cup AccountKey \cup ConversationKey
    PROVE  Shut(new, k, b)
BY DEF Shut, Onward, Later, Follows

(* What a statement has left stays, whatever the others do. *)
LEMMA FulfilledStays ==
    ASSUME NEW db, NEW new, IsDatabase(db), NEW remade, NEW reopened, NEW remade2, NEW reopened2,
           remade \subseteq remade2, reopened \subseteq reopened2, Onward(db, new, remade2, reopened2),
           NEW s \in Sessions, NEW r \in Request, NEW q \in StatementOf(r),
           Fulfilled(db, s, r, q, remade, reopened)
    PROVE  Fulfilled(new, s, r, q, remade2, reopened2)
<1>0. Later(db, new)
  BY DEF Onward
<1>1. q.query = "create_account" => <<"account", s>> \in DOMAIN new
  BY <1>0 DEF Later, Kept, Fulfilled, AccountKey, AccountID
<1>2. q.query = "store_address" => OwnsAddress(new, s, s)
  BY <1>0, LaterKeeps DEF Fulfilled
<1>3. q.query = "insert_pfp" => <<"picture", s>> \in DOMAIN new
  BY <1>0 DEF Later, Kept, Fulfilled, PictureKey, AccountID
<1>4. q.query = "create_listing" => Owns(new, r.actor, s)
  BY <1>0, LaterKeeps DEF Fulfilled, Owns
<1>5. q.query = "insert_media" => <<"media", s, q.index>> \in DOMAIN new \/ s \in remade2
  <2> SUFFICES ASSUME q.query = "insert_media", <<"media", s, q.index>> \in DOMAIN db
               PROVE  <<"media", s, q.index>> \in DOMAIN new \/ s \in remade2
    BY DEF Fulfilled
  <2>1. <<"media", s, q.index>> \in MediaKey
    BY StatementKinds DEF MediaKey, ListingID
  <2> QED BY <2>1 DEF Onward
<1>6. q.query = "create_message" => <<"message", s>> \in DOMAIN new /\ IsParty(new, r.actor, r.conversation)
  <2> SUFFICES ASSUME q.query = "create_message"
               PROVE  <<"message", s>> \in DOMAIN new /\ IsParty(new, r.actor, r.conversation)
    OBVIOUS
  <2>1. <<"message", s>> \in MessageKey
    BY DEF MessageKey
  <2>2. <<"message", s>> \in DOMAIN db /\ IsParty(db, r.actor, r.conversation)
    BY DEF Fulfilled
  <2> QED BY <1>0, <2>1, <2>2, LaterKeeps DEF Kept
<1>7. q.query = "close_account" => <<"account", r.actor>> \in DOMAIN new /\ ~new[<<"account", r.actor>>].open
  <2> SUFFICES ASSUME q.query = "close_account"
               PROVE  <<"account", r.actor>> \in DOMAIN new /\ ~new[<<"account", r.actor>>].open
    OBVIOUS
  <2>1. <<"account", r.actor>> \in DOMAIN db /\ ~db[<<"account", r.actor>>].open
    BY DEF Fulfilled
  <2>2. <<"account", r.actor>> \in AccountKey
    BY <2>1, KeyKinds DEF IsDatabase
  <2> QED BY <1>0, <2>1, <2>2 DEF Later, Follows, Kept
<1>8. \A k \in Due(r, q) : Shut(new, k, reopened2)
  BY ShutStays DEF Fulfilled, Due, Kept
<1> QED BY <1>1, <1>2, <1>3, <1>4, <1>5, <1>6, <1>7, <1>8 DEF Fulfilled
-----------------------------------------------------------------------------
(* Statements that cannot pass over their rows: each that is done has done *)
(* its part.  And those that may, but that their request depends on.       *)
Sure == {"store_address", "create_address", "insert_pfp", "create_listing", "insert_media",
         "close_listings", "close_conversations"}
Must == {"create_account", "create_message", "close_account"}

(* A request in its transaction; a statement that is done; and what it has *)
(* made, as far as others have not been asked to undo it.                  *)
Active(s) == pc[s] \in {"query", "rows", "commit"}
Finished(s, i) == i \in 1..Len(Build(req[s])) /\ (i < step[s] \/ pc[s] = "commit")
Made(db, s, q) == Fulfilled(db, s, req[s], q, Remade, Reopened)

(* What is due of statement q is shut, or among the rows it has left. *)
Covered(db, r, q, rest, reopened) ==
    \A k \in Due(r, q) : Shut(db, k, reopened) \/ \E e \in rest : e[1] = k

(* What a session has done so far: the statements done have returned and   *)
(* have left their parts, in the transaction at first and in the database  *)
(* once it is granted; and the closing statement it is at has the rows     *)
(* before it that it has not closed yet.                                   *)
Progress(s) ==
    /\ pc[s] # "idle" => returned[s] \subseteq Names(req[s].op)
    /\ Active(s) =>
         /\ \A i : Finished(s, i) /\ Build(req[s])[i].query \in Sure =>
              /\ Build(req[s])[i].query \in returned[s] \cup Unreturning
              /\ Made(View(s), s, Build(req[s])[i])
         /\ \A q \in StatementOf(req[s]) : q.query \in returned[s] \cap Must => Made(View(s), s, q)
    /\ pc[s] = "rows" =>
         /\ Backreference(req[s], Statement(s)) \subseteq returned[s]
         /\ Covered(View(s), req[s], Statement(s), todo[s], Reopened)
    /\ Settled(s) =>
         \A i \in 1..Len(Build(req[s])) :
            Build(req[s])[i].query \in Sure \cup Must => Made(store, s, Build(req[s])[i])

ProgressInv == \A s \in Sessions : Progress(s)

(* What a request has made, in the database or in its transaction, stays. *)
LEMMA MadeStays ==
    ASSUME SafeInv, SafeInv', AgreeInv, WritesInv, NEW s \in Sessions, Execute(s) \/ Handle(s) \/ QueryFails(s),
           NEW t \in Sessions, pc[t] # "idle"
    PROVE  /\ \A q \in StatementOf(req[t]) :
                /\ Made(store, t, q) => Fulfilled(store', t, req[t], q, Remade', Reopened')
                /\ pc'[t] # "done" /\ Made(View(t), t, q) => Fulfilled(View(t)', t, req[t], q, Remade', Reopened')
           /\ \A q, rest : pc'[t] # "done" /\ Covered(View(t), req[t], q, rest, Reopened) =>
                              Covered(View(t)', req[t], q, rest, Reopened')
           /\ pc'[t] # "idle" /\ req'[t] = req[t] /\ req[t] \in Request
<1>0. /\ TypeInv /\ Remade \subseteq Remade' /\ Reopened \subseteq Reopened'
      /\ pc'[t] # "idle" /\ req'[t] = req[t]
  BY RequestStays DEF SafeInv
<1>1. /\ Onward(store, store', Remade', Reopened')
      /\ pc'[t] = "done" \/ Onward(View(t), View(t)', Remade', Reopened')
  BY ViewOnward
<1>2. req[t] \in Request /\ IsDatabase(store) /\ IsDatabase(View(t))
  BY <1>0, ViewType DEF TypeInv, TypeOK, Position
<1>3. \A q \in StatementOf(req[t]) : Made(store, t, q) => Fulfilled(store', t, req[t], q, Remade', Reopened')
  BY <1>0, <1>1, <1>2, FulfilledStays DEF Made
<1>4. \A q \in StatementOf(req[t]) :
         pc'[t] # "done" /\ Made(View(t), t, q) => Fulfilled(View(t)', t, req[t], q, Remade', Reopened')
  BY <1>0, <1>1, <1>2, FulfilledStays DEF Made
<1>5. ASSUME pc'[t] # "done", NEW q, NEW k \in Due(req[t], q), Shut(View(t), k, Reopened)
      PROVE  Shut(View(t)', k, Reopened')
  BY <1>0, <1>1, <1>5, ShutStays DEF Due, Kept
<1> QED BY <1>0, <1>2, <1>3, <1>4, <1>5 DEF Covered

(* The progress of the others. *)
LEMMA OthersProgress ==
    ASSUME SafeInv, SafeInv', AgreeInv, WritesInv, ProgressInv,
           NEW s \in Sessions, Execute(s) \/ Handle(s) \/ QueryFails(s), NEW t \in Sessions, t # s
    PROVE  Progress(t)'
<1>0. /\ pc'[t] = pc[t] /\ req'[t] = req[t] /\ returned'[t] = returned[t]
      /\ error'[t] = error[t] /\ todo'[t] = todo[t] /\ step'[t] = step[t]
      /\ Progress(t)
  BY StepFrame DEF SafeInv, ProgressInv
<1>1. CASE pc[t] = "idle"
  BY <1>0, <1>1 DEF Progress, Active, Settled
<1>2. CASE pc[t] # "idle"
  <2>0. /\ \A q \in StatementOf(req[t]) :
                /\ Made(store, t, q) => Fulfilled(store', t, req[t], q, Remade', Reopened')
                /\ pc'[t] # "done" /\ Made(View(t), t, q) => Fulfilled(View(t)', t, req[t], q, Remade', Reopened')
        /\ \A q, rest : pc'[t] # "done" /\ Covered(View(t), req[t], q, rest, Reopened) =>
                              Covered(View(t)', req[t], q, rest, Reopened')
        /\ req[t] \in Request
    BY <1>2, MadeStays
  <2>1. \A i \in 1..Len(Build(req[t])) : Build(req[t])[i] \in StatementOf(req[t])
    BY <2>0, BuildElements
  <2>2. (pc[t] # "idle" => returned[t] \subseteq Names(req[t].op))'
    BY <1>0 DEF Progress
  <2>3. (Active(t) => \A i : Finished(t, i) /\ Build(req[t])[i].query \in Sure =>
              /\ Build(req[t])[i].query \in returned[t] \cup Unreturning
              /\ Made(View(t), t, Build(req[t])[i]))'
    BY <1>0, <2>0, <2>1 DEF Progress, Active, Finished, Made
  <2>4. (Active(t) => \A q \in StatementOf(req[t]) : q.query \in returned[t] \cap Must => Made(View(t), t, q))'
    BY <1>0, <2>0 DEF Progress, Active, Made
  <2>5. (pc[t] = "rows" => /\ Backreference(req[t], Statement(t)) \subseteq returned[t]
                           /\ Covered(View(t), req[t], Statement(t), todo[t], Reopened))'
    <3>1. Statement(t)' = Statement(t)
      BY <1>0 DEF Statement
    <3> QED BY <1>0, <2>0, <3>1 DEF Progress
  <2>6. (Settled(t) => \A i \in 1..Len(Build(req[t])) :
            Build(req[t])[i].query \in Sure \cup Must => Made(store, t, Build(req[t])[i]))'
    BY <1>0, <2>0, <2>1 DEF Progress, Settled, Unheard, Made
  <2> QED BY <2>2, <2>3, <2>4, <2>5, <2>6 DEF Progress
<1> QED BY <1>1, <1>2
-----------------------------------------------------------------------------
(* What is due to be closed: nothing, but for the closing statements. *)
LEMMA DueKinds ==
    ASSUME NEW r, NEW q
    PROVE  /\ Due(r, q) \subseteq DOMAIN InitStore
           /\ q.query \notin {"close_listings", "close_conversations"} => Due(r, q) = {}
           /\ \A k \in Due(r, q) : k \in Kept /\ k \in ListingKey \cup ConversationKey
BY DEF Due, Kept

(* A closing statement chooses all that is due. *)
LEMMA DueChosen ==
    ASSUME SafeInv, WritesInv, NEW s \in Sessions, NEW r, NEW q
    PROVE  /\ Later(InitStore, View(s))
           /\ Due(r, q) \subseteq Chosen(View(s), s, r, q)
<1>0. /\ IsDatabase(InitStore) /\ IsDatabase(View(s))
      /\ TypeOK /\ VersionsInv /\ Later(InitStore, store)
  BY ViewType, MarketplaceAssumption DEF SafeInv, TypeInv, WritesInv
<1>1. Later(store, View(s))
  BY <1>0, SeenFollows DEF Later
<1>2. Later(InitStore, View(s))
  BY <1>0, <1>1, FollowsTransitive DEF Later
<1>3. ASSUME NEW k \in Due(r, q) PROVE k \in Chosen(View(s), s, r, q)
  <2>1. k \in DOMAIN View(s) /\ Follows(k, InitStore[k], View(s)[k])
    BY <1>2, <1>3, DueKinds DEF Later
  <2>2. CASE q.query = "close_listings"
    <3>1. k \in ListingKey /\ View(s)[k].contributor = r.actor
      BY <1>3, <2>1, <2>2 DEF Due, Follows
    <3> QED BY <2>1, <2>2, <3>1 DEF Chosen, Selects, Inserts, Upserts, PlainInserts, AccountUpdates, ListingUpdates
  <2>3. CASE q.query = "close_conversations"
    <3>1. k \in ConversationKey /\ IF r.op = "close-listing" THEN k[3] = r.listing ELSE IsParty(InitStore, r.actor, k)
      BY <1>3, <2>3 DEF Due
    <3>2. IsParty(InitStore, r.actor, k) => IsParty(View(s), r.actor, k)
      BY <1>0, <1>2, LaterKeeps
    <3>3. Selects(View(s), r, q, k)
      BY <2>3, <3>1, <3>2 DEF Selects, AccountUpdates, ListingUpdates
    <3> QED BY <2>1, <2>3, <3>3 DEF Chosen, Inserts, Upserts, PlainInserts
  <2> QED BY <1>3, <2>2, <2>3, DueKinds
<1> QED BY <1>2, <1>3

(* It passes over nothing that is due. *)
LEMMA DueNotPassed ==
    ASSUME SafeInv, WritesInv, NEW s \in Sessions, pc[s] = "rows", Skips(s)
    PROVE  cur[s][1] \notin Due(req[s], Statement(s))
<1> SUFFICES ASSUME cur[s][1] \in Due(req[s], Statement(s)) PROVE FALSE
  OBVIOUS
<1> DEFINE k == cur[s][1]
           q == Statement(s)
<1>1. q.query \in {"close_listings", "close_conversations"} /\ k \in DOMAIN InitStore /\ k \in Kept
  BY DueKinds
<1>2. k \in DOMAIN View(s) /\ IsDatabase(View(s)) /\ k \in Key
  BY <1>1, DueChosen, ViewType DEF Later, SafeInv, TypeInv, IsDatabase
<1>3. Lookup(View(s), k) # NoRow
  BY <1>2, LookupType
<1>4. k \notin SavedListingKey \cup MediaKey
  BY <1>1, <1>2, KeyKinds DEF Kept
<1>5. ~Gone(s)
  BY <1>3, <1>4 DEF Gone
<1>6. StillSelects(q, View(s)[k])
  BY <1>1 DEF StillSelects, AccountUpdates, ListingUpdates
<1>7. q.query \notin Inserts
  BY <1>1 DEF Inserts, Upserts, PlainInserts
<1> QED BY <1>5, <1>6, <1>7 DEF Skips

(* A closing statement closes the row it writes. *)
LEMMA WriteCloses ==
    ASSUME SafeInv, SafeInv', NEW s \in Sessions, WroteRow(s),
           Statement(s).query \in {"close_listings", "close_conversations", "close_account"}
    PROVE  cur[s][1] \in DOMAIN View(s)' /\ ~View(s)'[cur[s][1]].open
<1> DEFINE k == cur[s][1]
           old == View(s)[k]
           q == Statement(s)
           row == [old EXCEPT !.open = FALSE]
<1>0. TypeInv /\ TypeInv' /\ pc[s] = "rows" /\ ~Skips(s) /\ UNCHANGED store
  BY DEF SafeInv, WroteRow
<1>1. q.query \notin Inserts
  BY DEF Inserts, Upserts, PlainInserts
<1>2. /\ req[s] \in Request /\ q \in StatementOf(req[s]) /\ k \in Key /\ k \in Aims(s, req[s], q)
      /\ k \in DOMAIN View(s) /\ old \in RowOf(k)
  BY <1>0, <1>1, RowAt
<1>3. Puts(s, k, row)
  BY <1>1 DEF WroteRow, Writes, Written, Updated
<1>4. ASSUME row \in RowOf(k), ~row.open PROVE k \in DOMAIN View(s)' /\ ~View(s)'[k].open
  <2>1. row # NoRow
    BY <1>2, <1>4, RowsAreRows, MarketplaceAssumption
  <2> HIDE DEF row, k, old, q
  <2>2. k \in DOMAIN View(s)' /\ View(s)'[k] = row
    BY <1>0, <1>3, <2>1, WrittenView
  <2> QED BY <1>4, <2>2
<1>5. CASE q.query = "close_account"
  <2>1. k = <<"account", req[s].actor>>
    BY <1>1, <1>2, <1>5 DEF Aims, AccountUpdates
  <2>2. old \in AccountRow /\ RowOf(k) = AccountRow
    BY <1>2, <2>1, KeyKinds, RowKinds
  <2>3. row \in AccountRow
    BY <2>2, ChangedRows
  <2>4. ~row.open
    BY <2>2 DEF AccountRow
  <2> HIDE DEF k, row, old, q
  <2>5. k \in DOMAIN View(s)' /\ ~View(s)'[k].open
    BY <1>4, <2>2, <2>3, <2>4
  <2> QED BY <2>5 DEF k
<1>6. CASE q.query = "close_listings"
  <2>1. k \in ListingKey
    BY <1>1, <1>2, <1>6 DEF Aims
  <2>2. old \in ListingRow /\ RowOf(k) = ListingRow
    BY <1>2, <2>1, RowKinds
  <2>3. row \in ListingRow
    BY <2>2, ChangedRows
  <2>4. ~row.open
    BY <2>2 DEF ListingRow
  <2> HIDE DEF k, row, old, q
  <2>5. k \in DOMAIN View(s)' /\ ~View(s)'[k].open
    BY <1>4, <2>2, <2>3, <2>4
  <2> QED BY <2>5 DEF k
<1>7. CASE q.query = "close_conversations"
  <2>1. k \in ConversationKey
    BY <1>1, <1>2, <1>7 DEF Aims
  <2>2. old \in ConversationRow /\ RowOf(k) = ConversationRow
    BY <1>2, <2>1, RowKinds
  <2>3. row \in ConversationRow
    BY <2>2, ChangedRows
  <2>4. ~row.open
    BY <2>2 DEF ConversationRow
  <2> HIDE DEF k, row, old, q
  <2>5. k \in DOMAIN View(s)' /\ ~View(s)'[k].open
    BY <1>4, <2>2, <2>3, <2>4
  <2> QED BY <2>5 DEF k
<1> QED BY <1>5, <1>6, <1>7

(* Each of the other statements has done its part with the row it writes. *)
LEMMA WriteFulfils ==
    ASSUME SafeInv, SafeInv', AgreeInv, NEW s \in Sessions, WroteRow(s),
           Statement(s).query \in (Sure \cup Must) \ Unreturning, NEW remade, NEW reopened
    PROVE  Fulfilled(View(s)', s, req[s], Statement(s), remade, reopened)
<1> DEFINE k == cur[s][1]
           q == Statement(s)
           r == req[s]
           row == Written(View(s), s, r, q, k)
           new == View(s)'
<1>0. /\ TypeInv /\ TypeInv' /\ pc[s] = "rows" /\ ~Skips(s) /\ UNCHANGED store
      /\ Puts(s, k, row) /\ Violation(View(s), s, r, q, k) = "null"
  BY DEF SafeInv, WroteRow, Writes
<1>1. /\ r \in Request /\ q \in StatementOf(r) /\ k \in Key /\ IsDatabase(View(s))
      /\ q.query \in Inserts => k = InsertedKey(s, r, q)
  BY <1>0, RowAt
<1>2. Due(r, q) = {}
  BY DueKinds DEF Unreturning
<1>3. CASE q.query = "close_account"
  <2>1. k = <<"account", r.actor>>
    BY <1>0, <1>3, RowAt DEF Aims, AccountUpdates, Inserts, Upserts, PlainInserts
  <2>2. k \in DOMAIN new /\ ~new[k].open
    BY <1>3, WriteCloses
  <2> QED BY <1>2, <1>3, <2>1, <2>2 DEF Fulfilled
<1>4. CASE q.query # "close_account"
  <2>0. q.query \in {"store_address", "create_address", "insert_pfp", "create_listing", "insert_media",
                     "create_account", "create_message"}
    BY <1>4 DEF Sure, Must, Unreturning
  <2>1. q.query \in Inserts
    BY <2>0 DEF Inserts, Upserts, PlainInserts
  <2>2. k = InsertedKey(s, r, q) /\ row = Inserted(View(s), s, r, q, k)
    BY <1>1, <2>1 DEF Written
  <2>3. row \in RowOf(k)
    BY <1>1, <2>1, <2>2, InsertedType
  <2>4. row # NoRow
    BY <1>1, <2>3, RowsAreRows, MarketplaceAssumption
  <2>5. /\ k \in DOMAIN new /\ new[k] = row
        /\ \A j \in DOMAIN View(s) : j # k => j \in DOMAIN new /\ new[j] = View(s)[j]
    <3> HIDE DEF row, k
    <3> QED BY <1>0, <2>4, WrittenView
  <2>6. q.query = "store_address" => OwnsAddress(new, s, s)
    <3> SUFFICES ASSUME q.query = "store_address" PROVE OwnsAddress(new, s, s)
      OBVIOUS
    <3>1. k = <<"address", s>> /\ row = [owner |-> s]
      BY <2>2 DEF InsertedKey, Inserted
    <3> HIDE DEF row, k, new
    <3> QED BY <2>5, <3>1 DEF OwnsAddress
  <2>7. q.query = "create_listing" => Owns(new, r.actor, s)
    <3> SUFFICES ASSUME q.query = "create_listing" PROVE Owns(new, r.actor, s)
      OBVIOUS
    <3>1. k = <<"listing", s>> /\ row.contributor = r.actor
      BY <2>2 DEF InsertedKey, Inserted
    <3> HIDE DEF row, k, new
    <3> QED BY <2>5, <3>1 DEF Owns
  <2>8. q.query = "create_message" => <<"message", s>> \in DOMAIN new /\ IsParty(new, r.actor, r.conversation)
    <3> SUFFICES ASSUME q.query = "create_message"
                 PROVE  <<"message", s>> \in DOMAIN new /\ IsParty(new, r.actor, r.conversation)
      OBVIOUS
    <3>1. k = <<"message", s>>
      BY <2>2 DEF InsertedKey
    <3>2. cur[s] \in todo[s]
      BY <1>0 DEF TypeInv, Position
    <3>3. Source(View(s), r, q, k)
      BY <1>0, <3>2 DEF AgreeInv
    <3>4. IsParty(View(s), r.actor, r.conversation)
      BY <3>3 DEF Source
    <3>5. \A l : <<"listing", l>> # k
      BY <3>1
    <3> HIDE DEF row, k, new
    <3> QED BY <2>5, <3>1, <3>4, <3>5 DEF IsParty, Owns
  <2>9. /\ q.query = "create_account" => <<"account", s>> \in DOMAIN new
        /\ q.query = "insert_pfp" => <<"picture", s>> \in DOMAIN new
        /\ q.query = "insert_media" => <<"media", s, q.index>> \in DOMAIN new
    <3>1. /\ q.query = "create_account" => k = <<"account", s>>
          /\ q.query = "insert_pfp" => k = <<"picture", s>>
          /\ q.query = "insert_media" => k = <<"media", s, q.index>>
      BY <2>2 DEF InsertedKey
    <3> HIDE DEF row, k, new
    <3> QED BY <2>5, <3>1
  <2> HIDE DEF row, k, new
  <2>10. Fulfilled(new, s, r, q, remade, reopened)
    BY <1>2, <2>0, <2>6, <2>7, <2>8, <2>9 DEF Fulfilled
  <2> QED BY <2>10 DEF new
<1> QED BY <1>3, <1>4
-----------------------------------------------------------------------------
(* A statement that goes on: to its next row, to the next statement, or to *)
(* COMMIT.                                                                 *)
LEMMA GoesProgress ==
    ASSUME SafeInv, SafeInv', AgreeInv, WritesInv, NEW s \in Sessions, Execute(s) \/ Handle(s) \/ QueryFails(s),
           Progress(s), pc[s] \in {"query", "rows"}, UNCHANGED req, NEW rest, NEW names, Goes(s, rest, names),
           names \subseteq Names(req[s].op),
           Backreference(req[s], Statement(s)) \subseteq returned[s],
           Covered(View(s)', req[s], Statement(s), rest, Reopened'),
           \A q \in StatementOf(req[s]) :
              q.query \in names \cap Must => Fulfilled(View(s)', s, req[s], q, Remade', Reopened'),
           rest = {} /\ Statement(s).query \in Sure =>
              /\ Statement(s).query \in returned[s] \cup names \cup Unreturning
              /\ Fulfilled(View(s)', s, req[s], Statement(s), Remade', Reopened')
    PROVE  Progress(s)'
<1> DEFINE r == req[s]
           b == Build(r)
           n == step[s]
<1>0. /\ r \in Request /\ n \in 1..Len(b) /\ Len(b) \in Nat
      /\ \A i \in 1..Len(b) : b[i] \in StatementOf(r)
      /\ Statement(s) = b[n] /\ req'[s] = r
  <2>1. r \in Request /\ n \in 1..Len(b)
    BY DEF SafeInv, TypeInv, Position
  <2> QED BY <2>1, BuildElements DEF Statement
<1>1. pc'[s] # "done" /\ returned'[s] = returned[s] \cup names /\ Active(s) /\ pc[s] # "idle" /\ pc[s] # "commit"
  BY DEF Goes, Active
<1>2. \A q \in StatementOf(r) : Made(View(s), s, q) => Fulfilled(View(s)', s, r, q, Remade', Reopened')
  BY <1>1, MadeStays
<1>3. /\ returned[s] \subseteq Names(r.op)
      /\ \A i : Finished(s, i) /\ b[i].query \in Sure => b[i].query \in returned[s] \cup Unreturning /\ Made(View(s), s, b[i])
      /\ \A q \in StatementOf(r) : q.query \in returned[s] \cap Must => Made(View(s), s, q)
  BY <1>1 DEF Progress
<1> HIDE DEF r, b, n
<1>4. ASSUME NEW i \in 1..Len(b), i < step'[s] \/ pc'[s] = "commit", b[i].query \in Sure
      PROVE  /\ b[i].query \in returned'[s] \cup Unreturning
             /\ Fulfilled(View(s)', s, r, b[i], Remade', Reopened')
  <2>1. CASE i < n
    <3>1. Finished(s, i)
      BY <2>1 DEF Finished, b, r, n
    <3> QED BY <1>0, <1>1, <1>2, <1>3, <1>4, <3>1
  <2>2. CASE ~(i < n)
    <3>1. i = n /\ rest = {}
      <4>1. CASE rest # {} /\ pc'[s] = "rows" /\ step'[s] = step[s]
        BY <1>4, <2>2, <4>1 DEF n
      <4>2. CASE rest = {} /\ pc'[s] = "query" /\ step'[s] = step[s] + 1
        BY <1>0, <1>4, <2>2, <4>2 DEF n
      <4>3. CASE rest = {} /\ step[s] = Len(Build(req[s])) /\ pc'[s] = "commit"
        BY <1>0, <1>4, <2>2, <4>3 DEF n, b, r
      <4> QED BY <4>1, <4>2, <4>3 DEF Goes
    <3> QED BY <1>0, <1>1, <1>4, <3>1 DEF r
  <2> QED BY <2>1, <2>2
<1>5. (pc[s] # "idle" => returned[s] \subseteq Names(req[s].op))'
  BY <1>0, <1>1, <1>3 DEF r
<1>6. (Active(s) => \A i : Finished(s, i) /\ Build(req[s])[i].query \in Sure =>
              /\ Build(req[s])[i].query \in returned[s] \cup Unreturning
              /\ Made(View(s), s, Build(req[s])[i]))'
  BY <1>0, <1>4 DEF Finished, Made, b
<1>7. (Active(s) => \A q \in StatementOf(req[s]) : q.query \in returned[s] \cap Must => Made(View(s), s, q))'
  BY <1>0, <1>1, <1>2, <1>3 DEF Made, r
<1>8. (pc[s] = "rows" => /\ Backreference(req[s], Statement(s)) \subseteq returned[s]
                         /\ Covered(View(s), req[s], Statement(s), todo[s], Reopened))'
  <2> SUFFICES ASSUME pc'[s] = "rows"
               PROVE  (/\ Backreference(req[s], Statement(s)) \subseteq returned[s]
                       /\ Covered(View(s), req[s], Statement(s), todo[s], Reopened))'
    OBVIOUS
  <2>1. step'[s] = step[s] /\ todo'[s] = rest
    BY DEF Goes
  <2>2. Statement(s)' = Statement(s)
    BY <2>1 DEF Statement
  <2> QED BY <1>0, <1>1, <2>1, <2>2 DEF r
<1>9. ~Settled(s)'
  BY <1>1 DEF Settled
<1> QED BY <1>5, <1>6, <1>7, <1>8, <1>9 DEF Progress

(* The statement that has no row left to visit has nothing due that is not *)
(* shut.                                                                   *)
LEMMA CoveredIsFulfilled ==
    ASSUME NEW db, NEW s, NEW r, NEW q, NEW remade, NEW reopened,
           q.query \in {"close_listings", "close_conversations"}, Covered(db, r, q, {}, reopened)
    PROVE  Fulfilled(db, s, r, q, remade, reopened)
BY DEF Covered, Fulfilled

(* A statement that chooses its rows. *)
LEMMA ChoosesProgress ==
    ASSUME SafeInv, SafeInv', AgreeInv, WritesInv, NEW s \in Sessions, Execute(s) \/ Handle(s) \/ QueryFails(s),
           Progress(s), Chooses(s)
    PROVE  Progress(s)'
<1> DEFINE r == req[s]
           q == Statement(s)
           chosen == {<<k, Lookup(View(s), k)>> : k \in Chosen(View(s), s, r, q)}
<1>0. /\ pc[s] = "query" /\ UNCHANGED req /\ Goes(s, chosen, {})
      /\ Backreference(r, q) \subseteq returned[s] /\ pc'[s] # "done" /\ View(s)' = View(s)
  BY DEF Chooses, Goes, View
<1>1. r \in Request /\ q \in StatementOf(r)
  BY <1>0, StatementType DEF SafeInv
<1>2. Covered(View(s)', r, q, chosen, Reopened')
  <2>1. Due(r, q) \subseteq Chosen(View(s), s, r, q)
    BY DueChosen
  <2>2. ASSUME NEW k \in Chosen(View(s), s, r, q) PROVE \E e \in chosen : e[1] = k
    <3>1. <<k, Lookup(View(s), k)>> \in chosen
      BY <2>2
    <3> QED BY <3>1
  <2> HIDE DEF chosen, r, q
  <2> QED BY <2>1, <2>2 DEF Covered
<1>3. ASSUME chosen = {}, q.query \in Sure
      PROVE  q.query \in returned[s] \cup {} \cup Unreturning /\ Fulfilled(View(s)', s, r, q, Remade', Reopened')
  <2>1. Chosen(View(s), s, r, q) = {}
    BY <1>3
  <2>2. q.query \in {"close_listings", "close_conversations"}
    <3> SUFFICES ASSUME q.query \in Sure \ {"close_listings", "close_conversations"} PROVE FALSE
      BY <1>3
    <3>1. q.query \in Inserts /\ SelectsSource(View(s), r, q)
      BY DEF Sure, Inserts, Upserts, PlainInserts, SelectsSource
    <3>2. InsertedKey(s, r, q) \in Chosen(View(s), s, r, q)
      BY <3>1 DEF Chosen
    <3> QED BY <2>1, <3>2
  <2>3. Covered(View(s)', r, q, {}, Reopened')
    BY <1>2, <1>3
  <2> HIDE DEF chosen, r, q
  <2> QED BY <2>2, <2>3, CoveredIsFulfilled DEF Unreturning
<1> HIDE DEF chosen
<1> QED BY <1>0, <1>2, <1>3, GoesProgress

(* A row passed over. *)
LEMMA PassesProgress ==
    ASSUME SafeInv, SafeInv', AgreeInv, WritesInv, NEW s \in Sessions, Execute(s) \/ Handle(s) \/ QueryFails(s),
           Progress(s), PassesRow(s)
    PROVE  Progress(s)'
<1> DEFINE r == req[s]
           q == Statement(s)
           rest == todo[s] \ {cur[s]}
<1>0. /\ pc[s] = "rows" /\ UNCHANGED req /\ Skips(s) /\ Goes(s, rest, {}) /\ pc'[s] # "done"
      /\ Backreference(r, q) \subseteq returned[s] /\ Covered(View(s), r, q, todo[s], Reopened)
  BY DEF PassesRow, Goes, Progress
<1>1. Covered(View(s)', r, q, rest, Reopened')
  <2>1. Covered(View(s)', r, q, todo[s], Reopened')
    BY <1>0, MadeStays
  <2>2. cur[s][1] \notin Due(r, q)
    BY <1>0, DueNotPassed
  <2> QED BY <2>1, <2>2 DEF Covered
<1>2. ASSUME rest = {}, q.query \in Sure
      PROVE  q.query \in returned[s] \cup {} \cup Unreturning /\ Fulfilled(View(s)', s, r, q, Remade', Reopened')
  <2>1. q.query \in {"close_listings", "close_conversations"}
    BY <1>0, <1>2 DEF Sure, Skips, Inserts, Upserts, PlainInserts
  <2>2. Covered(View(s)', r, q, {}, Reopened')
    BY <1>1, <1>2
  <2> HIDE DEF rest, r, q
  <2> QED BY <2>1, <2>2, CoveredIsFulfilled DEF Unreturning
<1> HIDE DEF rest
<1> QED BY <1>0, <1>1, <1>2, GoesProgress

(* A row written. *)
LEMMA WriteProgress ==
    ASSUME SafeInv, SafeInv', AgreeInv, WritesInv, NEW s \in Sessions, Execute(s) \/ Handle(s) \/ QueryFails(s),
           Progress(s), WroteRow(s)
    PROVE  Progress(s)'
<1> DEFINE r == req[s]
           q == Statement(s)
           rest == todo[s] \ {cur[s]}
           names == {q.query} \ Unreturning
<1>0. /\ pc[s] = "rows" /\ UNCHANGED req /\ Goes(s, rest, names) /\ pc'[s] # "done"
      /\ Backreference(r, q) \subseteq returned[s] /\ Covered(View(s), r, q, todo[s], Reopened)
  BY DEF WroteRow, Goes, Progress
<1>1. r \in Request /\ q \in StatementOf(r)
  BY <1>0, StatementType DEF SafeInv
<1>2. names \subseteq Names(r.op)
  BY <1>1 DEF StatementOf
<1>3. Covered(View(s)', r, q, rest, Reopened')
  <2>1. Covered(View(s)', r, q, todo[s], Reopened')
    BY <1>0, MadeStays
  <2>2. cur[s][1] \in Due(r, q) => Shut(View(s)', cur[s][1], Reopened')
    BY WriteCloses, DueKinds DEF Shut
  <2> QED BY <2>1, <2>2 DEF Covered
<1>4. ASSUME q.query \in (Sure \cup Must) \ Unreturning PROVE Fulfilled(View(s)', s, r, q, Remade', Reopened')
  BY <1>4, WriteFulfils
<1>5. ASSUME NEW p \in StatementOf(r), p.query \in names \cap Must
      PROVE  Fulfilled(View(s)', s, r, p, Remade', Reopened')
  <2>1. p.query = q.query /\ q.query \in Must \ Unreturning
    BY <1>5
  <2>2. Fulfilled(View(s)', s, r, q, Remade', Reopened')
    BY <1>4, <2>1
  <2> HIDE DEF r, q
  <2> QED BY <2>1, <2>2 DEF Fulfilled, Due, Must
<1>6. ASSUME rest = {}, q.query \in Sure
      PROVE  /\ q.query \in returned[s] \cup names \cup Unreturning
             /\ Fulfilled(View(s)', s, r, q, Remade', Reopened')
  <2>1. CASE q.query \in Unreturning
    <3>1. q.query \in {"close_listings", "close_conversations"}
      BY <1>6, <2>1 DEF Sure, Unreturning
    <3>2. Covered(View(s)', r, q, {}, Reopened')
      BY <1>3, <1>6
    <3> HIDE DEF rest, r, q
    <3> QED BY <2>1, <3>1, <3>2, CoveredIsFulfilled
  <2>2. CASE q.query \notin Unreturning
    BY <1>4, <1>6, <2>2
  <2> QED BY <2>1, <2>2
<1> HIDE DEF rest, names
<1> QED BY <1>0, <1>2, <1>3, <1>5, <1>6, GoesProgress

(* A row locked. *)
LEMMA LockProgress ==
    ASSUME SafeInv, SafeInv', AgreeInv, WritesInv, NEW s \in Sessions, Execute(s) \/ Handle(s) \/ QueryFails(s),
           Progress(s), LockedRow(s)
    PROVE  Progress(s)'
<1>0. /\ pc[s] = "rows" /\ UNCHANGED <<req, pc, step, todo, returned>> /\ pc'[s] # "done"
      /\ Statement(s)' = Statement(s) /\ Active(s)
  BY DEF LockedRow, Statement, Active
<1>1. /\ \A q \in StatementOf(req[s]) :
           Made(View(s), s, q) => Fulfilled(View(s)', s, req[s], q, Remade', Reopened')
      /\ \A q, rest : Covered(View(s), req[s], q, rest, Reopened) => Covered(View(s)', req[s], q, rest, Reopened')
      /\ req[s] \in Request
  BY <1>0, MadeStays
<1>2. \A i \in 1..Len(Build(req[s])) : Build(req[s])[i] \in StatementOf(req[s])
  BY <1>1, BuildElements
<1>3. (Active(s) => \A i : Finished(s, i) /\ Build(req[s])[i].query \in Sure =>
              /\ Build(req[s])[i].query \in returned[s] \cup Unreturning
              /\ Made(View(s), s, Build(req[s])[i]))'
  BY <1>0, <1>1, <1>2 DEF Progress, Finished, Made
<1>4. (Active(s) => \A q \in StatementOf(req[s]) : q.query \in returned[s] \cap Must => Made(View(s), s, q))'
  BY <1>0, <1>1 DEF Progress, Made
<1>5. (pc[s] = "rows" => /\ Backreference(req[s], Statement(s)) \subseteq returned[s]
                         /\ Covered(View(s), req[s], Statement(s), todo[s], Reopened))'
  BY <1>0, <1>1 DEF Progress
<1> QED BY <1>0, <1>3, <1>4, <1>5 DEF Progress, Settled

(* A transaction that commits, and whose answer is not an error, has done  *)
(* all that its request depends on.                                        *)
LEMMA EndProgress ==
    ASSUME SafeInv, SafeInv', AgreeInv, WritesInv, OutcomeInv, NEW s \in Sessions,
           Execute(s) \/ Handle(s) \/ QueryFails(s), Progress(s), Ends(s)
    PROVE  Progress(s)'
<1>0. /\ UNCHANGED <<req, returned>> /\ pc'[s] = "done" /\ pc[s] # "idle" /\ TypeInv
      /\ pc[s] = "rollback" => error[s] \notin {"null", "Unacknowledged"} /\ UNCHANGED error
      /\ pc[s] = "commit" =>
           store' = View(s) /\ error'[s] \in {PrepareResults(req[s].op, returned[s]), "Unacknowledged"}
      /\ pc[s] \in {"commit", "rollback"}
  BY DEF Ends, SafeInv, OutcomeInv, Knows
<1>1. req[s] \in Request /\ Remade \subseteq Remade' /\ Reopened \subseteq Reopened' /\ IsDatabase(View(s))
  BY <1>0, RequestStays, ViewType DEF TypeInv, Position
<1>2. ASSUME Settled(s)', NEW i \in 1..Len(Build(req[s])), Build(req[s])[i].query \in Sure \cup Must
      PROVE  Fulfilled(store', s, req[s], Build(req[s])[i], Remade', Reopened')
  <2> DEFINE q == Build(req[s])[i]
  <2>1. pc[s] = "commit" /\ store' = View(s) /\ ~(returned[s] \subseteq DropFromResults(req[s].op))
    BY <1>0, <1>2 DEF Settled, Unheard, PrepareResults
  <2>2. q \in StatementOf(req[s]) /\ returned[s] \subseteq Names(req[s].op) /\ Active(s)
    BY <1>0, <1>1, <2>1, BuildElements DEF Progress, Active
  <2>3. q.query \in Must => q.query \in returned[s]
    <3> SUFFICES ASSUME q.query \in Must PROVE q.query \in returned[s]
      OBVIOUS
    <3>1. \/ req[s].op = "create-account" /\ q.query = "create_account"
          \/ req[s].op = "close-account" /\ q.query = "close_account"
          \/ req[s].op = "create-message" /\ q.query = "create_message"
      <4>1. q.query \in Names(req[s].op)
        BY <2>2 DEF StatementOf
      <4> QED BY <1>1, <4>1, RequestKinds DEF Names, Must
    <3> HIDE DEF q
    <3> QED BY <2>1, <2>2, <3>1 DEF Names, DropFromResults
  <2>4. Made(View(s), s, q)
    BY <1>2, <2>1, <2>2, <2>3 DEF Progress, Finished
  <2>5. Onward(View(s), View(s), Remade', Reopened')
    BY DEF Onward, Later, Follows
  <2> HIDE DEF q
  <2> QED BY <1>1, <2>1, <2>2, <2>4, <2>5, FulfilledStays DEF Made, q
<1> QED BY <1>0, <1>2 DEF Progress, Active, Settled, Made

(* The steps before a transaction, and a statement that fails. *)
LEMMA OutsideProgress ==
    ASSUME SafeInv, SafeInv', OutcomeInv, NEW s \in Sessions, Progress(s), StaysOutside(s) \/ Fails(s)
    PROVE  Progress(s)'
<1>1. CASE StaysOutside(s)
  <2>1. /\ step'[s] = 1 /\ returned'[s] = {}
        /\ \/ pc'[s] \in {"password", "store", "query"}
           \/ pc'[s] = "done" /\ error'[s] \notin {"null", "Unacknowledged"}
    BY <1>1 DEF StaysOutside, SafeInv, TypeInv, Position, OutcomeInv, Knows
  <2>2. (\A i : ~Finished(s, i))' \/ ~Active(s)'
    BY <2>1 DEF Finished, Active
  <2> QED BY <2>1, <2>2 DEF Progress, Settled, Unheard
<1>2. CASE Fails(s)
  BY <1>2 DEF Fails, Progress, Active, Settled
<1> QED BY <1>1, <1>2

(* Every request in its transaction has done what its statements so far    *)
(* promise, and every granted one all of it.                               *)
THEOREM ProgressIsInvariant == SafetySpec => []ProgressInv
<1>1. Init => ProgressInv
  BY DEF Init, ProgressInv, Progress, Active, Settled
<1>2. (SafeInv /\ SafeInv' /\ AgreeInv /\ WritesInv /\ OutcomeInv /\ ProgressInv /\ [Next]_vars) => ProgressInv'
  <2> SUFFICES ASSUME SafeInv, SafeInv', AgreeInv, WritesInv, OutcomeInv, ProgressInv, [Next]_vars
               PROVE  ProgressInv'
    OBVIOUS
  <2>1. CASE UNCHANGED vars
    BY <2>1 DEF vars, ProgressInv, Progress, Active, Settled, Unheard, Finished, Made, Remade, Reopened, View, Statement
  <2>2. ASSUME NEW s \in Sessions, Execute(s) \/ Handle(s) \/ QueryFails(s) PROVE ProgressInv'
    <3>1. Progress(s)'
      <4>1. Progress(s) /\ TypeInv
        BY DEF ProgressInv, SafeInv
      <4>2. \/ StaysOutside(s) \/ Fails(s) \/ Chooses(s) \/ PassesRow(s) \/ WroteRow(s) \/ LockedRow(s) \/ Ends(s)
        BY <2>2, <4>1, Steps
      <4> QED BY <2>2, <4>1, <4>2, OutsideProgress, ChoosesProgress, PassesProgress, WriteProgress, LockProgress,
                 EndProgress
    <3>2. \A t \in Sessions \ {s} : Progress(t)'
      BY <2>2, OthersProgress
    <3> QED BY <3>1, <3>2 DEF ProgressInv
  <2> QED BY <2>1, <2>2 DEF Next, Terminating
<1> QED BY <1>1, <1>2, SafeIsInvariant, AgreeIsInvariant, WritesAreJustified, OutcomeIsInvariant, PTL DEF SafetySpec
-----------------------------------------------------------------------------
(* An accepted request has committed, and no error was found. *)
LEMMA AcceptedIsSettled ==
    ASSUME TypeInv, NEW s \in Sessions, Accepted(s)
    PROVE  Settled(s) /\ pc[s] # "idle" /\ req[s] \in Request
<1>1. pc[s] = "done" /\ GetStatus(req[s].op, error[s]) < 300
  BY DEF Accepted, Answered
<1>2. error[s] \in Errors \cup {"null"} /\ req[s] \in Request
  BY <1>1 DEF TypeInv, TypeOK, Position
<1>3. error[s] \in Errors => GetStatus(req[s].op, error[s]) \in {400, 401, 403, 404, 409, 500}
  BY DEF Errors, GetStatus
<1> QED BY <1>1, <1>2, <1>3 DEF Settled

(* What an accepted request has made: all that it certainly lists. *)
LEMMA AcceptedHasMade ==
    ASSUME TypeInv, ProgressInv, NEW s \in Sessions, Accepted(s), NEW q, Has(Build(req[s]), q), q.query \in Sure \cup Must
    PROVE  Made(store, s, q)
BY AcceptedIsSettled DEF ProgressInv, Progress, Has

(* All or nothing, the all: an accepted request has made every row that it *)
(* is to make, whatever the others did meanwhile.                          *)
THEOREM AcceptedIsWhole == Spec => []AcceptedIsComplete
<1>1. TypeInv /\ ProgressInv => AcceptedIsComplete
  <2> SUFFICES ASSUME TypeInv, ProgressInv, NEW s \in Sessions, Accepted(s)
               PROVE  /\ req[s].op = "create-account" =>
                           /\ <<"account", s>> \in DOMAIN store
                           /\ req[s].address => OwnsAddress(store, s, s)
                           /\ req[s].picture => <<"picture", s>> \in DOMAIN store
                      /\ req[s].op = "create-listing" =>
                           /\ Owns(store, req[s].actor, s)
                           /\ \A i \in 1..req[s].media :
                                <<"media", s, i - 1>> \in DOMAIN store \/ Requested("modify-listing", s)
                      /\ req[s].op = "create-message" =>
                           <<"message", s>> \in DOMAIN store /\ IsParty(store, req[s].actor, req[s].conversation)
                      /\ req[s].op = "close-account" => ~store[<<"account", req[s].actor>>].open
    BY DEF AcceptedIsComplete
  <2>0. req[s] \in Request
    BY AcceptedIsSettled
  <2>1. \A name \in Sure \cup Must : \A i : Has(Build(req[s]), Named(name, i)) => Made(store, s, Named(name, i))
    BY AcceptedHasMade DEF Named
  <2>2. Remade \subseteq {l \in ListingID : Requested("modify-listing", l)}
    <3> SUFFICES ASSUME NEW t \in Sessions, pc[t] # "idle", req[t].op = "modify-listing"
                 PROVE  req[t].listing \in ListingID /\ Requested("modify-listing", req[t].listing)
      BY DEF Remade
    <3>1. req[t] \in ModifyListingRequest /\ req[t] # Null
      BY RequestKinds, MarketplaceAssumption DEF TypeInv, Position
    <3> QED BY <3>1 DEF ModifyListingRequest, Requested
  <2>3. CASE req[s].op = "create-account"
    <3>1. /\ Made(store, s, Named("create_account", 0))
          /\ req[s].address => Made(store, s, Named("store_address", 0))
          /\ req[s].picture => Made(store, s, Named("insert_pfp", 0))
      BY <2>0, <2>1, <2>3, BuildHas DEF Sure, Must
    <3> QED BY <2>3, <3>1 DEF Made, Fulfilled, Named
  <2>4. CASE req[s].op = "create-listing"
    <3>1. /\ Made(store, s, Named("create_listing", 0))
          /\ \A i \in 1..req[s].media : Made(store, s, Named("insert_media", i - 1))
      BY <2>0, <2>1, <2>4, BuildHas DEF Sure, Must
    <3>2. Owns(store, req[s].actor, s)
      BY <3>1 DEF Made, Fulfilled, Named
    <3>3. \A i \in 1..req[s].media : <<"media", s, i - 1>> \in DOMAIN store \/ s \in Remade
      BY <3>1 DEF Made, Fulfilled, Named
    <3> QED BY <2>2, <2>4, <3>2, <3>3
  <2>5. CASE req[s].op = "create-message"
    <3>1. Made(store, s, Named("create_message", 0))
      BY <2>0, <2>1, <2>5, BuildHas DEF Sure, Must
    <3> QED BY <2>5, <3>1 DEF Made, Fulfilled, Named
  <2>6. CASE req[s].op = "close-account"
    <3>1. Made(store, s, Named("close_account", 0))
      BY <2>0, <2>1, <2>6, BuildHas DEF Sure, Must
    <3> QED BY <2>6, <3>1 DEF Made, Fulfilled, Named
  <2> QED BY <2>3, <2>4, <2>5, <2>6
<1> QED BY <1>1, TypeIsInvariant, ProgressIsInvariant, PTL DEF Spec, SafetySpec

(* Closing a listing closes its conversations. *)
THEOREM ListingClosesConversations == Spec => []ClosureReachesConversations
<1>1. TypeInv /\ ProgressInv => ClosureReachesConversations
  <2> SUFFICES ASSUME TypeInv, ProgressInv, NEW s \in Sessions, Accepted(s), req[s].op = "close-listing",
                      NEW k \in DOMAIN InitStore \cap ConversationKey, k[3] = req[s].listing, store[k].open
               PROVE  \E t \in Sessions : /\ req[t] # Null /\ req[t].op = "create-conversation"
                                          /\ k = <<"conversation", req[t].actor, req[t].listing>>
    BY DEF ClosureReachesConversations
  <2>1. Made(store, s, Named("close_conversations", 0))
    BY AcceptedIsSettled, AcceptedHasMade, BuildHas DEF Named, Sure
  <2>2. k \in Due(req[s], Named("close_conversations", 0))
    BY DEF Due, Named
  <2>3. k \in Reopened
    BY <2>1, <2>2 DEF Made, Fulfilled, Shut
  <2>4. PICK t \in Sessions : /\ pc[t] # "idle" /\ req[t].op = "create-conversation"
                              /\ k = <<"conversation", req[t].actor, req[t].listing>>
    BY <2>3 DEF Reopened
  <2>5. req[t] # Null
    BY <2>4, MarketplaceAssumption DEF TypeInv, Position
  <2> QED BY <2>4, <2>5
<1> QED BY <1>1, TypeIsInvariant, ProgressIsInvariant, PTL DEF Spec, SafetySpec

(* A closed account that had an owner's listings has closed them.          *)
(* (Only the account itself closes it, and with it, before it can commit,  *)
(* the listings it had.)                                                   *)
Reaches(db) ==
    \A k \in DOMAIN InitStore \cap ListingKey :
        LET owner == <<"account", InitStore[k].contributor>> IN
        (owner \in DOMAIN InitStore /\ InitStore[owner].open /\ ~db[owner].open) => ~db[k].open

(* The COMMIT of a closed account brings the listings that it has closed. *)
LEMMA CommitReaches ==
    ASSUME SafeInv, SafeInv', WritesInv, ProgressInv, Reaches(store), NEW s \in Sessions, Ends(s)
    PROVE  Reaches(store')
<1> SUFFICES ASSUME NEW k \in DOMAIN InitStore \cap ListingKey, NEW owner, owner = <<"account", InitStore[k].contributor>>,
                    owner \in DOMAIN InitStore, InitStore[owner].open, ~store'[owner].open
             PROVE  ~store'[k].open
  BY DEF Reaches
<1>0. /\ TypeInv /\ TypeOK /\ VersionsInv /\ owner \in Key /\ owner \in AccountKey /\ owner \in Kept /\ k \in Kept
      /\ UNCHANGED store \/ (pc[s] = "commit" /\ store' = View(s))
  BY KeyKinds, MarketplaceAssumption DEF SafeInv, TypeInv, Ends, IsDatabase, Kept
<1>1. k \in DOMAIN store /\ owner \in DOMAIN store
  BY <1>0 DEF WritesInv, Later
<1>2. CASE UNCHANGED store
  BY <1>2 DEF Reaches
<1>3. CASE pc[s] = "commit" /\ store' = View(s) /\ ~store[owner].open
  <2>1. ~store[k].open
    BY <1>3 DEF Reaches
  <2>2. View(s)[k] = store[k]
    BY <1>0, <1>1, <2>1, SeenFollows DEF Follows
  <2> QED BY <1>3, <2>1, <2>2
<1>4. CASE pc[s] = "commit" /\ store' = View(s) /\ store[owner].open
  <2>1. owner \in DOMAIN writes[s] /\ ~writes[s][owner].open
    BY <1>0, <1>1, <1>4, ViewType, SeenFollows
  <2>2. req[s].op = "close-account" /\ owner = <<"account", req[s].actor>>
    BY <1>0, <2>1 DEF WritesInv, Justified
  <2>3. req[s] \in Request /\ InitStore[k].contributor = req[s].actor
    BY <1>0, <1>4, <2>2 DEF TypeInv, Position
  <2> DEFINE q == Named("close_listings", 0)
  <2>4. Has(Build(req[s]), q)
    BY <2>2, <2>3, BuildHas
  <2>5. Made(View(s), s, q)
    <3>1. PICK i \in 1..Len(Build(req[s])) : Build(req[s])[i] = q
      BY <2>4 DEF Has
    <3>2. Finished(s, i) /\ Active(s) /\ Progress(s)
      BY <1>4 DEF Finished, Active, ProgressInv
    <3>3. q.query \in Sure
      BY DEF Sure, Named
    <3> HIDE DEF q
    <3> QED BY <3>1, <3>2, <3>3 DEF Progress
  <2>6. k \in Due(req[s], q)
    BY <2>3 DEF Due, Named
  <2>7. Shut(View(s), k, Reopened)
    BY <2>5, <2>6 DEF Made, Fulfilled
  <2>8. k \notin ConversationKey
    BY <1>0, KeyKinds DEF ListingKey, ConversationKey
  <2> QED BY <1>4, <2>7, <2>8 DEF Shut
<1> QED BY <1>0, <1>2, <1>3, <1>4

(* Closing an account closes the listings it had.                          *)
THEOREM AccountClosesListings == Spec => []ClosureReachesListings
<1>1. Init => Reaches(store)
  BY DEF Init, Reaches
<1>2. (SafeInv /\ SafeInv' /\ WritesInv /\ ProgressInv /\ Reaches(store) /\ [Next]_vars) => Reaches(store)'
  <2> SUFFICES ASSUME SafeInv, SafeInv', WritesInv, ProgressInv, Reaches(store), [Next]_vars PROVE Reaches(store')
    OBVIOUS
  <2>1. CASE UNCHANGED store
    BY <2>1 DEF Reaches
  <2>2. ASSUME NEW s \in Sessions, Execute(s) \/ Handle(s) \/ QueryFails(s) PROVE Reaches(store')
    <3>1. UNCHANGED store \/ Ends(s)
      BY <2>2, Steps DEF SafeInv, StaysOutside, Fails, Chooses, PassesRow, WroteRow, LockedRow
    <3> QED BY <2>1, <3>1, CommitReaches
  <2> QED BY <2>1, <2>2 DEF Next, Terminating, vars
<1>3. Reaches(store) => ClosureReachesListings
  BY DEF Reaches, ClosureReachesListings
<1> QED BY <1>1, <1>2, <1>3, SafeIsInvariant, WritesAreJustified, ProgressIsInvariant, PTL DEF Spec, SafetySpec
-----------------------------------------------------------------------------
(* Whose marks there may be: in the database, of requests that were        *)
(* granted; in a transaction, its own as well, but not while it has        *)
(* nothing to show.  A request acts for an account, and about listings,    *)
(* that are there.                                                         *)
May(s, t) == s = t \/ Settled(s)
Bare(t) == Active(t) /\ req[t].op # "create-listing" /\ returned[t] \subseteq DropFromResults(req[t].op)

(* The marks in the database, and those in a transaction; the accounts     *)
(* that requests act for; and the rows that are to be visited.             *)
TraceInv ==
    /\ \A k \in DOMAIN store, s \in Sessions : Marks(k, store[k], s) => Settled(s)
    /\ \A t, s \in Sessions : \A k \in DOMAIN writes[t] :
         writes[t][k] # NoRow /\ Marks(k, writes[t][k], s) => May(s, t) /\ (s = t => ~Bare(t))
    /\ \A t, s \in Sessions :
         (pc[t] # "idle" /\ req[t].op # "create-account" /\ req[t].actor = s) => Settled(s)
    /\ \A t, s \in Sessions : pc[t] = "rows" => \A e \in todo[t] : e[1][2] = s => May(s, t)

(* A request that was granted stays granted. *)
LEMMA SettledStays ==
    ASSUME TypeInv, NEW s \in Sessions, Execute(s) \/ Handle(s) \/ QueryFails(s), NEW u \in Sessions, Settled(u)
    PROVE  Settled(u)' /\ u # s
<1>1. u # s
  BY Steps DEF Settled, StaysOutside, Fails, Chooses, PassesRow, WroteRow, LockedRow, Ends
<1> QED BY <1>1, StepFrame DEF Settled, Unheard

(* The marks on what a session sees. *)
LEMMA SeenMarks ==
    ASSUME TypeInv, TraceInv, NEW t \in Sessions, NEW k \in DOMAIN View(t), NEW s \in Sessions, Marks(k, View(t)[k], s)
    PROVE  May(s, t) /\ (s = t => ~Bare(t))
<1>1. CASE k \in DOMAIN writes[t]
  <2>1. writes[t][k] # NoRow /\ View(t)[k] = writes[t][k]
    BY <1>1, ViewType DEF TypeInv
  <2> QED BY <1>1, <2>1 DEF TraceInv
<1>2. CASE k \notin DOMAIN writes[t]
  <2>1. k \in DOMAIN store /\ View(t)[k] = store[k]
    BY <1>2, ViewType DEF TypeInv
  <2>2. Settled(s)
    BY <2>1 DEF TraceInv
  <2> QED BY <2>2 DEF May, Bare, Active, Settled
<1> QED BY <1>1, <1>2

(* A statement chooses rows of accounts and listings that are there, or of *)
(* its own request.                                                        *)
LEMMA ChosenMarks ==
    ASSUME TypeInv, TraceInv, NEW t \in Sessions, pc[t] = "query", NEW s \in Sessions,
           NEW k \in Chosen(View(t), t, req[t], Statement(t)), k[2] = s
    PROVE  May(s, t)
<1> DEFINE q == Statement(t)
           r == req[t]
<1>0. r \in Request /\ q \in StatementOf(r) /\ IsDatabase(View(t))
  BY StatementType, ViewType DEF TypeInv
<1>1. CASE q.query \notin Inserts
  <2>1. k \in DOMAIN View(t)
    BY <1>1 DEF Chosen
  <2> QED BY <2>1, SeenMarks DEF Marks
<1>2. CASE q.query \in {"change_pfp", "save_listing", "create_conversation"}
  <2>1. k = InsertedKey(t, r, q)
    BY <1>2 DEF Chosen, Inserts, Upserts, PlainInserts
  <2>2. s = r.actor
    BY <1>2, <2>1 DEF InsertedKey
  <2>3. r.op # "create-account"
    BY <1>0, <1>2, StatementKinds DEF ModifyAccountRequest, SavedListingRequest, CreateConversationRequest
  <2> QED BY <2>2, <2>3 DEF TraceInv, May
<1>3. CASE q.query = "change_media"
  <2>1. k = InsertedKey(t, r, q) /\ SelectsSource(View(t), r, q)
    BY <1>3 DEF Chosen, Inserts, Upserts, PlainInserts
  <2>2. <<"listing", s>> \in DOMAIN View(t)
    BY <1>3, <2>1 DEF InsertedKey, SelectsSource, Owns
  <2>3. Marks(<<"listing", s>>, View(t)[<<"listing", s>>], s)
    BY DEF Marks
  <2> QED BY <2>2, <2>3, SeenMarks
<1>4. CASE q.query \in Inserts \ {"change_pfp", "save_listing", "create_conversation", "change_media"}
  <2>1. k = InsertedKey(t, r, q)
    BY <1>4 DEF Chosen
  <2>2. s = t
    BY <1>4, <2>1 DEF InsertedKey, Inserts, Upserts, PlainInserts
  <2> QED BY <2>2 DEF May
<1> QED BY <1>1, <1>2, <1>3, <1>4

(* The marks that a session leaves in its transaction. *)
LEMMA LeftMarks ==
    ASSUME SafeInv, TraceInv, ProgressInv, NEW s \in Sessions, WroteRow(s) \/ LockedRow(s)
    PROVE  \E row :
             /\ Puts(s, cur[s][1], row)
             /\ \A u \in Sessions : row # NoRow /\ Marks(cur[s][1], row, u) =>
                  May(u, s) /\ (u = s /\ Bare(s) => WroteRow(s) /\ Statement(s).query \notin Unreturning)
<1> DEFINE k == cur[s][1]
           old == View(s)[k]
           q == Statement(s)
           r == req[s]
           row == Written(View(s), s, r, q, k)
<1>0. /\ TypeInv /\ pc[s] = "rows" /\ ~Skips(s) /\ cur[s] \in todo[s] /\ Active(s)
  BY DEF SafeInv, TypeInv, Position, WroteRow, LockedRow, Active
<1>1. /\ r \in Request /\ q \in StatementOf(r) /\ k \in Key /\ k \in Aims(s, r, q) /\ IsDatabase(View(s))
      /\ q.query \in Inserts => k = InsertedKey(s, r, q)
      /\ q.query \notin Inserts => k \in DOMAIN View(s) /\ old \in RowOf(k)
  BY <1>0, RowAt
<1>2. \A u \in Sessions : k[2] = u => May(u, s)
  BY <1>0 DEF TraceInv
<1>3. \A u \in Sessions : k \in DOMAIN View(s) /\ Marks(k, old, u) => May(u, s) /\ (u = s => ~Bare(s))
  BY <1>0, SeenMarks
<1>4. CASE LockedRow(s)
  <2>1. Puts(s, k, old) /\ k \in DOMAIN View(s)
    BY <1>4 DEF LockedRow, LocksRow
  <2> HIDE DEF k, old
  <2> QED BY <1>3, <2>1 DEF k
<1>5. CASE WroteRow(s)
  <2>1. Puts(s, k, row)
    BY <1>5 DEF WroteRow, Writes
  <2>2. ASSUME NEW u \in Sessions, row # NoRow, Marks(k, row, u)
        PROVE  May(u, s) /\ (u = s /\ Bare(s) => q.query \notin Unreturning)
    <3>1. CASE q.query \in Inserts
      <4>1. k[2] = u \/ (k \in DOMAIN View(s) /\ Marks(k, old, u)) \/ u = s
        BY <1>1, <2>2, <3>1, InsertedMarks DEF Written
      <4>2. q.query \notin Unreturning
        BY <3>1 DEF Inserts, Upserts, PlainInserts, Unreturning
      <4> HIDE DEF k, old, q, row
      <4> QED BY <1>2, <1>3, <4>1, <4>2 DEF May
    <3>2. CASE q.query \notin Inserts
      <4>1. Marks(k, old, u) \/ (u = s /\ q.query \notin Unreturning)
        BY <1>1, <2>2, <3>2, UpdatedMarks DEF Written
      <4> HIDE DEF k, old, q, row
      <4> QED BY <1>1, <1>3, <3>2, <4>1 DEF May
    <3> QED BY <3>1, <3>2
  <2> HIDE DEF k, q, row
  <2> QED BY <1>5, <2>1, <2>2 DEF k, q
<1> QED BY <1>4, <1>5

(* A session that has nothing to show had nothing to show before. *)
LEMMA BareBefore ==
    ASSUME SafeInv, ProgressInv, NEW s \in Sessions, Execute(s) \/ Handle(s) \/ QueryFails(s), Bare(s)'
    PROVE  /\ DOMAIN writes[s] # {} => Bare(s)
           /\ WroteRow(s) => Statement(s).query \in Unreturning
<1>0. TypeInv
  BY DEF SafeInv
<1>1. CASE StaysOutside(s)
  <2>1. pc[s] \notin InTransaction
    BY <1>1 DEF StaysOutside, InTransaction
  <2> QED BY <1>1, <2>1 DEF SafeInv, IInv, LocksExclusive, StaysOutside, WroteRow
<1>2. CASE Chooses(s) \/ PassesRow(s) \/ LockedRow(s) \/ WroteRow(s)
  <2>1. /\ Active(s) /\ UNCHANGED req /\ returned[s] \subseteq returned'[s]
        /\ WroteRow(s) => pc[s] = "rows" /\ returned'[s] = returned[s] \cup ({Statement(s).query} \ Unreturning)
    BY <1>2 DEF Chooses, PassesRow, LockedRow, WroteRow, Goes, Active
  <2>2. Bare(s)
    BY <2>1 DEF Bare
  <2>3. ASSUME WroteRow(s), Statement(s).query \notin Unreturning PROVE FALSE
    <3>1. /\ req[s] \in Request /\ Statement(s) \in StatementOf(req[s]) /\ req[s].op # "create-listing"
          /\ Statement(s).query \in DropFromResults(req[s].op)
      BY <1>0, <2>1, <2>3, StatementType DEF Bare
    <3>2. Backreference(req[s], Statement(s)) \subseteq returned[s]
      BY <2>1, <2>3 DEF ProgressInv, Progress
    <3>3. returned[s] \subseteq DropFromResults(req[s].op)
      BY <2>2 DEF Bare
    <3> QED BY <2>3, <3>1, <3>2, <3>3, DroppedNeedKept
  <2> QED BY <2>2, <2>3
<1>3. CASE Fails(s) \/ Ends(s)
  BY <1>3 DEF Fails, Ends, Bare, Active
<1> QED BY <1>0, <1>1, <1>2, <1>3, Steps

(* A request that commits a new listing has it to show.                    *)
LEMMA ListingReturned ==
    ASSUME TypeInv, ProgressInv, NEW s \in Sessions, pc[s] = "commit", req[s].op = "create-listing"
    PROVE  ~(returned[s] \subseteq DropFromResults(req[s].op))
<1> DEFINE q == Named("create_listing", 0)
<1>1. PICK i \in 1..Len(Build(req[s])) : Build(req[s])[i] = q
  BY BuildHas DEF TypeInv, Position, Has
<1>2. Finished(s, i) /\ Progress(s) /\ q.query \in Sure /\ q.query = "create_listing"
  BY DEF Finished, ProgressInv, Sure, Named
<1>3. "create_listing" \in returned[s]
  BY <1>1, <1>2 DEF Progress, Active, Unreturning
<1> QED BY <1>3 DEF DropFromResults

(* A transaction that commits rows with its marks is granted. *)
LEMMA CommitSettles ==
    ASSUME SafeInv, ProgressInv, TraceInv, NEW s \in Sessions, Ends(s), pc[s] = "commit",
           NEW k \in DOMAIN View(s), Marks(k, View(s)[k], s)
    PROVE  Settled(s)'
<1>0. /\ TypeInv /\ pc'[s] = "done" /\ Active(s) /\ UNCHANGED <<req, returned>>
      /\ error'[s] \in {PrepareResults(req[s].op, returned[s]), "Unacknowledged"}
  BY DEF SafeInv, Ends, Active
<1>1. ~(returned[s] \subseteq DropFromResults(req[s].op))
  <2>1. CASE req[s].op = "create-listing"
    BY <1>0, <2>1, ListingReturned
  <2>2. CASE req[s].op # "create-listing"
    BY <1>0, <2>2, SeenMarks DEF Bare
  <2> QED BY <2>1, <2>2
<1> QED BY <1>0, <1>1 DEF PrepareResults, Settled, Unheard

(* The marks after a step. *)
LEMMA TraceStep ==
    ASSUME SafeInv, SafeInv', ProgressInv, TraceInv, NEW s \in Sessions, Execute(s) \/ Handle(s) \/ QueryFails(s)
    PROVE  TraceInv'
<1>0. /\ TypeInv /\ \A u \in Sessions : Settled(u) => Settled(u)'
      /\ \A u, t \in Sessions : May(u, t) => May(u, t)'
  BY SettledStays DEF SafeInv, May
<1>1. ASSUME NEW k \in DOMAIN store', NEW u \in Sessions, Marks(k, store'[k], u) PROVE Settled(u)'
  <2>1. CASE UNCHANGED store
    BY <1>0, <1>1, <2>1 DEF TraceInv
  <2>2. CASE Ends(s) /\ pc[s] = "commit" /\ store' = View(s)
    <3>1. May(u, s)
      BY <1>0, <1>1, <2>2, SeenMarks
    <3>2. CASE u = s
      BY <1>1, <2>2, <3>2, CommitSettles
    <3> QED BY <1>0, <3>1, <3>2 DEF May
  <2> QED BY <1>0, <2>1, <2>2, Steps DEF StaysOutside, Fails, Chooses, PassesRow, WroteRow, LockedRow, Ends
<1>2. ASSUME NEW t \in Sessions, NEW u \in Sessions, NEW k \in DOMAIN writes'[t], writes'[t][k] # NoRow,
             Marks(k, writes'[t][k], u)
      PROVE  May(u, t)' /\ (u = t => ~Bare(t)')
  <2>1. CASE k \in DOMAIN writes[t] /\ writes'[t][k] = writes[t][k]
    <3>1. May(u, t) /\ (u = t => ~Bare(t))
      BY <1>2, <2>1 DEF TraceInv
    <3>2. Bare(t)' => Bare(t)
      <4>1. CASE t = s
        BY <2>1, <4>1, BareBefore
      <4>2. CASE t # s
        BY <1>0, <4>2, StepFrame DEF Bare, Active
      <4> QED BY <4>1, <4>2
    <3> QED BY <1>0, <3>1, <3>2
  <2>2. CASE t # s
    BY <1>0, <1>2, <2>1, <2>2, StepFrame
  <2>3. CASE t = s /\ (StaysOutside(s) \/ Fails(s) \/ Chooses(s) \/ PassesRow(s))
    BY <1>2, <2>1, <2>3 DEF StaysOutside, Fails, Chooses, PassesRow
  <2>4. CASE t = s /\ Ends(s)
    <3>1. DOMAIN writes'[s] = {}
      BY <1>0, <2>4 DEF Ends, NoWrites, TypeInv, TypeOK
    <3> QED BY <1>2, <2>4, <3>1
  <2>5. CASE t = s /\ (WroteRow(s) \/ LockedRow(s))
    <3>1. PICK row :
             /\ Puts(s, cur[s][1], row)
             /\ \A v \in Sessions : row # NoRow /\ Marks(cur[s][1], row, v) =>
                  May(v, s) /\ (v = s /\ Bare(s) => WroteRow(s) /\ Statement(s).query \notin Unreturning)
      BY <2>5, LeftMarks
    <3>2. CASE k = cur[s][1]
      <4>1. /\ writes'[s][k] = row /\ k \in DOMAIN writes'[s]
        BY <1>0, <2>5, <3>1, <3>2, PutsOne
      <4>2. May(u, s) /\ (u = s /\ Bare(s) => WroteRow(s) /\ Statement(s).query \notin Unreturning)
        BY <1>2, <2>5, <3>1, <3>2, <4>1
      <4>3. Bare(s)' => Bare(s)
        <5>1. Active(s) /\ UNCHANGED req /\ returned[s] \subseteq returned'[s]
          BY <2>5 DEF WroteRow, LockedRow, Goes, Active
        <5> QED BY <5>1 DEF Bare
      <4>4. Bare(s)' /\ WroteRow(s) => Statement(s).query \in Unreturning
        BY BareBefore
      <4> QED BY <1>0, <2>5, <4>2, <4>3, <4>4
    <3>3. CASE k # cur[s][1]
      <4>1. k \in DOMAIN writes[t] /\ writes'[t][k] = writes[t][k]
        BY <1>0, <1>2, <2>5, <3>1, <3>3, PutsOne
      <4> QED BY <2>1, <4>1
    <3> QED BY <3>2, <3>3
  <2> QED BY <1>0, <2>2, <2>3, <2>4, <2>5, Steps
<1>3. ASSUME NEW t \in Sessions, NEW u \in Sessions, pc'[t] # "idle", req'[t].op # "create-account", req'[t].actor = u
      PROVE  Settled(u)'
  <2>1. CASE pc[t] # "idle"
    <3>1. req'[t] = req[t]
      BY <1>0, <2>1, RequestStays
    <3> QED BY <1>0, <1>3, <2>1, <3>1 DEF TraceInv
  <2>2. CASE pc[t] = "idle"
    <3>1. t = s /\ Execute(s)
      <4>1. t = s
        BY <1>0, <1>3, <2>2, StepFrame
      <4> QED BY <1>0, <2>2, <4>1, Steps DEF StaysOutside, Fails, Chooses, PassesRow, WroteRow, LockedRow, Ends
    <3>3. <<"account", u>> \in DOMAIN store
      <4>1. PICK r2 \in Menu : /\ r2.op # "create-account" => <<"account", r2.actor>> \in DOMAIN store
                               /\ req' = [req EXCEPT ![s] = r2]
        BY <3>1 DEF Execute
      <4>2. req'[s] = r2
        BY <1>0, <4>1 DEF TypeInv, TypeOK
      <4> QED BY <1>3, <3>1, <4>1, <4>2
    <3>2. Settled(u)
      BY <3>3 DEF TraceInv, Marks
    <3> QED BY <1>0, <3>2
  <2> QED BY <2>1, <2>2
<1>4. ASSUME NEW t \in Sessions, NEW u \in Sessions, pc'[t] = "rows", NEW e \in todo'[t], e[1][2] = u PROVE May(u, t)'
  <2>1. CASE t # s
    BY <1>0, <1>4, <2>1, StepFrame DEF TraceInv
  <2>2. CASE t = s /\ pc[s] = "rows" /\ todo'[s] \subseteq todo[s]
    BY <1>0, <1>4, <2>2 DEF TraceInv
  <2>3. CASE t = s /\ pc[s] = "query" /\ \A x \in todo'[s] : x[1] \in Chosen(View(s), s, req[s], Statement(s))
    BY <1>0, <1>4, <2>3, ChosenMarks
  <2> QED BY <1>0, <1>4, <2>1, <2>2, <2>3, TodoStep
<1> QED BY <1>1, <1>2, <1>3, <1>4 DEF TraceInv

(* The database bears the marks of granted requests only, and a            *)
(* transaction with nothing to show bears none of its own.                 *)
THEOREM TraceIsInvariant == SafetySpec => []TraceInv
<1>1. Init => TraceInv
  BY MarketplaceAssumption DEF Init, TraceInv, NoWrites
<1>2. (SafeInv /\ SafeInv' /\ ProgressInv /\ TraceInv /\ [Next]_vars) => TraceInv'
  <2> SUFFICES ASSUME SafeInv, SafeInv', ProgressInv, TraceInv, [Next]_vars PROVE TraceInv'
    OBVIOUS
  <2>1. CASE UNCHANGED vars
    BY <2>1 DEF vars, TraceInv, May, Bare, Active, Settled, Unheard
  <2>2. ASSUME NEW s \in Sessions, Execute(s) \/ Handle(s) \/ QueryFails(s) PROVE TraceInv'
    BY <2>2, TraceStep
  <2> QED BY <2>1, <2>2 DEF Next, Terminating
<1> QED BY <1>1, <1>2, SafeIsInvariant, ProgressIsInvariant, PTL DEF SafetySpec
-----------------------------------------------------------------------------
(* What a transaction holds of accounts and listings, against what is      *)
(* committed: a row as it is for the members, or the one change that its   *)
(* request is about.                                                       *)
Deal(t, r, k, row, db) ==
    /\ k \in AccountKey =>
         IF k \in DOMAIN db
         THEN row.open = db[k].open \/ (r.op = "close-account" /\ k = <<"account", r.actor>> /\ ~row.open)
         ELSE r.op = "create-account" /\ k = <<"account", t>> /\ row.open
    /\ k \in ListingKey =>
         IF k \in DOMAIN db
         THEN \/ row.open = db[k].open /\ row.receiver = db[k].receiver
              \/ /\ r.op = "close-account" /\ db[k].contributor = r.actor
                 /\ ~row.open /\ row.receiver = db[k].receiver
              \/ /\ r.op = "close-listing" /\ k = <<"listing", r.listing>> /\ db[k].contributor = r.actor
                 /\ ~row.open /\ row.receiver = r.receiver
                 /\ r.receiver = Null \/ <<"account", r.receiver>> \in DOMAIN db
         ELSE /\ r.op = "create-listing" /\ k = <<"listing", t>>
              /\ row.contributor = r.actor /\ row.open /\ row.receiver = Null

(* Whom a request acts for is there; a closing statement chooses listings  *)
(* of that account.                                                        *)
Acts(t) ==
    /\ pc[t] = "idle" => req[t] = Null
    /\ pc[t] # "idle" /\ req[t].op # "create-account" => <<"account", req[t].actor>> \in DOMAIN store
    /\ pc[t] = "rows" /\ Statement(t).query \in {"close_listing", "close_listings"} =>
         \A e \in todo[t] : e[1] \in DOMAIN store /\ store[e[1]].contributor = req[t].actor

(* A close-account request holds its account just if close_account has     *)
(* returned, and has found it open; when the statement is done, nobody     *)
(* sees the account open, or it is this request that closes it.            *)
Shuts(t) == Active(t) /\ req[t].op = "close-account"
Own(t) == <<"account", req[t].actor>>
Shutting(t) == "close_account" \in returned[t]
ShutsOwn(t) ==
    Shuts(t) =>
        /\ returned[t] \subseteq {"close_account"}
        /\ Shutting(t) => store[Own(t)].open /\ Own(t) \in DOMAIN writes[t] /\ ~writes[t][Own(t)].open
        /\ ~Shutting(t) => Own(t) \notin DOMAIN writes[t]
        /\ (pc[t] = "commit" \/ Statement(t).query # "close_account") => Shutting(t) \/ ~store[Own(t)].open
        /\ (pc[t] = "rows" /\ Statement(t).query = "close_account") =>
              Shutting(t) \/ ~store[Own(t)].open \/ \E e \in todo[t] : e[1] = Own(t)

DealInv ==
    \A t \in Sessions :
        /\ \A k \in DOMAIN writes[t] : Deal(t, req[t], k, writes[t][k], store)
        /\ Acts(t)
        /\ ShutsOwn(t)

(* What an UPDATE makes of an account or a listing, for the members. *)
LEMMA UpdatedOpens ==
    ASSUME NEW s \in Sessions, NEW r \in Request, NEW q \in StatementOf(r), q.query \notin Inserts,
           NEW k \in Key, k \in Aims(s, r, q), NEW row \in RowOf(k), NEW new, new = Updated(row, s, r, q)
    PROVE  /\ k \in AccountKey =>
                /\ q.query \in AccountUpdates
                /\ IF q.query = "close_account" THEN ~new.open ELSE new.open = row.open
           /\ k \in ListingKey =>
                /\ q.query \in ListingUpdates \cup {"close_listings"}
                /\ IF q.query \in {"close_listing", "close_listings"} THEN ~new.open ELSE new.open = row.open
                /\ new.receiver = IF q.query = "close_listing" THEN r.receiver ELSE row.receiver
<1>0. q.query \in Statements
  BY StatementKinds
<1>1. ASSUME k \in AccountKey
      PROVE  /\ q.query \in AccountUpdates
             /\ IF q.query = "close_account" THEN ~new.open ELSE new.open = row.open
  <2>1. q.query \in AccountUpdates /\ row \in AccountRow
    BY <1>0, <1>1, KeyKinds, RowKinds DEF Aims, Statements
  <2>2. CASE q.query = "close_account"
    <3>1. new = [row EXCEPT !.open = FALSE]
      BY <2>2 DEF Updated
    <3> QED BY <2>1, <2>2, <3>1 DEF AccountRow
  <2>3. CASE q.query # "close_account"
    <3>1. \/ new = [row EXCEPT !.email = r.email]
          \/ new = [row EXCEPT !.password = r.newPassword]
          \/ new = [row EXCEPT !.columns[ColumnOf(q)] = s]
      BY <2>1, <2>3 DEF Updated, AccountUpdates
    <3>2. new.open = row.open
      BY <2>1, <3>1 DEF AccountRow
    <3> QED BY <2>1, <2>3, <3>2
  <2> QED BY <2>2, <2>3
<1>2. ASSUME k \in ListingKey
      PROVE  /\ q.query \in ListingUpdates \cup {"close_listings"}
             /\ IF q.query \in {"close_listing", "close_listings"} THEN ~new.open ELSE new.open = row.open
             /\ new.receiver = IF q.query = "close_listing" THEN r.receiver ELSE row.receiver
  <2>1. q.query \in ListingUpdates \cup {"close_listings"} /\ row \in ListingRow
    BY <1>0, <1>2, KeyKinds, RowKinds DEF Aims, Statements
  <2>2. CASE q.query = "close_listing"
    <3>1. new = [row EXCEPT !.open = FALSE, !.receiver = r.receiver]
      BY <2>2 DEF Updated
    <3>2. ~new.open /\ new.receiver = r.receiver
      BY <2>1, <3>1 DEF ListingRow
    <3> QED BY <2>1, <2>2, <3>2
  <2>3. CASE q.query = "close_listings"
    <3>1. new = [row EXCEPT !.open = FALSE]
      BY <2>3 DEF Updated
    <3>2. ~new.open /\ new.receiver = row.receiver
      BY <2>1, <3>1 DEF ListingRow
    <3> QED BY <2>1, <2>3, <3>2
  <2>4. CASE q.query \notin {"close_listing", "close_listings"}
    <3>1. \/ new = [row EXCEPT !.address = AddressOf(s, r)]
          \/ new = [row EXCEPT !.columns[ColumnOf(q)] = s]
      BY <2>1, <2>4 DEF Updated, ListingUpdates
    <3>2. new.open = row.open /\ new.receiver = row.receiver
      BY <2>1, <3>1 DEF ListingRow
    <3> QED BY <2>1, <2>4, <3>2
  <2> QED BY <2>2, <2>3, <2>4
<1> QED BY <1>1, <1>2

(* What a session sees of accounts and listings beyond the database is     *)
(* what its request creates.                                               *)
LEMMA SeenDeals ==
    ASSUME TypeInv, VersionsInv, DealInv, NEW t \in Sessions, NEW k \in AccountKey \cup ListingKey
    PROVE  /\ k \in DOMAIN store => k \in DOMAIN View(t)
           /\ k \in DOMAIN View(t) => Deal(t, req[t], k, View(t)[k], store) \/ (k \in DOMAIN store /\ View(t)[k] = store[k])
           /\ (k \in DOMAIN View(t) /\ req[t].op \notin {"create-account", "create-listing"}) => k \in DOMAIN store
           /\ (k \in DOMAIN View(t) /\ k \in ListingKey /\ k \in DOMAIN store) =>
                 View(t)[k].contributor = store[k].contributor
<1>1. k \in DOMAIN store => k \in DOMAIN View(t) /\ Follows(k, store[k], View(t)[k])
  BY SeenFollows DEF TypeInv, Kept
<1>2. k \in DOMAIN View(t) => Deal(t, req[t], k, View(t)[k], store) \/ (k \in DOMAIN store /\ View(t)[k] = store[k])
  <2>1. CASE k \in DOMAIN writes[t]
    BY <2>1, ViewType DEF DealInv, TypeInv
  <2>2. CASE k \notin DOMAIN writes[t]
    BY <2>2, ViewType DEF TypeInv
  <2> QED BY <2>1, <2>2
<1>3. (k \in DOMAIN View(t) /\ req[t].op \notin {"create-account", "create-listing"}) => k \in DOMAIN store
  BY <1>2 DEF Deal
<1> QED BY <1>1, <1>2, <1>3 DEF Follows

(* So does the row that a session writes. *)
LEMMA RowDeals ==
    ASSUME TypeInv, VersionsInv, DealInv, NEW s \in Sessions, WroteRow(s) \/ LockedRow(s)
    PROVE  \E row : Puts(s, cur[s][1], row) /\ Deal(s, req[s], cur[s][1], row, store)
<1> DEFINE k == cur[s][1]
           old == View(s)[k]
           q == Statement(s)
           r == req[s]
           row == Written(View(s), s, r, q, k)
<1>0. /\ pc[s] = "rows" /\ ~Skips(s) /\ cur[s] \in todo[s]
      /\ r \in Request /\ q \in StatementOf(r) /\ q.query \in Statements
      /\ k \in Key /\ k \in Aims(s, r, q) /\ IsDatabase(View(s))
      /\ q.query \in Inserts => k = InsertedKey(s, r, q)
      /\ q.query \notin Inserts => k \in DOMAIN View(s) /\ old \in RowOf(k) /\ StillSelects(q, old)
  BY RowAt, StatementKinds DEF WroteRow, LockedRow, TypeInv, Position
<1>1. \/ Puts(s, k, old) /\ q.query = "change_email"
      \/ Puts(s, k, row) /\ Violation(View(s), s, r, q, k) = "null"
  BY DEF WroteRow, Writes, LockedRow, LocksRow
<1>a. Acts(s)
  BY DEF DealInv
<1>2. CASE k \notin AccountKey \cup ListingKey
  BY <1>1, <1>2 DEF Deal
<1>3. CASE k \in AccountKey \cup ListingKey /\ q.query \in Inserts
  <2>1. \/ q.query = "create_account" /\ k = <<"account", s>> /\ r.op = "create-account"
        \/ q.query = "create_listing" /\ k = <<"listing", s>> /\ r.op = "create-listing"
    BY <1>0, <1>3, InsertedKeys, KeyKinds, StatementKinds
       DEF Inserts, Upserts, PlainInserts, CreateAccountRequest, CreateListingRequest
  <2>2. Puts(s, k, row) /\ Violation(View(s), s, r, q, k) = "null"
    BY <1>1, <2>1
  <2>3. k \notin DOMAIN View(s)
    BY <2>1, <2>2 DEF Violation, Inserts, Upserts, PlainInserts
  <2>4. k \notin DOMAIN store
    BY <1>3, <2>3, SeenDeals
  <2>5. CASE q.query = "create_account"
    <3>1. row.open
      BY <2>5 DEF Written, Inserted, Inserts
    <3>2. k \notin ListingKey
      BY <1>0, <2>1, <2>5, KeyKinds
    <3> HIDE DEF row, r, q
    <3>3. Deal(s, r, k, row, store)
      BY <2>1, <2>4, <2>5, <3>1, <3>2 DEF Deal
    <3> QED BY <2>2, <3>3 DEF r
  <2>6. CASE q.query = "create_listing"
    <3>1. row.contributor = r.actor /\ row.open /\ row.receiver = Null
      BY <2>6 DEF Written, Inserted, Inserts, PlainInserts
    <3>2. k \notin AccountKey
      BY <1>0, <2>1, <2>6, KeyKinds
    <3> HIDE DEF row, r, q
    <3>3. Deal(s, r, k, row, store)
      BY <2>1, <2>4, <2>6, <3>1, <3>2 DEF Deal
    <3> QED BY <2>2, <3>3 DEF r
  <2> QED BY <2>1, <2>5, <2>6
<1>4. CASE k \in AccountKey /\ q.query \notin Inserts
  <2>0. row = Updated(old, s, r, q)
    BY <1>4 DEF Written
  <2>1. /\ q.query \in AccountUpdates
        /\ IF q.query = "close_account" THEN ~row.open ELSE row.open = old.open
    BY <1>0, <1>4, <2>0, UpdatedOpens
  <2>2. k = <<"account", r.actor>> /\ old.open
    BY <1>0, <2>1, <1>4 DEF Aims, StillSelects
  <2>3. r.op \in {"close-account", "modify-account"} /\ (q.query = "close_account" => r.op = "close-account")
    BY <1>0, <2>1, StatementKinds DEF AccountUpdates, CloseAccountRequest, ModifyAccountRequest
  <2>4. k \in DOMAIN store
    BY <1>0, <1>a, <2>2, <2>3 DEF Acts
  <2>5. store[k].open
    BY <1>0, <1>4, <2>2, <2>4, SeenDeals DEF Deal
  <2>6. k \notin ListingKey
    BY <1>0, <1>4, KeyKinds
  <2> HIDE DEF row, old, r, q, k
  <2>7. Deal(s, r, k, old, store)
    BY <2>2, <2>4, <2>5, <2>6 DEF Deal
  <2>8. Deal(s, r, k, row, store)
    BY <2>1, <2>2, <2>3, <2>4, <2>5, <2>6 DEF Deal
  <2> QED BY <1>1, <2>7, <2>8 DEF k, r
<1>5. CASE k \in ListingKey /\ q.query \notin Inserts
  <2>0. row = Updated(old, s, r, q)
    BY <1>5 DEF Written
  <2>1. /\ q.query \in ListingUpdates \cup {"close_listings"}
        /\ IF q.query \in {"close_listing", "close_listings"} THEN ~row.open ELSE row.open = old.open
        /\ row.receiver = IF q.query = "close_listing" THEN r.receiver ELSE old.receiver
    BY <1>0, <1>5, <2>0, UpdatedOpens
  <2>2. /\ r.op \in {"close-account", "close-listing", "modify-listing"}
        /\ q.query = "close_listings" => r.op = "close-account"
        /\ q.query = "close_listing" => r.op = "close-listing"
        /\ q.query \notin {"close_listings", "close_listing"} => r.op = "modify-listing"
    BY <1>0, <2>1, StatementKinds DEF ListingUpdates, CloseAccountRequest, CloseListingRequest, ModifyListingRequest
  <2>3. k \in DOMAIN store /\ (Deal(s, r, k, old, store) \/ old = store[k])
    BY <1>0, <1>5, <2>2, SeenDeals
  <2>4. Puts(s, k, row) /\ Violation(View(s), s, r, q, k) = "null"
    BY <1>1, <2>1 DEF ListingUpdates
  <2>5. q.query \in {"close_listing", "close_listings"} => store[k].contributor = r.actor
    BY <1>0, <1>a DEF Acts
  <2>6. q.query # "close_listings" => k = <<"listing", r.listing>> /\ old.open
    BY <1>0, <1>5, <2>1 DEF Aims, StillSelects
  <2>7. k \notin AccountKey
    BY <1>0, <1>5, KeyKinds
  <2>8. ASSUME q.query = "close_listing", r.receiver # Null
        PROVE  <<"account", r.receiver>> \in DOMAIN store
    <3>1. <<"account", r.receiver>> \in DOMAIN View(s)
      BY <2>4, <2>8 DEF Violation, Inserts, Upserts, PlainInserts
    <3>2. <<"account", r.receiver>> \in AccountKey
      BY <1>0, <3>1, KeyKinds DEF IsDatabase
    <3>3. r.op \notin {"create-account", "create-listing"}
      BY <2>2
    <3> QED BY <3>1, <3>2, <3>3, SeenDeals
  <2> HIDE DEF row, old, r, q, k
  <2>9. Deal(s, r, k, row, store)
    <3>1. CASE q.query = "close_listing"
      BY <1>5, <2>1, <2>2, <2>3, <2>5, <2>6, <2>7, <2>8, <3>1 DEF Deal
    <3>2. CASE q.query = "close_listings"
      BY <1>5, <2>1, <2>2, <2>3, <2>5, <2>7, <3>2 DEF Deal
    <3>3. CASE q.query \notin {"close_listing", "close_listings"}
      BY <1>5, <2>1, <2>2, <2>3, <2>7, <3>3 DEF Deal
    <3> QED BY <3>1, <3>2, <3>3
  <2> QED BY <2>4, <2>9 DEF k, r
<1> QED BY <1>2, <1>3, <1>4, <1>5

(* The committed rows of a step: kept, with the contributors they had. *)
LEMMA StoreLater ==
    ASSUME SafeInv, NEW s \in Sessions, Execute(s) \/ Handle(s) \/ QueryFails(s)
    PROVE  Later(store, store')
<1>1. UNCHANGED store \/ store' = View(s)
  BY Effects DEF SafeInv
<1> QED BY <1>1, SeenFollows DEF Later, Follows, SafeInv, TypeInv

(* Every step keeps whom requests act for. *)
LEMMA ActsStep ==
    ASSUME SafeInv, SafeInv', DealInv, NEW s \in Sessions, Execute(s) \/ Handle(s) \/ QueryFails(s), NEW t \in Sessions
    PROVE  Acts(t)'
<1>0. TypeInv /\ TypeInv' /\ VersionsInv /\ Acts(t) /\ Later(store, store') /\ IsDatabase(store)
  BY StoreLater DEF SafeInv, DealInv, TypeInv, TypeOK
<1>1. pc'[t] = "idle" => req'[t] = Null
  <2> SUFFICES ASSUME pc'[t] = "idle" PROVE req'[t] = Null
    OBVIOUS
  <2>1. pc[t] = "idle" /\ t # s
    <3>1. t # s
      BY <1>0, Steps DEF StaysOutside, Fails, Chooses, PassesRow, WroteRow, LockedRow, Ends, Goes
    <3> QED BY <1>0, <3>1, StepFrame
  <2> QED BY <1>0, <2>1, StepFrame DEF Acts
<1>2. ASSUME pc'[t] # "idle", req'[t].op # "create-account"
      PROVE  <<"account", req'[t].actor>> \in DOMAIN store'
  <2>1. <<"account", req'[t].actor>> \in DOMAIN store
    <3>1. CASE pc[t] # "idle"
      BY <1>0, <1>2, <3>1, RequestStays DEF Acts
    <3>2. CASE pc[t] = "idle"
      <4>1. t = s
        BY <1>0, <1>2, <3>2, StepFrame
      <4>2. Execute(s)
        BY <1>0, <3>2, <4>1, Steps
           DEF StaysOutside, Fails, Chooses, PassesRow, WroteRow, LockedRow, Ends
      <4> QED BY <1>0, <1>2, <4>1, <4>2 DEF Execute, TypeInv, TypeOK
    <3> QED BY <3>1, <3>2
  <2>2. <<"account", req'[t].actor>> \in AccountKey
    BY <1>0, <2>1, KeyKinds DEF IsDatabase
  <2> QED BY <1>0, <2>1, <2>2 DEF Later, Kept
<1>3. ASSUME pc'[t] = "rows", Statement(t)'.query \in {"close_listing", "close_listings"}, NEW e \in todo'[t]
      PROVE  e[1] \in DOMAIN store' /\ store'[e[1]].contributor = req'[t].actor
  <2>k. e[1] \in ListingKey
    <3>1. e[1] \in Aims(t, req'[t], Statement(t)') /\ e[1] \in Key
      BY <1>0, <1>3 DEF TypeInv, Position, Visits
    <3>2. Statement(t)' \in StatementOf(req'[t]) /\ req'[t] \in Request
      <4>1. req'[t] \in Request /\ step'[t] \in 1..Len(Build(req'[t]))
        BY <1>0, <1>3 DEF TypeInv, Position
      <4> QED BY <4>1, BuildType, ElementOfSeq DEF Statement
    <3>3. Statement(t)'.query = "close_listing" => req'[t] \in CloseListingRequest
      BY <3>2, StatementKinds
    <3> QED BY <1>3, <3>1, <3>2, <3>3
        DEF Aims, Inserts, Upserts, PlainInserts, ListingUpdates, CloseListingRequest, ListingKey
  <2>1. e[1] \in DOMAIN store /\ store[e[1]].contributor = req'[t].actor
    <3>1. CASE t # s
      <4>1. Statement(t)' = Statement(t) /\ pc'[t] = pc[t] /\ todo'[t] = todo[t] /\ req'[t] = req[t]
        BY <1>0, <3>1, StepFrame DEF Statement
      <4> QED BY <1>0, <1>3, <4>1 DEF Acts
    <3>2. CASE t = s
      <4>1. /\ req'[s] = req[s] /\ Statement(s)' = Statement(s)
            /\ \/ pc[s] = "rows" /\ todo'[s] \subseteq todo[s]
               \/ pc[s] = "query" /\ \A x \in todo'[s] : x[1] \in Chosen(View(s), s, req[s], Statement(s))
        BY <1>0, <1>3, <3>2, TodoStep
      <4>2. CASE pc[s] = "rows" /\ todo'[s] \subseteq todo[s]
        BY <1>0, <1>3, <3>2, <4>1, <4>2 DEF Acts
      <4>3. CASE pc[s] = "query" /\ \A x \in todo'[s] : x[1] \in Chosen(View(s), s, req[s], Statement(s))
        <5>1. e[1] \in DOMAIN View(s) /\ View(s)[e[1]].contributor = req[s].actor
          BY <1>3, <3>2, <4>1, <4>3 DEF Chosen, Selects, Inserts, Upserts, PlainInserts, AccountUpdates, ListingUpdates
        <5>2. req[s] \in Request /\ Statement(s) \in StatementOf(req[s])
          BY <1>0, <4>3, StatementType
        <5>3. req[s] \in CloseListingRequest \cup CloseAccountRequest
          BY <1>3, <3>2, <4>1, <5>2, StatementKinds
        <5>4. req[s].op \notin {"create-account", "create-listing"}
          BY <5>3 DEF CloseListingRequest, CloseAccountRequest
        <5> QED BY <1>0, <2>k, <3>2, <4>1, <5>1, <5>4, SeenDeals
      <4> QED BY <4>1, <4>2, <4>3
    <3> QED BY <3>1, <3>2
  <2> QED BY <1>0, <2>k, <2>1 DEF Later, Kept, Follows
<1> QED BY <1>1, <1>2, <1>3 DEF Acts

(* A close-account request and its statements: close_account first. *)
LEMMA ShutsKinds ==
    ASSUME TypeInv, NEW s \in Sessions, pc[s] # "idle", req[s].op = "close-account"
    PROVE  /\ req[s] \in CloseAccountRequest /\ Own(s) \in AccountKey
           /\ Build(req[s])[1].query = "close_account"
           /\ pc[s] \in {"query", "rows"} => Statement(s).query \in {"close_account", "close_listings", "close_conversations"}
<1>1. req[s] \in CloseAccountRequest
  BY RequestKinds DEF TypeInv, Position
<1>2. Own(s) \in AccountKey
  BY <1>1 DEF Own, CloseAccountRequest, AccountKey
<1>3. Build(req[s])[1].query = "close_account"
  <2>1. Build(req[s]) = Query("close_account") \o Query("close_listings") \o Query("close_conversations")
    BY DEF Build, CloseAccountTemplate
  <2> QED BY <2>1 DEF Query
<1>4. Names(req[s].op) = {"close_account", "close_listings", "close_conversations"}
  BY DEF Names
<1> QED BY <1>1, <1>2, <1>3, <1>4, StatementType DEF StatementOf

(* What the session sees of its account: its own version, or the committed *)
(* one.                                                                    *)
LEMMA OwnSeen ==
    ASSUME SafeInv, DealInv, NEW s \in Sessions, Shuts(s)
    PROVE  /\ Own(s) \in DOMAIN View(s) /\ Own(s) \in DOMAIN store
           /\ View(s)[Own(s)].open = (~Shutting(s) /\ store[Own(s)].open)
<1>1. Own(s) \in DOMAIN store /\ ShutsOwn(s) /\ Own(s) \in AccountKey
  BY ShutsKinds DEF DealInv, Acts, Shuts, Active, Own, SafeInv
<1>2. Own(s) \in DOMAIN View(s)
  BY <1>1, SeenFollows DEF SafeInv, TypeInv, Kept
<1>3. View(s)[Own(s)] = IF Own(s) \in DOMAIN writes[s] THEN writes[s][Own(s)] ELSE store[Own(s)]
  BY <1>2, ViewType DEF SafeInv, TypeInv
<1>4. store[Own(s)] \in AccountRow /\ (Own(s) \in DOMAIN writes[s] => View(s)[Own(s)] \in AccountRow)
  BY <1>1, <1>2, ViewType, RowKinds DEF SafeInv, TypeInv, TypeOK, IsDatabase
<1>5. CASE Shutting(s)
  BY <1>1, <1>2, <1>3, <1>4, <1>5 DEF ShutsOwn, AccountRow
<1>6. CASE ~Shutting(s)
  BY <1>1, <1>2, <1>3, <1>4, <1>6 DEF ShutsOwn, AccountRow
<1> QED BY <1>1, <1>2, <1>5, <1>6

(* A statement that goes on with rest left of its rows.                    *)
LEMMA GoesShuts ==
    ASSUME SafeInv, DealInv, NEW s \in Sessions, Shuts(s)', pc[s] \in {"query", "rows"}, UNCHANGED <<store, req>>,
           NEW rest, NEW names, Goes(s, rest, names),
           returned'[s] \subseteq {"close_account"},
           Shutting(s)' => store[Own(s)].open /\ Own(s) \in DOMAIN writes'[s] /\ ~writes'[s][Own(s)].open,
           ~Shutting(s)' => Own(s) \notin DOMAIN writes'[s],
           Shutting(s)' \/ ~store[Own(s)].open \/ (Statement(s).query = "close_account" /\ \E e \in rest : e[1] = Own(s))
    PROVE  ShutsOwn(s)'
<1>1. Own(s)' = Own(s) /\ todo'[s] = rest
  BY DEF Own, Goes
<1>2. CASE Shutting(s)' \/ ~store[Own(s)].open
  BY <1>1, <1>2 DEF ShutsOwn, Shutting
<1>3. CASE ~Shutting(s)' /\ store[Own(s)].open
  <2>1. pc'[s] = "rows" /\ step'[s] = step[s]
    BY <1>3 DEF Goes
  <2>2. Statement(s)' = Statement(s)
    BY <2>1 DEF Statement
  <2> QED BY <1>1, <1>3, <2>1, <2>2 DEF ShutsOwn, Shutting
<1> QED BY <1>2, <1>3

(* The steps of the session itself. *)
LEMMA OwnShuts ==
    ASSUME SafeInv, OutcomeInv, DealInv, NEW s \in Sessions, Execute(s) \/ Handle(s) \/ QueryFails(s)
    PROVE  ShutsOwn(s)'
<1> SUFFICES ASSUME Shuts(s)' PROVE ShutsOwn(s)'
  BY DEF ShutsOwn
<1>0. /\ TypeInv /\ TypeOK /\ VersionsInv /\ Active(s)' /\ req'[s].op = "close-account"
      /\ pc'[s] \in {"query", "rows", "commit"} /\ Knows(s) /\ ShutsOwn(s)
  BY DEF SafeInv, TypeInv, Shuts, Active, OutcomeInv, DealInv
<1>1. CASE StaysOutside(s)
  <2>1. pc[s] = "store" \/ pc[s] \in {"idle", "password"}
    BY <1>1 DEF StaysOutside
  <2>2. ~Execute(s) /\ pc'[s] = "query"
    BY <1>0, <1>1 DEF StaysOutside, Execute, TypeInv, TypeOK
  <2>3. /\ returned'[s] = {} /\ writes'[s] = writes[s] /\ step'[s] = 1 /\ req'[s] = req[s] /\ pc[s] # "idle"
        /\ DOMAIN writes[s] = {}
    BY <1>0, <1>1, <2>2 DEF StaysOutside, Knows, SafeInv, IInv, LocksExclusive, InTransaction, TypeInv, Position
  <2>4. Statement(s)'.query = "close_account"
    BY <1>0, <2>3, ShutsKinds DEF Statement
  <2> QED BY <2>2, <2>3, <2>4 DEF ShutsOwn, Shutting
<1>2. CASE Fails(s) \/ Ends(s)
  BY <1>0, <1>2 DEF Fails, Ends
<1>3. CASE Chooses(s) \/ PassesRow(s) \/ WroteRow(s)
  <2>0. /\ pc[s] \in {"query", "rows"} /\ UNCHANGED <<store, req>> /\ Shuts(s) /\ pc[s] # "idle"
        /\ req[s].op = "close-account"
    BY <1>0, <1>3 DEF Chooses, PassesRow, WroteRow, Shuts, Active
  <2>1. /\ Statement(s).query \in {"close_account", "close_listings", "close_conversations"}
        /\ req[s] \in CloseAccountRequest /\ Own(s) \in AccountKey /\ Own(s) \in Key
    BY <1>0, <2>0, ShutsKinds DEF Key
  <2>2. /\ Own(s) \in DOMAIN View(s) /\ Own(s) \in DOMAIN store
        /\ View(s)[Own(s)].open = (~Shutting(s) /\ store[Own(s)].open)
    BY <2>0, OwnSeen
  <2>3. /\ returned[s] \subseteq {"close_account"}
        /\ Shutting(s) => store[Own(s)].open /\ Own(s) \in DOMAIN writes[s] /\ ~writes[s][Own(s)].open
        /\ ~Shutting(s) => Own(s) \notin DOMAIN writes[s]
        /\ Statement(s).query # "close_account" => Shutting(s) \/ ~store[Own(s)].open
        /\ (pc[s] = "rows" /\ Statement(s).query = "close_account") =>
              Shutting(s) \/ ~store[Own(s)].open \/ \E e \in todo[s] : e[1] = Own(s)
    BY <1>0, <2>0 DEF ShutsOwn
  <2>4. CASE Chooses(s)
    <3> DEFINE rest == {<<k, Lookup(View(s), k)>> : k \in Chosen(View(s), s, req[s], Statement(s))}
    <3>1. Goes(s, rest, {}) /\ UNCHANGED writes
      BY <2>4 DEF Chooses
    <3>2. returned'[s] = returned[s] /\ (Shutting(s)' <=> Shutting(s))
      BY <3>1 DEF Goes, Shutting
    <3>3. Shutting(s) \/ ~store[Own(s)].open \/ (Statement(s).query = "close_account" /\ \E e \in rest : e[1] = Own(s))
      <4> SUFFICES ASSUME ~Shutting(s), store[Own(s)].open, Statement(s).query = "close_account"
                   PROVE  \E e \in rest : e[1] = Own(s)
        BY <2>3
      <4>1. Own(s) \in Chosen(View(s), s, req[s], Statement(s))
        <5>1. /\ Statement(s).query \notin Inserts /\ Statement(s).query \in AccountUpdates
              /\ View(s)[<<"account", req[s].actor>>].open /\ <<"account", req[s].actor>> \in DOMAIN View(s)
          BY <2>2 DEF Own, Inserts, Upserts, PlainInserts, AccountUpdates
        <5>2. Selects(View(s), req[s], Statement(s), Own(s))
          BY <5>1 DEF Selects, Own, AccountUpdates, ListingUpdates
        <5> QED BY <2>2, <5>1, <5>2 DEF Chosen
      <4>2. <<Own(s), Lookup(View(s), Own(s))>> \in rest
        BY <4>1
      <4> HIDE DEF rest
      <4> QED BY <4>2
    <3> HIDE DEF rest
    <3> QED BY <2>0, <2>3, <3>1, <3>2, <3>3, GoesShuts
  <2>5. CASE PassesRow(s)
    <3> DEFINE rest == todo[s] \ {cur[s]}
    <3>1. Goes(s, rest, {}) /\ UNCHANGED writes /\ pc[s] = "rows" /\ Skips(s)
      BY <2>5 DEF PassesRow
    <3>2. returned'[s] = returned[s] /\ (Shutting(s)' <=> Shutting(s))
      BY <3>1 DEF Goes, Shutting
    <3>3. Shutting(s) \/ ~store[Own(s)].open \/ (Statement(s).query = "close_account" /\ \E e \in rest : e[1] = Own(s))
      <4> SUFFICES ASSUME ~Shutting(s), store[Own(s)].open, Statement(s).query = "close_account",
                          cur[s][1] = Own(s)
                   PROVE  FALSE
        BY <2>3, <3>1
      <4>1. Lookup(View(s), Own(s)) # NoRow
        BY <1>0, <2>2, LookupType, ViewType
      <4>2. Own(s) \notin SavedListingKey \cup MediaKey
        BY <2>1, KeyKinds
      <4>3. ~Gone(s)
        BY <4>1, <4>2 DEF Gone
      <4>4. ~StillSelects(Statement(s), View(s)[Own(s)])
        BY <3>1, <4>3 DEF Skips, Inserts, Upserts, PlainInserts
      <4> QED BY <2>2, <4>4 DEF StillSelects
    <3> HIDE DEF rest
    <3> QED BY <2>0, <2>3, <3>1, <3>2, <3>3, GoesShuts
  <2>6. CASE WroteRow(s)
    <3> DEFINE rest == todo[s] \ {cur[s]}
               k == cur[s][1]
               row == Written(View(s), s, req[s], Statement(s), k)
    <3>1. /\ Goes(s, rest, {Statement(s).query} \ Unreturning) /\ pc[s] = "rows" /\ ~Skips(s)
          /\ Puts(s, k, row)
      BY <2>6 DEF WroteRow, Writes
    <3>2. Statement(s).query \notin Inserts
      BY <2>1 DEF Inserts, Upserts, PlainInserts
    <3>3. /\ k \in Key /\ k \in Aims(s, req[s], Statement(s)) /\ Statement(s) \in StatementOf(req[s]) /\ req[s] \in Request
          /\ View(s)[k] \in RowOf(k) /\ StillSelects(Statement(s), View(s)[k])
      BY <1>0, <3>1, <3>2, RowAt
    <3>4. row = Updated(View(s)[k], s, req[s], Statement(s))
      BY <3>2 DEF Written
    <3>5. IF k = Own(s) THEN Own(s) \in DOMAIN writes'[s] /\ writes'[s][Own(s)] = row
          ELSE /\ Own(s) \in DOMAIN writes'[s] <=> Own(s) \in DOMAIN writes[s]
               /\ Own(s) \in DOMAIN writes[s] => writes'[s][Own(s)] = writes[s][Own(s)]
      <4>1. /\ DOMAIN writes'[s] = DOMAIN writes[s] \cup {k} /\ writes'[s][k] = row
            /\ \A j \in DOMAIN writes[s] : j # k => writes'[s][j] = writes[s][j]
        BY <1>0, <3>1, PutsOne
      <4> HIDE DEF k, row
      <4> QED BY <4>1
    <3>6. CASE Statement(s).query = "close_account"
      <4>1. k = Own(s)
        BY <3>3, <3>6 DEF Aims, Own, AccountUpdates, Inserts, Upserts, PlainInserts
      <4>2. ~row.open
        BY <2>1, <3>2, <3>3, <3>4, <3>6, <4>1, UpdatedOpens
      <4>3. store[Own(s)].open
        BY <2>2, <3>3, <3>6, <4>1 DEF StillSelects, AccountUpdates
      <4>4. returned'[s] = returned[s] \cup {"close_account"}
        BY <3>1, <3>6 DEF Goes, Unreturning
      <4>5. Shutting(s)' /\ returned'[s] \subseteq {"close_account"}
        BY <2>3, <4>4 DEF Shutting
      <4>6. Own(s) \in DOMAIN writes'[s] /\ ~writes'[s][Own(s)].open
        BY <3>5, <4>1, <4>2
      <4> HIDE DEF rest
      <4> QED BY <2>0, <3>1, <4>3, <4>5, <4>6, GoesShuts
    <3>7. CASE Statement(s).query # "close_account"
      <4>1. k \notin AccountKey
        BY <2>1, <3>3, <3>7, KeyKinds DEF Aims, AccountUpdates, ListingUpdates, Inserts, Upserts, PlainInserts
      <4>2. k # Own(s)
        BY <2>1, <4>1
      <4>3. returned'[s] = returned[s] /\ (Shutting(s)' <=> Shutting(s))
        BY <2>1, <3>1, <3>7 DEF Goes, Unreturning, Shutting
      <4>4. /\ Own(s) \in DOMAIN writes'[s] <=> Own(s) \in DOMAIN writes[s]
            /\ Own(s) \in DOMAIN writes[s] => writes'[s][Own(s)] = writes[s][Own(s)]
        BY <3>5, <4>2
      <4> HIDE DEF rest
      <4> QED BY <2>0, <2>3, <3>1, <3>7, <4>3, <4>4, GoesShuts
    <3> QED BY <3>6, <3>7
  <2> QED BY <1>3, <2>4, <2>5, <2>6
<1>4. CASE LockedRow(s)
  <2>1. pc[s] = "rows" /\ req'[s] = req[s] /\ Statement(s).query = "change_email"
    BY <1>4 DEF LockedRow
  <2> QED BY <1>0, <2>1, ShutsKinds
<1> QED BY <1>0, <1>1, <1>2, <1>3, <1>4, Steps

(* Another session's step leaves the account as it is for one that holds   *)
(* it, and closed for one that found it so.                                *)
LEMMA OthersShut ==
    ASSUME SafeInv, DealInv, NEW s \in Sessions, Execute(s) \/ Handle(s) \/ QueryFails(s), NEW t \in Sessions, t # s
    PROVE  ShutsOwn(t)'
<1> SUFFICES ASSUME Shuts(t)' PROVE ShutsOwn(t)'
  BY DEF ShutsOwn
<1>1. /\ pc'[t] = pc[t] /\ req'[t] = req[t] /\ returned'[t] = returned[t] /\ writes'[t] = writes[t]
      /\ todo'[t] = todo[t] /\ Statement(t)' = Statement(t)
  BY StepFrame DEF SafeInv, Statement
<1>2. Shuts(t) /\ Own(t)' = Own(t) /\ (Shutting(t)' <=> Shutting(t)) /\ ShutsOwn(t) /\ Own(t) \in DOMAIN store
  BY <1>1 DEF Shuts, Active, Own, Shutting, DealInv, Acts
<1>3. Own(t) \in AccountKey
  BY <1>2, ShutsKinds DEF Shuts, Active, SafeInv
<1>4. UNCHANGED store \/ store' = View(s)
  BY Effects DEF SafeInv
<1>5. Own(t) \in DOMAIN writes[t] => store'[Own(t)] = store[Own(t)]
  <2> SUFFICES ASSUME Own(t) \in DOMAIN writes[t], store' = View(s) PROVE store'[Own(t)] = store[Own(t)]
    BY <1>4
  <2>1. Own(t) \notin DOMAIN writes[s]
    BY DEF SafeInv, IInv, LocksExclusive
  <2> QED BY <1>2, <2>1, ViewType DEF SafeInv, TypeInv
<1>6. ~store[Own(t)].open => ~store'[Own(t)].open
  BY <1>2, <1>3, <1>4, SeenFollows DEF SafeInv, TypeInv, Follows, Kept
<1>7. store[Own(t)]' = store'[Own(t)] /\ writes[t][Own(t)]' = writes[t][Own(t)]
  BY <1>1, <1>2
<1> QED BY <1>1, <1>2, <1>5, <1>6, <1>7 DEF ShutsOwn

(* Every step keeps it so: what a transaction holds is changed by nobody   *)
(* else.                                                                   *)
LEMMA DealStep ==
    ASSUME SafeInv, SafeInv', OutcomeInv, DealInv, NEW s \in Sessions, Execute(s) \/ Handle(s) \/ QueryFails(s)
    PROVE  DealInv'
<1>0. TypeInv /\ TypeInv' /\ VersionsInv /\ IsDatabase(store) /\ Later(store, store')
  BY StoreLater DEF SafeInv, TypeInv, TypeOK
<1>1. ASSUME NEW t \in Sessions, NEW k \in DOMAIN writes'[t]
      PROVE  Deal(t, req'[t], k, writes'[t][k], store')
  <2>1. ASSUME k \in DOMAIN writes[t], writes'[t][k] = writes[t][k]
        PROVE  Deal(t, req'[t], k, writes'[t][k], store')
    <3>1. Deal(t, req[t], k, writes[t][k], store)
      BY <2>1 DEF DealInv
    <3>2. pc[t] # "idle"
      BY <2>1 DEF SafeInv, IInv, LocksExclusive, InTransaction
    <3>3. req'[t] = req[t]
      BY <1>0, <3>2, RequestStays
    <3>4. (k \in DOMAIN store <=> k \in DOMAIN store') /\ (k \in DOMAIN store => store'[k] = store[k])
      <4>1. CASE UNCHANGED store
        BY <4>1
      <4>2. CASE ~UNCHANGED store
        <5>1. store' = View(s) /\ writes' = [writes EXCEPT ![s] = NoWrites]
          BY <1>0, <4>2, Effects
        <5>2. t # s
          BY <1>0, <1>1, <5>1 DEF NoWrites, TypeInv, TypeOK
        <5>3. k \notin DOMAIN writes[s]
          BY <2>1, <5>2 DEF SafeInv, IInv, LocksExclusive
        <5> QED BY <1>0, <5>1, <5>3, ViewType DEF TypeInv
      <4> QED BY <4>1, <4>2
    <3>5. \A a : <<"account", a>> \in DOMAIN store => <<"account", a>> \in DOMAIN store'
      <4> SUFFICES ASSUME NEW a, <<"account", a>> \in DOMAIN store PROVE <<"account", a>> \in DOMAIN store'
        OBVIOUS
      <4>1. <<"account", a>> \in AccountKey
        BY <1>0, KeyKinds DEF IsDatabase
      <4> QED BY <1>0, <4>1 DEF Later, Kept
    <3>6. writes'[t][k] = writes[t][k]
      BY <2>1
    <3> QED BY <3>1, <3>3, <3>4, <3>5, <3>6 DEF Deal
  <2>2. CASE t # s \/ StaysOutside(s) \/ Fails(s) \/ Chooses(s) \/ PassesRow(s)
    <3>1. writes'[t] = writes[t]
      BY <1>0, <2>2, StepFrame DEF StaysOutside, Fails, Chooses, PassesRow
    <3> QED BY <1>1, <2>1, <3>1
  <2>3. CASE t = s /\ Ends(s)
    BY <1>0, <1>1, <2>3 DEF Ends, NoWrites, TypeInv, TypeOK
  <2>4. CASE t = s /\ (WroteRow(s) \/ LockedRow(s))
    <3>1. PICK row : Puts(s, cur[s][1], row) /\ Deal(s, req[s], cur[s][1], row, store)
      BY <1>0, <2>4, RowDeals
    <3>2. IF k = cur[s][1] THEN writes'[s][k] = row ELSE k \in DOMAIN writes[s] /\ writes'[s][k] = writes[s][k]
      BY <1>0, <1>1, <2>4, <3>1, PutsOne
    <3>3. UNCHANGED <<req, store>>
      BY <2>4 DEF WroteRow, LockedRow
    <3>4. CASE k = cur[s][1]
      BY <2>4, <3>1, <3>2, <3>3, <3>4
    <3> QED BY <2>1, <2>4, <3>2, <3>4
  <2> QED BY <1>0, <2>2, <2>3, <2>4, Steps
<1>2. \A t \in Sessions : Acts(t)' /\ ShutsOwn(t)'
  BY ActsStep, OwnShuts, OthersShut
<1> QED BY <1>1, <1>2 DEF DealInv

(* A transaction holds accounts and listings as they are for the members,  *)
(* but for the one change that its request is about; and a close-account   *)
(* request closes its account unless somebody has done so before.          *)
THEOREM DealIsInvariant == SafetySpec => []DealInv
<1>1. Init => DealInv
  BY DEF Init, DealInv, NoWrites, Acts, ShutsOwn, Shuts, Active
<1>2. (SafeInv /\ SafeInv' /\ OutcomeInv /\ DealInv /\ [Next]_vars) => DealInv'
  <2> SUFFICES ASSUME SafeInv, SafeInv', OutcomeInv, DealInv, [Next]_vars PROVE DealInv'
    OBVIOUS
  <2>1. CASE UNCHANGED vars
    BY <2>1 DEF vars, DealInv, Acts, ShutsOwn, Shuts, Active, Own, Shutting, Statement
  <2>2. ASSUME NEW s \in Sessions, Execute(s) \/ Handle(s) \/ QueryFails(s) PROVE DealInv'
    BY <2>2, DealStep
  <2> QED BY <2>1, <2>2 DEF Next, Terminating
<1> QED BY <1>1, <1>2, SafeIsInvariant, OutcomeIsInvariant, PTL DEF SafetySpec
-----------------------------------------------------------------------------
(* The members' view of a database, account by account.                    *)
LEMMA AccountsAre ==
    ASSUME NEW db, IsDatabase(db)
    PROVE  /\ \A a : a \in DOMAIN AccountsOf(db) <=> <<"account", a>> \in DOMAIN db
           /\ \A a \in DOMAIN AccountsOf(db) : AccountsOf(db)[a] = db[<<"account", a>>].open
           /\ AccountsOf(db) = [a \in DOMAIN AccountsOf(db) |-> AccountsOf(db)[a]]
           /\ \A a \in DOMAIN AccountsOf(db) : AccountsOf(db)[a] \in BOOLEAN /\ <<"account", a>> \in AccountKey
<1>1. ASSUME NEW a, <<"account", a>> \in DOMAIN db
      PROVE  a \in AccountID /\ <<"account", a>> \in AccountKey /\ db[<<"account", a>>] \in AccountRow
  <2>1. <<"account", a>> \in Key /\ <<"account", a>> \in AccountKey
    BY <1>1, KeyKinds DEF IsDatabase
  <2> QED BY <1>1, <2>1, RowKinds DEF IsDatabase, AccountKey
<1> QED BY <1>1 DEF AccountsOf, AccountRow

(* The same of listings. *)
LEMMA ListingsAre ==
    ASSUME NEW db, IsDatabase(db)
    PROVE  /\ \A l : l \in DOMAIN ListingsOf(db) <=> <<"listing", l>> \in DOMAIN db
           /\ \A l \in DOMAIN ListingsOf(db) :
                ListingsOf(db)[l] = [contributor |-> db[<<"listing", l>>].contributor, open |-> db[<<"listing", l>>].open,
                                     receiver |-> db[<<"listing", l>>].receiver]
           /\ ListingsOf(db) = [l \in DOMAIN ListingsOf(db) |-> ListingsOf(db)[l]]
           /\ \A l \in DOMAIN ListingsOf(db) :
                /\ <<"listing", l>> \in ListingKey /\ db[<<"listing", l>>].open \in BOOLEAN
                /\ ListingsOf(db)[l].contributor = db[<<"listing", l>>].contributor
                /\ ListingsOf(db)[l].open = db[<<"listing", l>>].open
                /\ ListingsOf(db)[l].receiver = db[<<"listing", l>>].receiver
<1>1. ASSUME NEW l, <<"listing", l>> \in DOMAIN db
      PROVE  l \in ListingID /\ <<"listing", l>> \in ListingKey /\ db[<<"listing", l>>] \in ListingRow
  <2>1. <<"listing", l>> \in Key /\ <<"listing", l>> \in ListingKey
    BY <1>1, KeyKinds DEF IsDatabase
  <2> QED BY <1>1, <2>1, RowKinds DEF IsDatabase, ListingKey
<1>2. \A l : l \in DOMAIN ListingsOf(db) <=> l \in ListingID /\ <<"listing", l>> \in DOMAIN db
  BY DEF ListingsOf
<1>3. \A l \in DOMAIN ListingsOf(db) :
                ListingsOf(db)[l] = [contributor |-> db[<<"listing", l>>].contributor, open |-> db[<<"listing", l>>].open,
                                     receiver |-> db[<<"listing", l>>].receiver]
  BY <1>2 DEF ListingsOf
<1>4. ListingsOf(db) = [l \in DOMAIN ListingsOf(db) |-> ListingsOf(db)[l]]
  BY DEF ListingsOf
<1>5. ASSUME NEW l \in DOMAIN ListingsOf(db)
      PROVE     /\ <<"listing", l>> \in ListingKey /\ db[<<"listing", l>>].open \in BOOLEAN
                /\ ListingsOf(db)[l].contributor = db[<<"listing", l>>].contributor
                /\ ListingsOf(db)[l].open = db[<<"listing", l>>].open
                /\ ListingsOf(db)[l].receiver = db[<<"listing", l>>].receiver
  <2>1. db[<<"listing", l>>] \in ListingRow /\ <<"listing", l>> \in ListingKey
    BY <1>1, <1>2
  <2> QED BY <1>3, <2>1 DEF ListingRow
<1> QED BY <1>1, <1>2, <1>3, <1>4, <1>5

(* Accounts of which each is as open as it was: the members see the same.  *)
LEMMA AccountsStay ==
    ASSUME NEW db, NEW new, IsDatabase(db), IsDatabase(new),
           \A k \in AccountKey : (k \in DOMAIN db <=> k \in DOMAIN new) /\ (k \in DOMAIN db => new[k].open = db[k].open)
    PROVE  AccountsOf(new) = AccountsOf(db)
<1>1. \A a \in AccountID : <<"account", a>> \in AccountKey
  BY DEF AccountKey
<1> QED BY <1>1 DEF AccountsOf

(* The same of listings. *)
LEMMA ListingsStay ==
    ASSUME NEW db, NEW new, IsDatabase(db), IsDatabase(new),
           \A k \in ListingKey :
              /\ k \in DOMAIN db <=> k \in DOMAIN new
              /\ k \in DOMAIN db => /\ new[k].contributor = db[k].contributor /\ new[k].open = db[k].open
                                    /\ new[k].receiver = db[k].receiver
    PROVE  ListingsOf(new) = ListingsOf(db)
<1>1. \A l \in ListingID : <<"listing", l>> \in ListingKey
  BY DEF ListingKey
<1> QED BY <1>1 DEF ListingsOf

(* What a COMMIT brings, of accounts and of listings.                      *)
LEMMA CommitDeals ==
    ASSUME SafeInv, DealInv, NEW s \in Sessions, pc[s] = "commit"
    PROVE  /\ \A k \in AccountKey \cap DOMAIN store :
                /\ k \in DOMAIN View(s)
                /\ \/ View(s)[k].open = store[k].open
                   \/ req[s].op = "close-account" /\ k = Own(s) /\ k \in DOMAIN writes[s] /\ ~View(s)[k].open
           /\ \A k \in AccountKey \ DOMAIN store :
                k \in DOMAIN View(s) =>
                  req[s].op = "create-account" /\ k = <<"account", s>> /\ k \in DOMAIN writes[s] /\ View(s)[k].open
           /\ \A k \in ListingKey \cap DOMAIN store :
                /\ k \in DOMAIN View(s) /\ View(s)[k].contributor = store[k].contributor
                /\ \/ View(s)[k].open = store[k].open /\ View(s)[k].receiver = store[k].receiver
                   \/ /\ req[s].op = "close-account" /\ store[k].contributor = req[s].actor
                      /\ ~View(s)[k].open /\ View(s)[k].receiver = store[k].receiver
                   \/ /\ req[s].op = "close-listing" /\ k = Target(s) /\ store[k].contributor = req[s].actor
                      /\ k \in DOMAIN writes[s] /\ ~View(s)[k].open /\ View(s)[k].receiver = req[s].receiver
                      /\ req[s].receiver = Null \/ <<"account", req[s].receiver>> \in DOMAIN store
           /\ \A k \in ListingKey \ DOMAIN store :
                k \in DOMAIN View(s) =>
                  /\ req[s].op = "create-listing" /\ k = <<"listing", s>>
                  /\ View(s)[k].contributor = req[s].actor /\ View(s)[k].open /\ View(s)[k].receiver = Null
<1>0. TypeInv /\ TypeOK /\ VersionsInv
  BY DEF SafeInv, TypeInv
<1>1. ASSUME NEW k \in DOMAIN View(s)
      PROVE  /\ k \in DOMAIN writes[s] => Deal(s, req[s], k, View(s)[k], store)
             /\ k \notin DOMAIN writes[s] => k \in DOMAIN store /\ View(s)[k] = store[k]
  BY <1>0, ViewType DEF DealInv
<1>2. \A k \in (AccountKey \cup ListingKey) \cap DOMAIN store : k \in DOMAIN View(s) /\ Follows(k, store[k], View(s)[k])
  BY <1>0, SeenFollows DEF Kept
<1>3. ASSUME NEW k \in AccountKey \cap DOMAIN store
      PROVE  /\ k \in DOMAIN View(s)
             /\ \/ View(s)[k].open = store[k].open
                \/ req[s].op = "close-account" /\ k = Own(s) /\ k \in DOMAIN writes[s] /\ ~View(s)[k].open
  BY <1>1, <1>2 DEF Deal, Own
<1>4. ASSUME NEW k \in AccountKey \ DOMAIN store, k \in DOMAIN View(s)
      PROVE  req[s].op = "create-account" /\ k = <<"account", s>> /\ k \in DOMAIN writes[s] /\ View(s)[k].open
  BY <1>1, <1>4 DEF Deal
<1>5. ASSUME NEW k \in ListingKey \cap DOMAIN store
      PROVE  /\ k \in DOMAIN View(s) /\ View(s)[k].contributor = store[k].contributor
             /\ \/ View(s)[k].open = store[k].open /\ View(s)[k].receiver = store[k].receiver
                \/ /\ req[s].op = "close-account" /\ store[k].contributor = req[s].actor
                   /\ ~View(s)[k].open /\ View(s)[k].receiver = store[k].receiver
                \/ /\ req[s].op = "close-listing" /\ k = Target(s) /\ store[k].contributor = req[s].actor
                   /\ k \in DOMAIN writes[s] /\ ~View(s)[k].open /\ View(s)[k].receiver = req[s].receiver
                   /\ req[s].receiver = Null \/ <<"account", req[s].receiver>> \in DOMAIN store
  BY <1>1, <1>2 DEF Deal, Target, Follows
<1>6. ASSUME NEW k \in ListingKey \ DOMAIN store, k \in DOMAIN View(s)
      PROVE  /\ req[s].op = "create-listing" /\ k = <<"listing", s>>
             /\ View(s)[k].contributor = req[s].actor /\ View(s)[k].open /\ View(s)[k].receiver = Null
  BY <1>1, <1>6 DEF Deal
<1> QED BY <1>3, <1>4, <1>5, <1>6

(* COMMIT, request by request.  A request that is neither creating nor     *)
(* closing an account changes none; and so for listings.                   *)
LEMMA OthersUnseen ==
    ASSUME SafeInv, SafeInv', DealInv, NEW s \in Sessions, pc[s] = "commit", store' = View(s)
    PROVE  /\ req[s].op \notin {"create-account", "close-account"} => AccountsOf(store') = AccountsOf(store)
           /\ req[s].op \notin {"create-listing", "close-listing", "close-account"} => ListingsOf(store') = ListingsOf(store)
<1>0. IsDatabase(store) /\ IsDatabase(store')
  BY DEF SafeInv, TypeInv, TypeOK
<1>1. ASSUME req[s].op \notin {"create-account", "close-account"}
      PROVE  AccountsOf(store') = AccountsOf(store)
  <2>1. \A k \in AccountKey :
          (k \in DOMAIN store <=> k \in DOMAIN store') /\ (k \in DOMAIN store => store'[k].open = store[k].open)
    BY <1>1, CommitDeals
  <2> QED BY <1>0, <2>1, AccountsStay
<1>2. ASSUME req[s].op \notin {"create-listing", "close-listing", "close-account"}
      PROVE  ListingsOf(store') = ListingsOf(store)
  <2>1. \A k \in ListingKey :
          /\ k \in DOMAIN store <=> k \in DOMAIN store'
          /\ k \in DOMAIN store => /\ store'[k].contributor = store[k].contributor /\ store'[k].open = store[k].open
                                   /\ store'[k].receiver = store[k].receiver
    BY <1>2, CommitDeals
  <2> QED BY <1>0, <2>1, ListingsStay
<1> QED BY <1>1, <1>2

(* A create-account request: its answer says whether there is an account.  *)
LEMMA CommitRegisters ==
    ASSUME SafeInv, SafeInv', TraceInv, ProgressInv, DealInv, NEW s \in Sessions, pc[s] = "commit", store' = View(s),
           req[s].op = "create-account"
    PROVE  IF PrepareResults(req[s].op, returned[s]) = "null" THEN Members!Register(s) ELSE Members!Nothing
<1> DEFINE k == <<"account", s>>
<1>0. /\ IsDatabase(store) /\ IsDatabase(store') /\ TypeInv /\ k \in AccountKey /\ req[s] \in Request
      /\ Progress(s) /\ pc[s] # "idle" /\ Active(s)
  BY DEF SafeInv, TypeInv, TypeOK, AccountKey, AccountID, Position, ProgressInv, Active
<1>1. ListingsOf(store') = ListingsOf(store)
  BY OthersUnseen
<1>2. k \notin DOMAIN store
  <2> SUFFICES ASSUME k \in DOMAIN store PROVE FALSE
    OBVIOUS
  <2>1. Marks(k, store[k], s)
    BY DEF Marks
  <2>2. ~Settled(s)
    BY DEF Settled
  <2> QED BY <2>1, <2>2 DEF TraceInv
<1>3. \A j \in AccountKey :
        /\ j \in DOMAIN store => j \in DOMAIN store' /\ store'[j].open = store[j].open
        /\ (j \in DOMAIN store' /\ j \notin DOMAIN store) => j = k /\ j \in DOMAIN writes[s] /\ store'[j].open
  BY CommitDeals
<1>4. Names(req[s].op) = {"create_account", "store_address", "insert_pfp"}
      /\ DropFromResults(req[s].op) = {"store_address", "insert_pfp"}
  BY DEF Names, DropFromResults
<1>5. returned[s] \subseteq Names(req[s].op)
  BY <1>0 DEF Progress
<1>6. CASE PrepareResults(req[s].op, returned[s]) = "null"
  <2>1. "create_account" \in returned[s]
    BY <1>4, <1>5, <1>6 DEF PrepareResults
  <2> DEFINE q == Named("create_account", 0)
  <2>2. q \in StatementOf(req[s]) /\ q.query = "create_account"
    BY <1>4 DEF Named, StatementOf, HasParameters
  <2>3. Made(View(s), s, q)
    BY <1>0, <2>1, <2>2 DEF Progress, Must
  <2>4. k \in DOMAIN store'
    BY <2>2, <2>3 DEF Made, Fulfilled
  <2> HIDE DEF q
  <2>5. AccountsOf(store') = [a \in DOMAIN AccountsOf(store) \cup {s} |-> IF a = s THEN TRUE ELSE AccountsOf(store)[a]]
    <3>1. DOMAIN AccountsOf(store') = DOMAIN AccountsOf(store) \cup {s}
      <4>1. ASSUME NEW a PROVE a \in DOMAIN AccountsOf(store') <=> a \in DOMAIN AccountsOf(store) \/ a = s
        <5>1. /\ a \in DOMAIN AccountsOf(store') <=> <<"account", a>> \in DOMAIN store'
              /\ a \in DOMAIN AccountsOf(store) <=> <<"account", a>> \in DOMAIN store
              /\ <<"account", a>> \in DOMAIN store' \cup DOMAIN store => <<"account", a>> \in AccountKey
          BY <1>0, AccountsAre
        <5>2. <<"account", a>> = k <=> a = s
          OBVIOUS
        <5> HIDE DEF k
        <5> QED BY <1>3, <2>4, <5>1, <5>2
      <4> QED BY <4>1
    <3>2. \A a \in DOMAIN AccountsOf(store') :
             AccountsOf(store')[a] = IF a = s THEN TRUE ELSE AccountsOf(store)[a]
      <4> SUFFICES ASSUME NEW a \in DOMAIN AccountsOf(store')
                   PROVE  AccountsOf(store')[a] = IF a = s THEN TRUE ELSE AccountsOf(store)[a]
        OBVIOUS
      <4>1. /\ AccountsOf(store')[a] = store'[<<"account", a>>].open /\ AccountsOf(store')[a] \in BOOLEAN
            /\ <<"account", a>> \in AccountKey /\ <<"account", a>> \in DOMAIN store'
        BY <1>0, AccountsAre
      <4>2. CASE a = s
        BY <1>2, <1>3, <4>1, <4>2
      <4>3. CASE a # s
        <5>1. <<"account", a>> \in DOMAIN store
          BY <1>3, <4>1, <4>3
        <5>2. AccountsOf(store)[a] = store[<<"account", a>>].open
          BY <1>0, <5>1, AccountsAre
        <5> QED BY <1>3, <4>1, <4>3, <5>1, <5>2
      <4> QED BY <4>2, <4>3
    <3> QED BY <1>0, <3>1, <3>2, AccountsAre
  <2>6. s \notin DOMAIN AccountsOf(store)
    BY <1>0, <1>2, AccountsAre
  <2> QED BY <1>1, <1>6, <2>5, <2>6 DEF Members!Register
<1>7. CASE PrepareResults(req[s].op, returned[s]) # "null"
  <2>1. Bare(s)
    BY <1>0, <1>7 DEF Bare, PrepareResults
  <2>2. k \notin DOMAIN writes[s] \/ writes[s][k] = NoRow
    BY <2>1 DEF TraceInv, Marks
  <2>3. k \notin DOMAIN store'
    BY <1>0, <1>2, <2>2, ViewType DEF TypeInv
  <2>4. AccountsOf(store') = AccountsOf(store)
    BY <1>0, <1>3, <2>3, AccountsStay
  <2> QED BY <1>1, <1>7, <2>4 DEF Members!Nothing
<1> QED BY <1>6, <1>7

(* A create-listing request, which has its listing once it commits.        *)
LEMMA CommitOffers ==
    ASSUME SafeInv, SafeInv', TraceInv, ProgressInv, DealInv, NEW s \in Sessions, pc[s] = "commit", store' = View(s),
           req[s].op = "create-listing"
    PROVE  PrepareResults(req[s].op, returned[s]) = "null" /\ Members!Offer(s)
<1> DEFINE k == <<"listing", s>>
           q == Named("create_listing", 0)
<1>0. /\ IsDatabase(store) /\ IsDatabase(store') /\ TypeInv /\ k \in ListingKey /\ req[s] \in Request
      /\ Progress(s) /\ pc[s] # "idle" /\ Active(s)
  BY DEF SafeInv, TypeInv, TypeOK, ListingKey, ListingID, Position, ProgressInv, Active
<1>1. AccountsOf(store') = AccountsOf(store)
  BY OthersUnseen
<1>2. k \notin DOMAIN store
  <2> SUFFICES ASSUME k \in DOMAIN store PROVE FALSE
    OBVIOUS
  <2>1. Marks(k, store[k], s)
    BY DEF Marks
  <2>2. ~Settled(s)
    BY DEF Settled
  <2> QED BY <2>1, <2>2 DEF TraceInv
<1>3. \A j \in ListingKey :
        /\ j \in DOMAIN store =>
             /\ j \in DOMAIN store' /\ store'[j].contributor = store[j].contributor
             /\ store'[j].open = store[j].open /\ store'[j].receiver = store[j].receiver
        /\ (j \in DOMAIN store' /\ j \notin DOMAIN store) =>
             j = k /\ store'[j].contributor = req[s].actor /\ store'[j].open /\ store'[j].receiver = Null
  BY CommitDeals
<1>4. PICK i \in 1..Len(Build(req[s])) : Build(req[s])[i] = q
  BY <1>0, BuildHas DEF Has
<1>5. q.query = "create_listing" /\ Finished(s, i)
  BY DEF Named, Finished
<1>6. "create_listing" \in returned[s] /\ Made(View(s), s, q)
  BY <1>0, <1>4, <1>5 DEF Progress, Sure, Unreturning
<1>7. k \in DOMAIN store'
  BY <1>5, <1>6 DEF Made, Fulfilled, Owns
<1>8. PrepareResults(req[s].op, returned[s]) = "null"
  BY <1>6 DEF PrepareResults, DropFromResults
<1> HIDE DEF q
<1>9. ListingsOf(store') =
        [l \in DOMAIN ListingsOf(store) \cup {s} |->
            IF l = s THEN [contributor |-> req[s].actor, open |-> TRUE, receiver |-> Null] ELSE ListingsOf(store)[l]]
  <2>1. DOMAIN ListingsOf(store') = DOMAIN ListingsOf(store) \cup {s}
    <3>1. ASSUME NEW l PROVE l \in DOMAIN ListingsOf(store') <=> l \in DOMAIN ListingsOf(store) \/ l = s
      <4>1. /\ l \in DOMAIN ListingsOf(store') <=> <<"listing", l>> \in DOMAIN store'
            /\ l \in DOMAIN ListingsOf(store) <=> <<"listing", l>> \in DOMAIN store
            /\ <<"listing", l>> \in DOMAIN store' \cup DOMAIN store => <<"listing", l>> \in ListingKey
        BY <1>0, ListingsAre
      <4>2. <<"listing", l>> = k <=> l = s
        OBVIOUS
      <4> HIDE DEF k
      <4> QED BY <1>3, <1>7, <4>1, <4>2
    <3> QED BY <3>1
  <2>2. ASSUME NEW l \in DOMAIN ListingsOf(store')
        PROVE  ListingsOf(store')[l] = IF l = s THEN [contributor |-> req[s].actor, open |-> TRUE, receiver |-> Null]
                                       ELSE ListingsOf(store)[l]
    <3>1. /\ ListingsOf(store')[l] = [contributor |-> store'[<<"listing", l>>].contributor,
                                      open |-> store'[<<"listing", l>>].open, receiver |-> store'[<<"listing", l>>].receiver]
          /\ store'[<<"listing", l>>].open \in BOOLEAN
          /\ <<"listing", l>> \in ListingKey /\ <<"listing", l>> \in DOMAIN store'
      BY <1>0, ListingsAre
    <3>2. CASE l = s
      <4>1. store'[k].contributor = req[s].actor /\ store'[k].open = TRUE /\ store'[k].receiver = Null
        BY <1>0, <1>2, <1>3, <1>7, <3>1, <3>2
      <4> QED BY <3>1, <3>2, <4>1
    <3>3. CASE l # s
      <4>1. <<"listing", l>> \in DOMAIN store
        BY <1>3, <3>1, <3>3
      <4>2. ListingsOf(store)[l] = [contributor |-> store[<<"listing", l>>].contributor,
                                    open |-> store[<<"listing", l>>].open, receiver |-> store[<<"listing", l>>].receiver]
        BY <1>0, <4>1, ListingsAre
      <4> QED BY <1>3, <3>1, <3>3, <4>1, <4>2
    <3> QED BY <3>2, <3>3
  <2> QED BY <1>0, <2>1, <2>2, ListingsAre
<1>10. s \notin DOMAIN ListingsOf(store)
  BY <1>0, <1>2, ListingsAre
<1> QED BY <1>1, <1>8, <1>9, <1>10 DEF Members!Offer

(* A close-listing request: it was granted just if it gives the listing.   *)
LEMMA CommitGives ==
    ASSUME SafeInv, SafeInv', OutcomeInv, DealInv, NEW s \in Sessions, pc[s] = "commit", store' = View(s),
           req[s].op = "close-listing"
    PROVE  IF PrepareResults(req[s].op, returned[s]) = "null" THEN Members!Give(s) ELSE Members!Nothing
<1> DEFINE r == req[s]
           k == <<"listing", r.listing>>
<1>0. /\ IsDatabase(store) /\ IsDatabase(store') /\ TypeInv /\ Knows(s) /\ Closes(s) /\ k = Target(s) /\ k \in ListingKey
  BY CloserKinds DEF SafeInv, TypeInv, TypeOK, OutcomeInv, Closes, Target
<1>1. AccountsOf(store') = AccountsOf(store)
  BY OthersUnseen
<1>2. \A j \in ListingKey :
        /\ j \in DOMAIN store =>
             /\ j \in DOMAIN store' /\ store'[j].contributor = store[j].contributor
             /\ \/ store'[j].open = store[j].open /\ store'[j].receiver = store[j].receiver
                \/ /\ j = k /\ store[j].contributor = r.actor
                   /\ j \in DOMAIN writes[s] /\ ~store'[j].open /\ store'[j].receiver = r.receiver
                   /\ r.receiver = Null \/ <<"account", r.receiver>> \in DOMAIN store
        /\ j \in DOMAIN store' => j \in DOMAIN store
  BY <1>0, CommitDeals
<1>3. /\ returned[s] \subseteq {"close_listing"}
      /\ Took(s) => /\ k \in DOMAIN store /\ store[k].open
                    /\ k \in DOMAIN writes[s] /\ ClosedFor(s, writes[s][k])
      /\ ~Took(s) => k \notin DOMAIN writes[s]
  BY <1>0 DEF Knows
<1>4. PrepareResults(r.op, returned[s]) = "null" <=> Took(s)
  <2>1. DropFromResults(r.op) = {"close_conversations"}
    BY DEF DropFromResults
  <2> QED BY <1>3, <2>1 DEF PrepareResults, Took
<1>5. DOMAIN ListingsOf(store') = DOMAIN ListingsOf(store)
  <2>1. ASSUME NEW l PROVE l \in DOMAIN ListingsOf(store') <=> l \in DOMAIN ListingsOf(store)
    BY <1>0, <1>2, ListingsAre
  <2> QED BY <2>1
<1>6. CASE Took(s)
  <2>1. ~store'[k].open /\ store'[k].receiver = r.receiver
    BY <1>0, <1>2, <1>3, <1>6, ViewType DEF ClosedFor, TypeInv
  <2>2. store[k].contributor = r.actor /\ (r.receiver = Null \/ <<"account", r.receiver>> \in DOMAIN store)
    <3>1. store[k].open # store'[k].open
      BY <1>3, <1>6, <2>1
    <3> QED BY <1>0, <1>2, <1>3, <1>6, <3>1
  <2>3. r.listing \in DOMAIN ListingsOf(store) /\ ListingsOf(store)[r.listing].open
        /\ ListingsOf(store)[r.listing].contributor = r.actor
    BY <1>0, <1>3, <1>6, <2>2, ListingsAre
  <2>4. r.receiver = Null \/ r.receiver \in DOMAIN AccountsOf(store)
    BY <1>0, <2>2, AccountsAre
  <2>5. ListingsOf(store') = [ListingsOf(store) EXCEPT ![r.listing] =
                                 [contributor |-> r.actor, open |-> FALSE, receiver |-> r.receiver]]
    <3>1. ASSUME NEW l \in DOMAIN ListingsOf(store')
          PROVE  ListingsOf(store')[l] = IF l = r.listing THEN [contributor |-> r.actor, open |-> FALSE, receiver |-> r.receiver]
                                         ELSE ListingsOf(store)[l]
      <4>1. /\ ListingsOf(store')[l] = [contributor |-> store'[<<"listing", l>>].contributor,
                                        open |-> store'[<<"listing", l>>].open, receiver |-> store'[<<"listing", l>>].receiver]
            /\ ListingsOf(store)[l] = [contributor |-> store[<<"listing", l>>].contributor,
                                       open |-> store[<<"listing", l>>].open, receiver |-> store[<<"listing", l>>].receiver]
            /\ store'[<<"listing", l>>].open \in BOOLEAN
            /\ <<"listing", l>> \in ListingKey /\ <<"listing", l>> \in DOMAIN store
        BY <1>0, <1>5, ListingsAre
      <4>2. CASE l = r.listing
        <5>1. store'[k].contributor = r.actor /\ store'[k].open = FALSE /\ store'[k].receiver = r.receiver
          BY <1>0, <1>2, <1>3, <1>6, <2>1, <2>2, <4>1, <4>2
        <5> QED BY <4>1, <4>2, <5>1
      <4>3. CASE l # r.listing
        <5>1. <<"listing", l>> # k
          BY <4>3
        <5> QED BY <1>2, <4>1, <4>3, <5>1
      <4> QED BY <4>2, <4>3
    <3>2. ListingsOf(store') = [l \in DOMAIN ListingsOf(store) |-> ListingsOf(store')[l]]
      BY <1>0, <1>5, ListingsAre
    <3>3. ListingsOf(store) = [l \in DOMAIN ListingsOf(store) |-> ListingsOf(store)[l]]
      BY <1>0, ListingsAre
    <3> HIDE DEF r
    <3> QED BY <1>5, <3>1, <3>2, <3>3
  <2> QED BY <1>1, <1>4, <1>6, <2>3, <2>4, <2>5 DEF Members!Give
<1>7. CASE ~Took(s)
  <2>1. ListingsOf(store') = ListingsOf(store)
    BY <1>0, <1>2, <1>3, <1>7, ListingsStay
  <2> QED BY <1>1, <1>4, <1>7, <2>1 DEF Members!Nothing
<1> QED BY <1>6, <1>7

(* A close-account request: granted if it closes its account; if another   *)
(* did before it, it is refused, and its close_listings still commits.     *)
LEMMA CommitShuts ==
    ASSUME SafeInv, SafeInv', WritesInv, DealInv, ClosureReachesListings', NEW s \in Sessions,
           pc[s] = "commit", store' = View(s), UNCHANGED req, req[s].op = "close-account"
    PROVE  IF PrepareResults(req[s].op, returned[s]) = "null" THEN Members!CloseAccount(s) ELSE Members!CloseAgain(s)
<1> DEFINE a == req[s].actor
           k == <<"account", a>>
<1>0. /\ IsDatabase(store) /\ IsDatabase(store') /\ IsDatabase(InitStore) /\ TypeInv /\ Shuts(s)
      /\ k = Own(s) /\ k \in AccountKey /\ ShutsOwn(s)
  BY ShutsKinds, MarketplaceAssumption DEF SafeInv, TypeInv, TypeOK, Own, Shuts, Active, DealInv
<1>1. /\ k \in DOMAIN store /\ k \in DOMAIN store'
      /\ store'[k].open = (~Shutting(s) /\ store[k].open)
  BY <1>0, OwnSeen
<1>2. /\ Shutting(s) => store[k].open
      /\ ~Shutting(s) => ~store[k].open
      /\ returned[s] \subseteq {"close_account"}
  BY <1>0 DEF ShutsOwn
<1>3. PrepareResults(req[s].op, returned[s]) = "null" <=> Shutting(s)
  <2>1. DropFromResults(req[s].op) = {"close_listings", "close_conversations"}
    BY DEF DropFromResults
  <2> QED BY <1>2, <2>1 DEF PrepareResults, Shutting
<1>4. \A j \in AccountKey :
        /\ j \in DOMAIN store <=> j \in DOMAIN store'
        /\ j \in DOMAIN store /\ j # k => store'[j].open = store[j].open
  BY <1>0, CommitDeals
<1>5. \A j \in ListingKey :
        /\ j \in DOMAIN store <=> j \in DOMAIN store'
        /\ j \in DOMAIN store =>
             /\ store'[j].contributor = store[j].contributor /\ store'[j].receiver = store[j].receiver
             /\ store'[j].open = store[j].open \/ (store[j].contributor = a /\ ~store'[j].open)
  BY CommitDeals
<1>6. DOMAIN AccountsOf(store') = DOMAIN AccountsOf(store) /\ a \in DOMAIN AccountsOf(store)
      /\ AccountsOf(store)[a] = store[k].open
  <2>1. ASSUME NEW b PROVE b \in DOMAIN AccountsOf(store') <=> b \in DOMAIN AccountsOf(store)
    BY <1>0, <1>4, AccountsAre
  <2> QED BY <1>0, <1>1, <2>1, AccountsAre
<1>7. DOMAIN ListingsOf(store') = DOMAIN ListingsOf(store)
  <2>1. ASSUME NEW l PROVE l \in DOMAIN ListingsOf(store') <=> l \in DOMAIN ListingsOf(store)
    BY <1>0, <1>5, ListingsAre
  <2> QED BY <2>1
<1>8. Members!Withdraw(a)
  <2> DEFINE L == {l \in DOMAIN ListingsOf(store) : ListingsOf(store)[l].contributor = a /\ ~ListingsOf(store')[l].open}
  <2>1. ASSUME NEW l \in DOMAIN ListingsOf(store)
        PROVE  ListingsOf(store')[l] = [ListingsOf(store)[l] EXCEPT !.open = @ /\ l \notin L]
    <3> DEFINE j == <<"listing", l>>
    <3>1. /\ ListingsOf(store')[l] =
               [contributor |-> store'[j].contributor, open |-> store'[j].open, receiver |-> store'[j].receiver]
          /\ ListingsOf(store)[l] =
               [contributor |-> store[j].contributor, open |-> store[j].open, receiver |-> store[j].receiver]
          /\ store[j].open \in BOOLEAN /\ store'[j].open \in BOOLEAN
          /\ j \in ListingKey /\ j \in DOMAIN store
          /\ ListingsOf(store)[l].contributor = store[j].contributor /\ ListingsOf(store)[l].open = store[j].open
          /\ ListingsOf(store')[l].open = store'[j].open
      BY <1>0, <1>7, ListingsAre
    <3>2. /\ store'[j].contributor = store[j].contributor /\ store'[j].receiver = store[j].receiver
          /\ store'[j].open = store[j].open \/ (store[j].contributor = a /\ ~store'[j].open)
      BY <1>5, <3>1
    <3>3. l \in L <=> store[j].contributor = a /\ ~store'[j].open
      BY <3>1
    <3> HIDE DEF L, j
    <3>4. store'[j].open = (store[j].open /\ l \notin L)
      BY <3>1, <3>2, <3>3
    <3>5. [ListingsOf(store)[l] EXCEPT !.open = @ /\ l \notin L] =
             [contributor |-> store[j].contributor, open |-> store[j].open /\ l \notin L, receiver |-> store[j].receiver]
      BY <3>1
    <3> QED BY <3>1, <3>2, <3>4, <3>5
  <2>2. L \in SUBSET {l \in DOMAIN ListingsOf(store) : ListingsOf(store)[l].contributor = a}
    OBVIOUS
  <2>3. ListingsOf(store') = [l \in DOMAIN ListingsOf(store) |-> ListingsOf(store')[l]]
    BY <1>0, <1>7, ListingsAre
  <2> HIDE DEF L
  <2>4. ListingsOf(store') = [l \in DOMAIN ListingsOf(store) |-> [ListingsOf(store)[l] EXCEPT !.open = @ /\ l \notin L]]
    BY <2>1, <2>3
  <2> QED BY <2>2, <2>4 DEF Members!Withdraw
<1>9. CASE Shutting(s)
  <2>1. AccountsOf(store') = [AccountsOf(store) EXCEPT ![a] = FALSE]
    <3>1. ASSUME NEW b \in DOMAIN AccountsOf(store)
          PROVE  AccountsOf(store')[b] = IF b = a THEN FALSE ELSE AccountsOf(store)[b]
      <4>1. /\ AccountsOf(store')[b] = store'[<<"account", b>>].open
            /\ AccountsOf(store)[b] = store[<<"account", b>>].open
            /\ AccountsOf(store')[b] \in BOOLEAN
            /\ <<"account", b>> \in AccountKey /\ <<"account", b>> \in DOMAIN store
        BY <1>0, <1>6, AccountsAre
      <4>2. <<"account", b>> = k <=> b = a
        OBVIOUS
      <4> HIDE DEF k, a
      <4> QED BY <1>1, <1>4, <1>9, <4>1, <4>2
    <3>2. AccountsOf(store') = [b \in DOMAIN AccountsOf(store) |-> AccountsOf(store')[b]]
      BY <1>0, <1>6, AccountsAre
    <3>3. AccountsOf(store) = [b \in DOMAIN AccountsOf(store) |-> AccountsOf(store)[b]]
      BY <1>0, AccountsAre
    <3> HIDE DEF k, a
    <3> QED BY <1>6, <3>1, <3>2, <3>3
  <2>2. ASSUME NEW l \in DOMAIN ListingsOf(InitStore), a \in DOMAIN AccountsOf(InitStore),
               ListingsOf(InitStore)[l].contributor = a
        PROVE  ~ListingsOf(store')[l].open
    <3> DEFINE j == <<"listing", l>>
    <3>1. /\ j \in DOMAIN InitStore \cap ListingKey /\ InitStore[j].contributor = a
          /\ k \in DOMAIN InitStore
      BY <1>0, <2>2, ListingsAre, AccountsAre
    <3>2. InitStore[k].open
      <4>1. Follows(k, InitStore[k], store[k])
        BY <1>0, <3>1 DEF WritesInv, Later, Kept
      <4> QED BY <1>0, <1>2, <1>9, <4>1 DEF Follows
    <3>3. ~store'[k].open
      BY <1>1, <1>9
    <3>4. ~store'[j].open
      BY <3>1, <3>2, <3>3 DEF ClosureReachesListings
    <3>5. j \in DOMAIN store'
      <4>1. j \in DOMAIN store
        BY <3>1 DEF WritesInv, Later, Kept
      <4> QED BY <1>5, <3>1, <4>1
    <3> QED BY <1>0, <3>4, <3>5, ListingsAre
  <2>3. AccountsOf(store)[a]
    BY <1>2, <1>6, <1>9
  <2> QED BY <1>3, <1>8, <1>9, <2>1, <2>2, <2>3 DEF Members!CloseAccount
<1>10. CASE ~Shutting(s)
  <2>1. store'[k].open = store[k].open
    <3>1. ~store[k].open /\ ~store'[k].open
      BY <1>1, <1>2, <1>10
    <3>2. store[k].open \in BOOLEAN /\ store'[k].open \in BOOLEAN
      <4>1. k \in Key
        BY <1>0 DEF Key
      <4> HIDE DEF k
      <4>2. store[k] \in AccountRow /\ store'[k] \in AccountRow
        BY <1>0, <1>1, <4>1, RowKinds DEF IsDatabase
      <4> QED BY <4>2 DEF AccountRow
    <3> QED BY <3>1, <3>2
  <2>2. AccountsOf(store') = AccountsOf(store)
    BY <1>0, <1>4, <2>1, AccountsStay
  <2>3. ~AccountsOf(store)[a]
    BY <1>2, <1>6, <1>10
  <2> QED BY <1>3, <1>8, <1>10, <2>2, <2>3 DEF Members!CloseAgain
<1> QED BY <1>9, <1>10

(* A COMMIT that brings something that counts grants the request, another  *)
(* refuses it; answered so, or not at all.                                 *)
LEMMA CommitAnswers ==
    ASSUME SafeInv, SafeInv', OutcomeInv, WritesInv, ProgressInv, TraceInv, DealInv, ClosureReachesListings',
           NEW s \in Sessions, pc[s] = "commit", store' = View(s), UNCHANGED req
    PROVE  IF PrepareResults(req[s].op, returned[s]) = "null" THEN Members!Grant(s) ELSE Members!Refuse(s)
<1>1. CASE req[s].op = "create-account"
  BY <1>1, CommitRegisters DEF Members!Grant, Members!Refuse
<1>2. CASE req[s].op = "create-listing"
  BY <1>2, CommitOffers DEF Members!Grant
<1>3. CASE req[s].op = "close-listing"
  BY <1>3, CommitGives DEF Members!Grant, Members!Refuse
<1>4. CASE req[s].op = "close-account"
  BY <1>4, CommitShuts DEF Members!Grant, Members!Refuse
<1>5. CASE req[s].op \notin {"create-account", "close-account", "create-listing", "close-listing"}
  <2>1. Members!Nothing
    BY <1>5, OthersUnseen DEF Members!Nothing
  <2> QED BY <1>5, <2>1 DEF Members!Grant, Members!Refuse, Members!Serve
<1> QED BY <1>1, <1>2, <1>3, <1>4, <1>5

(* Answering one request answers no other. *)
LEMMA AnswerOne ==
    ASSUME SafeInv, SafeInv', NEW s \in Sessions, Execute(s) \/ Handle(s) \/ QueryFails(s), UNCHANGED req,
           pc[s] \notin {"idle", "done"}, pc'[s] = "done", NEW a, Outcome(s)' = a
    PROVE  Members!Answer(s, a)
<1>1. req[s] # Null /\ Outcome(s) = "none"
  BY MarketplaceAssumption DEF SafeInv, TypeInv, Position, Outcome
<1>2. \A t \in Sessions \ {s} : Outcome(t)' = Outcome(t)
  BY StepFrame DEF Outcome, SafeInv
<1>3. Outcomes' = [Outcomes EXCEPT ![s] = a]
  BY <1>2 DEF Outcomes
<1>4. Outcomes[s] = "none"
  BY <1>1 DEF Outcomes
<1> QED BY <1>1, <1>3, <1>4 DEF Members!Answer

(* A request that comes in, asks. *)
LEMMA ExecuteAsks ==
    ASSUME SafeInv, SafeInv', DealInv, NEW s \in Sessions, Execute(s)
    PROVE  Members!Ask(s)
<1>0. /\ IsDatabase(store) /\ UNCHANGED store /\ pc[s] = "idle" /\ pc'[s] # "done"
      /\ pc \in [Sessions -> {"idle", "password", "store", "done"} \cup InTransaction]
  BY DEF Execute, SafeInv, TypeInv, TypeOK
<1>1. req[s] = Null
  BY <1>0 DEF DealInv, Acts
<1>2. PICK r \in Menu : /\ r.op # "create-account" => <<"account", r.actor>> \in DOMAIN store
                        /\ req' = [req EXCEPT ![s] = r]
  BY DEF Execute
<1>3. r.op # "create-account" => r.actor \in DOMAIN AccountsOf(store)
  BY <1>0, <1>2, AccountsAre
<1>4. \A t \in Sessions : Outcome(t)' = Outcome(t)
  <2>1. Outcome(s)' = Outcome(s)
    BY <1>0 DEF Outcome
  <2>2. \A t \in Sessions \ {s} : Outcome(t)' = Outcome(t)
    BY StepFrame DEF Outcome, SafeInv
  <2> QED BY <2>1, <2>2
<1>5. UNCHANGED <<AccountsOf(store), ListingsOf(store), Outcomes>>
  BY <1>0, <1>4 DEF AccountsOf, ListingsOf, Outcomes
<1> QED BY <1>1, <1>2, <1>3, <1>5 DEF Members!Ask

(* Every step is that of a member's request, or nothing that members see.  *)
LEMMA StepExchanges ==
    ASSUME SafeInv, SafeInv', OutcomeInv, WritesInv, ProgressInv, TraceInv, DealInv, ClosureReachesListings',
           NEW s \in Sessions, Execute(s) \/ Handle(s) \/ QueryFails(s)
    PROVE  \/ Members!Next
           \/ UNCHANGED <<AccountsOf(store), ListingsOf(store), req, Outcomes>>
<1>0. TypeInv /\ TypeInv' /\ Knows(s) /\ pc \in [Sessions -> {"idle", "password", "store", "done"} \cup InTransaction]
  BY DEF SafeInv, OutcomeInv, TypeInv, TypeOK
<1>1. CASE Execute(s)
  BY <1>1, ExecuteAsks DEF Members!Next
<1>2. CASE ~Execute(s) /\ UNCHANGED <<store, req>> /\ pc[s] # "done" /\ pc'[s] # "done"
  <2>1. \A t \in Sessions : Outcome(t)' = Outcome(t)
    <3>1. \A t \in Sessions \ {s} : Outcome(t)' = Outcome(t)
      BY <1>0, StepFrame DEF Outcome
    <3> QED BY <1>2, <3>1 DEF Outcome
  <2> QED BY <1>2, <2>1 DEF AccountsOf, ListingsOf, Outcomes
<1>3. CASE /\ ~Execute(s) /\ UNCHANGED <<store, req>> /\ pc[s] \notin {"idle", "done"} /\ pc'[s] = "done"
           /\ error'[s] \notin {"null", "Unacknowledged"}
  <2>1. Outcome(s)' = "refused"
    <3>1. Outcome(s)' = IF error'[s] = "Unacknowledged" THEN "unheard"
                        ELSE IF error'[s] = "null" THEN "accepted" ELSE "refused"
      <4>1. error'[s] \in Errors \cup {"null"}
        BY <1>0 DEF TypeInv, TypeOK
      <4>2. error'[s] \in Errors => GetStatus(req'[s].op, error'[s]) \in {400, 401, 403, 404, 409, 500}
        BY DEF Errors, GetStatus
      <4>3. error'[s] = "null" => GetStatus(req'[s].op, error'[s]) \in {200, 201}
        BY DEF GetStatus
      <4> QED BY <1>3, <4>1, <4>2, <4>3 DEF Outcome, Errors
    <3> QED BY <1>3, <3>1
  <2>2. Members!Answer(s, "refused")
    BY <1>3, <2>1, AnswerOne
  <2>3. Members!Nothing
    BY <1>3 DEF Members!Nothing, AccountsOf, ListingsOf
  <2> QED BY <2>2, <2>3 DEF Members!Next, Members!Refuse
<1>4. CASE /\ pc[s] = "commit" /\ pc'[s] = "done" /\ store' = View(s) /\ UNCHANGED req
           /\ error'[s] \in {PrepareResults(req[s].op, returned[s]), "Unacknowledged"}
  <2>1. Outcome(s)' = IF error'[s] = "Unacknowledged" THEN "unheard"
                      ELSE IF error'[s] = "null" THEN "accepted" ELSE "refused"
    <3>1. error'[s] \in Errors \cup {"null"}
      BY <1>0 DEF TypeInv, TypeOK
    <3>2. error'[s] \in Errors => GetStatus(req'[s].op, error'[s]) \in {400, 401, 403, 404, 409, 500}
      BY DEF Errors, GetStatus
    <3>3. error'[s] = "null" => GetStatus(req'[s].op, error'[s]) \in {200, 201}
      BY DEF GetStatus
    <3> QED BY <1>4, <3>1, <3>2, <3>3 DEF Outcome, Errors
  <2>2. Members!Answer(s, Outcome(s)')
    BY <1>4, AnswerOne
  <2>3. IF PrepareResults(req[s].op, returned[s]) = "null" THEN Members!Grant(s) ELSE Members!Refuse(s)
    BY <1>4, CommitAnswers
  <2>4. CASE error'[s] = "Unacknowledged"
    BY <2>1, <2>2, <2>3, <2>4 DEF Members!Next
  <2>5. CASE error'[s] = "null"
    BY <1>4, <2>1, <2>2, <2>3, <2>5 DEF Members!Next
  <2>6. CASE error'[s] \notin {"null", "Unacknowledged"}
    BY <1>4, <2>1, <2>2, <2>3, <2>6 DEF Members!Next
  <2> QED BY <2>4, <2>5, <2>6
<1>5. CASE ~Execute(s)
  <2>1. CASE StaysOutside(s)
    BY <1>0, <1>2, <1>3, <1>5, <2>1 DEF StaysOutside
  <2>2. CASE Fails(s) \/ Chooses(s) \/ PassesRow(s) \/ WroteRow(s) \/ LockedRow(s)
    BY <1>2, <1>5, <2>2 DEF Fails, Chooses, PassesRow, WroteRow, LockedRow, Goes
  <2>3. CASE Ends(s)
    BY <1>0, <1>3, <1>4, <1>5, <2>3 DEF Ends, Knows
  <2> QED BY <1>0, <2>1, <2>2, <2>3, Steps
<1> QED BY <1>1, <1>5

(* Statement by statement, with rows waited for and COMMITs whose          *)
(* acknowledgement is lost, the requests implement the exchange: each      *)
(* happens at one instant, and is answered as it happened.                 *)
THEOREM ExchangeRefinement == Spec => RefinesExchange
<1>1. Init => Members!Init
  BY DEF Init, Members!Init, Outcomes, Outcome
<1>2. (/\ SafeInv /\ SafeInv' /\ OutcomeInv /\ WritesInv /\ ProgressInv /\ TraceInv /\ DealInv
       /\ ClosureReachesListings' /\ [Next]_vars) =>
        [Members!Next]_<<AccountsOf(store), ListingsOf(store), req, Outcomes>>
  <2> SUFFICES ASSUME SafeInv, SafeInv', OutcomeInv, WritesInv, ProgressInv, TraceInv, DealInv,
                      ClosureReachesListings', [Next]_vars
               PROVE  \/ Members!Next
                      \/ UNCHANGED <<AccountsOf(store), ListingsOf(store), req, Outcomes>>
    OBVIOUS
  <2>1. CASE UNCHANGED vars
    BY <2>1 DEF vars, AccountsOf, ListingsOf, Outcomes, Outcome
  <2>2. ASSUME NEW s \in Sessions, Execute(s) \/ Handle(s) \/ QueryFails(s)
        PROVE  \/ Members!Next
               \/ UNCHANGED <<AccountsOf(store), ListingsOf(store), req, Outcomes>>
    BY <2>2, StepExchanges
  <2> QED BY <2>1, <2>2 DEF Next, Terminating
<1> QED BY <1>1, <1>2, SafeIsInvariant, OutcomeIsInvariant, WritesAreJustified, ProgressIsInvariant, TraceIsInvariant,
           DealIsInvariant, AccountClosesListings, PTL DEF Spec, SafetySpec, RefinesExchange, Members!Spec
=============================================================================
