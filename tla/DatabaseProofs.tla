--------------------------- MODULE DatabaseProofs ----------------------------
(***************************************************************************)
(* Proofs about module Database, for any number of calls, clients and      *)
(* queries.  Everything follows from one inductive invariant, IInv: a      *)
(* phase-by-phase account of what the server holds for a call, which is    *)
(* what the properties alone leave out (they speak of clients that are     *)
(* free and of rows that are committed, not of the transaction under way). *)
(***************************************************************************)
EXTENDS Database, TLAPS

Holding == {"begin", "query", "commit", "rollback", "finally", "single"}

Prefix(c) == {<<c, i>> : i \in 1..(next[c] - 1)}

(* Calls hold clients in the phases that need one, and never share one. *)
ClientsInv ==
    \A c \in Calls :
        /\ client[c] # None <=> pc[c] \in Holding
        /\ \A d \in Calls : client[c] = client[d] /\ client[c] # None => c = d

(* A free client or a broken connection has no transaction. *)
CleanInv ==
    \A k \in Clients : (Free(k) \/ ~live[k]) => tx[k] = "none" /\ uncommitted[k] = {}

(* What the transaction of a call contains, phase by phase. *)
PhaseInv(c) ==
    /\ pc[c] \in {"start", "connect", "begin", "single"} => next[c] = 1
    /\ pc[c] \in {"begin", "single", "finally"} =>
         tx[client[c]] = "none" /\ uncommitted[client[c]] = {}
    /\ pc[c] = "query" => next[c] <= Length[c]
    /\ pc[c] = "commit" => next[c] = Length[c] + 1
    /\ (pc[c] \in {"query", "commit"} /\ live[client[c]]) =>
         tx[client[c]] = "open" /\ uncommitted[client[c]] = Prefix(c)
    /\ pc[c] = "rollback" => finish[c] = "rejected"
    /\ pc[c] = "finally" => finish[c] \in {"resolved", "rejected"}
    /\ pc[c] = "single" => Length[c] = 1

(* What is committed of a call, and what it has said or will say of it. *)
OutcomeInv(c) ==
    /\ answer[c] # "pending" <=> pc[c] = "done"
    /\ Rows(c) \subseteq table \/ Rows(c) \cap table = {}
    /\ pc[c] \in {"start", "connect", "begin", "query", "commit", "single"} =>
         Rows(c) \cap table = {}
    /\ pc[c] = "rollback" /\ Rows(c) \subseteq table => c \in unacked
    /\ pc[c] = "finally" /\ finish[c] = "resolved" => Rows(c) \subseteq table
    /\ pc[c] = "finally" /\ finish[c] = "rejected" /\ Rows(c) \subseteq table => c \in unacked
    /\ answer[c] = "resolved" => Rows(c) \subseteq table
    /\ answer[c] = "rejected" /\ Rows(c) \subseteq table => c \in unacked

IInv ==
    /\ TypeOK
    /\ ClientsInv
    /\ CleanInv
    /\ \A c \in Calls : PhaseInv(c) /\ OutcomeInv(c)
-----------------------------------------------------------------------------
(* The rows of different calls are different, every call has some, and     *)
(* what is committed of it is not at once all of them and none.            *)
LEMMA RowsFacts ==
    ASSUME NEW c \in Calls
    PROVE  /\ <<c, 1>> \in Rows(c)
           /\ Rows(c) \subseteq Calls \X Nat
           /\ \A d \in Calls : c # d => Rows(c) \cap Rows(d) = {}
           /\ Length[c] = 1 => Rows(c) = {<<c, 1>>}
           /\ Rows(c)' = Rows(c)
           /\ ~(Rows(c) \cap table = {} /\ Rows(c) \subseteq table)
<1>1. Length[c] \in Nat \ {0}
  BY DatabaseAssumption
<1>2. <<c, 1>> \in Rows(c)
  BY <1>1 DEF Rows
<1>3. /\ Rows(c) \subseteq Calls \X Nat
      /\ \A d \in Calls : c # d => Rows(c) \cap Rows(d) = {}
      /\ Length[c] = 1 => Rows(c) = {<<c, 1>>}
  BY <1>1 DEF Rows
<1>4. Rows(c)' = Rows(c)
  BY DEF Rows
<1>5. QED
  BY <1>2, <1>3, <1>4

(* The steps that commit, commit the rows of their call, all of them and   *)
(* nothing else.                                                           *)
LEMMA CommitWrites ==
    ASSUME IInv, NEW c \in Calls, Commit(c) \/ CommitUnacknowledged(c)
    PROVE  table' = table \cup Rows(c)
<1>1. live[client[c]] /\ pc[c] = "commit" /\ PhaseInv(c)
  BY DEF IInv, Commit, CommitUnacknowledged
<1>2. next[c] - 1 = Length[c] /\ tx[client[c]] = "open" /\ uncommitted[client[c]] = Prefix(c)
  BY <1>1, DatabaseAssumption DEF PhaseInv
<1>3. Prefix(c) = Rows(c)
  BY <1>2 DEF Prefix, Rows
<1>4. QED
  BY <1>2, <1>3 DEF Commit, CommitUnacknowledged

(* The query of simpleQuery finds its client in no transaction.            *)
LEMMA SimpleQueryWrites ==
    ASSUME IInv, NEW c \in Calls, SimpleQuery(c) \/ SimpleQueryUnacknowledged(c)
    PROVE  table' = table \cup Rows(c)
BY RowsFacts DEF IInv, PhaseInv, SimpleQuery, SimpleQueryUnacknowledged

(* Writing the rows of one call leaves those of the others as they were.   *)
LEMMA OthersUntouched ==
    ASSUME NEW c \in Calls, NEW d \in Calls, c # d, table' = table \cup Rows(c)
    PROVE  /\ Rows(d) \cap table' = Rows(d) \cap table
           /\ Rows(d) \subseteq table' <=> Rows(d) \subseteq table
<1>1. Rows(d) \cap table' = Rows(d) \cap table
  BY RowsFacts
<1>2. QED
  BY <1>1
-----------------------------------------------------------------------------
(* The empty database satisfies the invariant.                             *)
THEOREM InitInv == Init => IInv
BY DatabaseAssumption, RowsFacts
   DEF Init, IInv, TypeOK, ClientsInv, CleanInv, PhaseInv, OutcomeInv, Holding, Free

(* A call that starts holds nothing yet.                                   *)
LEMMA CallInv == ASSUME IInv, NEW c \in Calls, Call(c) PROVE IInv'
<1> USE DatabaseAssumption
<1>1. TypeOK'
  BY RowsFacts DEF IInv, TypeOK, Call, Goto
<1>2. ClientsInv'
  BY DEF IInv, TypeOK, ClientsInv, Holding, Free, Call, Goto
<1>3. CleanInv'
  BY DEF IInv, TypeOK, ClientsInv, CleanInv, PhaseInv, Holding, Free, Call, Goto
<1>4. ASSUME NEW d \in Calls PROVE PhaseInv(d)'
  BY <1>1 DEF IInv, TypeOK, ClientsInv, CleanInv, PhaseInv, Holding, Prefix, Free, Call, Goto
<1>5. ASSUME NEW d \in Calls PROVE OutcomeInv(d)'
  <2>1. Rows(d)' = Rows(d) /\ ~(Rows(d) \cap table = {} /\ Rows(d) \subseteq table)
    BY RowsFacts
  <2>2. QED
    BY <2>1 DEF IInv, TypeOK, PhaseInv, OutcomeInv, Call, Goto
<1>6. QED
  BY <1>1, <1>2, <1>3, <1>4, <1>5 DEF IInv

(* The client handed out was free, hence clean.                            *)
LEMMA ConnectedInv == ASSUME IInv, NEW c \in Calls, Connected(c) PROVE IInv'
<1> USE DatabaseAssumption
<1>1. TypeOK'
  BY RowsFacts DEF IInv, TypeOK, Connected, Goto
<1>2. ClientsInv'
  BY DEF IInv, TypeOK, ClientsInv, Holding, Free, Connected, Goto
<1>3. CleanInv'
  BY DEF IInv, TypeOK, ClientsInv, CleanInv, PhaseInv, Holding, Free, Connected, Goto
<1>4. ASSUME NEW d \in Calls PROVE PhaseInv(d)'
  BY <1>1 DEF IInv, TypeOK, ClientsInv, CleanInv, PhaseInv, Holding, Prefix, Free, Connected, Goto
<1>5. ASSUME NEW d \in Calls PROVE OutcomeInv(d)'
  <2>1. Rows(d)' = Rows(d) /\ ~(Rows(d) \cap table = {} /\ Rows(d) \subseteq table)
    BY RowsFacts
  <2>2. QED
    BY <2>1 DEF IInv, TypeOK, PhaseInv, OutcomeInv, Connected, Goto
<1>6. QED
  BY <1>1, <1>2, <1>3, <1>4, <1>5 DEF IInv

(* The call ends before it held a client.                                  *)
LEMMA NotAvailableInv == ASSUME IInv, NEW c \in Calls, NotAvailable(c) PROVE IInv'
<1> USE DatabaseAssumption
<1>1. TypeOK'
  BY RowsFacts DEF IInv, TypeOK, NotAvailable, Settle, Goto
<1>2. ClientsInv'
  BY DEF IInv, TypeOK, ClientsInv, Holding, Free, NotAvailable, Settle, Goto
<1>3. CleanInv'
  BY DEF IInv, TypeOK, ClientsInv, CleanInv, PhaseInv, Holding, Free, NotAvailable, Settle, Goto
<1>4. ASSUME NEW d \in Calls PROVE PhaseInv(d)'
  BY <1>1
  DEF IInv, TypeOK, ClientsInv, CleanInv, PhaseInv, Holding, Prefix, Free, NotAvailable, Settle, Goto
<1>5. ASSUME NEW d \in Calls PROVE OutcomeInv(d)'
  <2>1. Rows(d)' = Rows(d) /\ ~(Rows(d) \cap table = {} /\ Rows(d) \subseteq table)
    BY RowsFacts
  <2>2. QED
    BY <2>1 DEF IInv, TypeOK, PhaseInv, OutcomeInv, NotAvailable, Settle, Goto
<1>6. QED
  BY <1>1, <1>2, <1>3, <1>4, <1>5 DEF IInv

(* The transaction opens empty: next is still 1.                           *)
LEMMA BeginInv == ASSUME IInv, NEW c \in Calls, Begin(c) PROVE IInv'
<1> USE DatabaseAssumption
<1>1. TypeOK'
  BY RowsFacts DEF IInv, TypeOK, Begin, Goto
<1>2. ClientsInv'
  BY DEF IInv, TypeOK, ClientsInv, Holding, Free, Begin, Goto
<1>3. CleanInv'
  BY DEF IInv, TypeOK, ClientsInv, CleanInv, PhaseInv, Holding, Free, Begin, Goto
<1>4. ASSUME NEW d \in Calls PROVE PhaseInv(d)'
  BY <1>1 DEF IInv, TypeOK, ClientsInv, CleanInv, PhaseInv, Holding, Prefix, Free, Begin, Goto
<1>5. ASSUME NEW d \in Calls PROVE OutcomeInv(d)'
  <2>1. Rows(d)' = Rows(d) /\ ~(Rows(d) \cap table = {} /\ Rows(d) \subseteq table)
    BY RowsFacts
  <2>2. QED
    BY <2>1 DEF IInv, TypeOK, PhaseInv, OutcomeInv, Begin, Goto
<1>6. QED
  BY <1>1, <1>2, <1>3, <1>4, <1>5 DEF IInv

(* The transaction grows by the row nextQueryHandler is at.                *)
LEMMA NextQueryInv == ASSUME IInv, NEW c \in Calls, NextQuery(c) PROVE IInv'
<1> USE DatabaseAssumption
<1>1. TypeOK'
  BY RowsFacts DEF IInv, TypeOK, NextQuery, Goto
<1>2. ClientsInv'
  BY DEF IInv, TypeOK, ClientsInv, Holding, Free, NextQuery, Goto
<1>3. CleanInv'
  BY DEF IInv, TypeOK, ClientsInv, CleanInv, PhaseInv, Holding, Free, NextQuery, Goto
<1>4. ASSUME NEW d \in Calls PROVE PhaseInv(d)'
  BY <1>1 DEF IInv, TypeOK, ClientsInv, CleanInv, PhaseInv, Holding, Prefix, Free, NextQuery, Goto
<1>5. ASSUME NEW d \in Calls PROVE OutcomeInv(d)'
  <2>1. Rows(d)' = Rows(d) /\ ~(Rows(d) \cap table = {} /\ Rows(d) \subseteq table)
    BY RowsFacts
  <2>2. QED
    BY <2>1 DEF IInv, TypeOK, PhaseInv, OutcomeInv, NextQuery, Goto
<1>6. QED
  BY <1>1, <1>2, <1>3, <1>4, <1>5 DEF IInv

(* A refused query leads to ROLLBACK with finish set to reject.            *)
LEMMA QueryFailsInv == ASSUME IInv, NEW c \in Calls, QueryFails(c) PROVE IInv'
<1> USE DatabaseAssumption
<1>1. TypeOK'
  BY RowsFacts DEF IInv, TypeOK, QueryFails, Caught, Goto
<1>2. ClientsInv'
  BY DEF IInv, TypeOK, ClientsInv, Holding, Free, QueryFails, Caught, Goto
<1>3. CleanInv'
  BY DEF IInv, TypeOK, ClientsInv, CleanInv, PhaseInv, Holding, Free, QueryFails, Caught, Goto
<1>4. ASSUME NEW d \in Calls PROVE PhaseInv(d)'
  BY <1>1
  DEF IInv, TypeOK, ClientsInv, CleanInv, PhaseInv, Holding, Prefix, Free, QueryFails, Caught, Goto
<1>5. ASSUME NEW d \in Calls PROVE OutcomeInv(d)'
  <2>1. Rows(d)' = Rows(d) /\ ~(Rows(d) \cap table = {} /\ Rows(d) \subseteq table)
    BY RowsFacts
  <2>2. QED
    BY <2>1 DEF IInv, TypeOK, PhaseInv, OutcomeInv, QueryFails, Caught, Goto
<1>6. QED
  BY <1>1, <1>2, <1>3, <1>4, <1>5 DEF IInv

(* So does a query that could not be built.                                *)
LEMMA QueryNotSentInv == ASSUME IInv, NEW c \in Calls, QueryNotSent(c) PROVE IInv'
<1> USE DatabaseAssumption
<1>1. TypeOK'
  BY RowsFacts DEF IInv, TypeOK, QueryNotSent, Caught, Goto
<1>2. ClientsInv'
  BY DEF IInv, TypeOK, ClientsInv, Holding, Free, QueryNotSent, Caught, Goto
<1>3. CleanInv'
  BY DEF IInv, TypeOK, ClientsInv, CleanInv, PhaseInv, Holding, Free, QueryNotSent, Caught, Goto
<1>4. ASSUME NEW d \in Calls PROVE PhaseInv(d)'
  BY <1>1
  DEF IInv, TypeOK, ClientsInv, CleanInv, PhaseInv, Holding, Prefix, Free, QueryNotSent, Caught, Goto
<1>5. ASSUME NEW d \in Calls PROVE OutcomeInv(d)'
  <2>1. Rows(d)' = Rows(d) /\ ~(Rows(d) \cap table = {} /\ Rows(d) \subseteq table)
    BY RowsFacts
  <2>2. QED
    BY <2>1 DEF IInv, TypeOK, PhaseInv, OutcomeInv, QueryNotSent, Caught, Goto
<1>6. QED
  BY <1>1, <1>2, <1>3, <1>4, <1>5 DEF IInv

(* COMMIT makes the whole transaction permanent, and it held all rows.     *)
LEMMA CommitInv == ASSUME IInv, NEW c \in Calls, Commit(c) PROVE IInv'
<1> USE DatabaseAssumption
<1>1. TypeOK'
  BY RowsFacts DEF IInv, TypeOK, ClientsInv, Holding, Commit, EndTransaction, Goto
<1>2. ClientsInv'
  BY DEF IInv, TypeOK, ClientsInv, Holding, Free, Commit, EndTransaction, Goto
<1>3. CleanInv'
  BY DEF IInv, TypeOK, ClientsInv, CleanInv, PhaseInv, Holding, Free, Commit, EndTransaction, Goto
<1>4. ASSUME NEW d \in Calls PROVE PhaseInv(d)'
  BY <1>1
  DEF IInv, TypeOK, ClientsInv, CleanInv, PhaseInv, Holding, Prefix, Free, Commit, EndTransaction, Goto
<1>5. ASSUME NEW d \in Calls PROVE OutcomeInv(d)'
  <2>1. table' = table \cup Rows(c)
    BY CommitWrites
  <2>2. CASE d = c
    BY <2>1, <2>2, RowsFacts DEF IInv, TypeOK, PhaseInv, OutcomeInv, Commit, EndTransaction, Goto
  <2>3. CASE d # c
    <3>1. /\ Rows(d) \cap table' = Rows(d) \cap table
          /\ Rows(d) \subseteq table' <=> Rows(d) \subseteq table
      BY <2>1, <2>3, OthersUntouched
    <3>2. Rows(d)' = Rows(d) /\ ~(Rows(d) \cap table = {} /\ Rows(d) \subseteq table)
      BY RowsFacts
    <3>3. QED
      BY <2>3, <3>1, <3>2 DEF IInv, TypeOK, PhaseInv, OutcomeInv, Commit, EndTransaction, Goto
  <2>4. QED
    BY <2>2, <2>3
<1>6. QED
  BY <1>1, <1>2, <1>3, <1>4, <1>5 DEF IInv

(* The same when the acknowledgement is lost; CleanInv for the broken connection.*)
LEMMA CommitUnacknowledgedInv == ASSUME IInv, NEW c \in Calls, CommitUnacknowledged(c) PROVE IInv'
<1> USE DatabaseAssumption
<1>1. TypeOK'
  BY RowsFacts
  DEF IInv, TypeOK, ClientsInv, Holding, CommitUnacknowledged, EndTransaction, Caught, Goto
<1>2. ClientsInv'
  BY DEF IInv, TypeOK, ClientsInv, Holding, Free, CommitUnacknowledged, EndTransaction, Caught, Goto
<1>3. CleanInv'
  BY DEF IInv, TypeOK, ClientsInv, CleanInv, PhaseInv, Holding, Free, CommitUnacknowledged,
     EndTransaction, Caught, Goto
<1>4. ASSUME NEW d \in Calls PROVE PhaseInv(d)'
  BY <1>1
  DEF IInv, TypeOK, ClientsInv, CleanInv, PhaseInv, Holding, Prefix, Free, CommitUnacknowledged, EndTransaction, Caught, Goto
<1>5. ASSUME NEW d \in Calls PROVE OutcomeInv(d)'
  <2>1. table' = table \cup Rows(c)
    BY CommitWrites
  <2>2. CASE d = c
    BY <2>1, <2>2, RowsFacts
    DEF IInv, TypeOK, PhaseInv, OutcomeInv, CommitUnacknowledged, EndTransaction, Caught, Goto
  <2>3. CASE d # c
    <3>1. /\ Rows(d) \cap table' = Rows(d) \cap table
          /\ Rows(d) \subseteq table' <=> Rows(d) \subseteq table
      BY <2>1, <2>3, OthersUntouched
    <3>2. Rows(d)' = Rows(d) /\ ~(Rows(d) \cap table = {} /\ Rows(d) \subseteq table)
      BY RowsFacts
    <3>3. QED
      BY <2>3, <3>1, <3>2
      DEF IInv, TypeOK, PhaseInv, OutcomeInv, CommitUnacknowledged, EndTransaction, Caught, Goto
  <2>4. QED
    BY <2>2, <2>3
<1>6. QED
  BY <1>1, <1>2, <1>3, <1>4, <1>5 DEF IInv

(* A query on a broken connection leads to ROLLBACK as well.               *)
LEMMA QueryRejectedInv == ASSUME IInv, NEW c \in Calls, QueryRejected(c) PROVE IInv'
<1> USE DatabaseAssumption
<1>1. TypeOK'
  BY RowsFacts DEF IInv, TypeOK, QueryRejected, Caught, Goto
<1>2. ClientsInv'
  BY DEF IInv, TypeOK, ClientsInv, Holding, Free, QueryRejected, Caught, Goto
<1>3. CleanInv'
  BY DEF IInv, TypeOK, ClientsInv, CleanInv, PhaseInv, Holding, Free, QueryRejected, Caught, Goto
<1>4. ASSUME NEW d \in Calls PROVE PhaseInv(d)'
  BY <1>1
  DEF IInv, TypeOK, ClientsInv, CleanInv, PhaseInv, Holding, Prefix, Free, QueryRejected, Caught, Goto
<1>5. ASSUME NEW d \in Calls PROVE OutcomeInv(d)'
  <2>1. Rows(d)' = Rows(d) /\ ~(Rows(d) \cap table = {} /\ Rows(d) \subseteq table)
    BY RowsFacts
  <2>2. QED
    BY <2>1 DEF IInv, TypeOK, PhaseInv, OutcomeInv, QueryRejected, Caught, Goto
<1>6. QED
  BY <1>1, <1>2, <1>3, <1>4, <1>5 DEF IInv

(* ROLLBACK leaves the client clean, as a broken connection has done already.*)
LEMMA RollbackInv == ASSUME IInv, NEW c \in Calls, Rollback(c) PROVE IInv'
<1> USE DatabaseAssumption
<1>1. TypeOK'
  BY RowsFacts DEF IInv, TypeOK, Rollback, EndTransaction, Goto
<1>2. ClientsInv'
  BY DEF IInv, TypeOK, ClientsInv, Holding, Free, Rollback, EndTransaction, Goto
<1>3. CleanInv'
  BY DEF IInv, TypeOK, ClientsInv, CleanInv, PhaseInv, Holding, Free, Rollback, EndTransaction, Goto
<1>4. ASSUME NEW d \in Calls PROVE PhaseInv(d)'
  BY <1>1
  DEF IInv, TypeOK, ClientsInv, CleanInv, PhaseInv, Holding, Prefix, Free, Rollback, EndTransaction, Goto
<1>5. ASSUME NEW d \in Calls PROVE OutcomeInv(d)'
  <2>1. Rows(d)' = Rows(d) /\ ~(Rows(d) \cap table = {} /\ Rows(d) \subseteq table)
    BY RowsFacts
  <2>2. QED
    BY <2>1 DEF IInv, TypeOK, PhaseInv, OutcomeInv, Rollback, EndTransaction, Goto
<1>6. QED
  BY <1>1, <1>2, <1>3, <1>4, <1>5 DEF IInv

(* What is released is clean, and finish says what is committed.           *)
LEMMA ReleaseInv == ASSUME IInv, NEW c \in Calls, Release(c) PROVE IInv'
<1> USE DatabaseAssumption
<1>1. TypeOK'
  BY RowsFacts DEF IInv, TypeOK, PhaseInv, Release, Settle, Goto
<1>2. ClientsInv'
  BY DEF IInv, TypeOK, ClientsInv, Holding, Free, Release, Settle, Goto
<1>3. CleanInv'
  BY DEF IInv, TypeOK, ClientsInv, CleanInv, PhaseInv, Holding, Free, Release, Settle, Goto
<1>4. ASSUME NEW d \in Calls PROVE PhaseInv(d)'
  BY <1>1
  DEF IInv, TypeOK, ClientsInv, CleanInv, PhaseInv, Holding, Prefix, Free, Release, Settle, Goto
<1>5. ASSUME NEW d \in Calls PROVE OutcomeInv(d)'
  <2>1. Rows(d)' = Rows(d) /\ ~(Rows(d) \cap table = {} /\ Rows(d) \subseteq table)
    BY RowsFacts
  <2>2. QED
    BY <2>1 DEF IInv, TypeOK, PhaseInv, OutcomeInv, Release, Settle, Goto
<1>6. QED
  BY <1>1, <1>2, <1>3, <1>4, <1>5 DEF IInv

(* The one query of simpleQuery commits by itself.                         *)
LEMMA SimpleQueryInv == ASSUME IInv, NEW c \in Calls, SimpleQuery(c) PROVE IInv'
<1> USE DatabaseAssumption
<1>1. TypeOK'
  BY RowsFacts DEF IInv, TypeOK, SimpleQuery, Settle, Goto
<1>2. ClientsInv'
  BY DEF IInv, TypeOK, ClientsInv, Holding, Free, SimpleQuery, Settle, Goto
<1>3. CleanInv'
  BY DEF IInv, TypeOK, ClientsInv, CleanInv, PhaseInv, Holding, Free, SimpleQuery, Settle, Goto
<1>4. ASSUME NEW d \in Calls PROVE PhaseInv(d)'
  BY <1>1
  DEF IInv, TypeOK, ClientsInv, CleanInv, PhaseInv, Holding, Prefix, Free, SimpleQuery, Settle, Goto
<1>5. ASSUME NEW d \in Calls PROVE OutcomeInv(d)'
  <2>1. table' = table \cup Rows(c)
    BY SimpleQueryWrites
  <2>2. CASE d = c
    BY <2>1, <2>2, RowsFacts DEF IInv, TypeOK, PhaseInv, OutcomeInv, SimpleQuery, Settle, Goto
  <2>3. CASE d # c
    <3>1. /\ Rows(d) \cap table' = Rows(d) \cap table
          /\ Rows(d) \subseteq table' <=> Rows(d) \subseteq table
      BY <2>1, <2>3, OthersUntouched
    <3>2. Rows(d)' = Rows(d) /\ ~(Rows(d) \cap table = {} /\ Rows(d) \subseteq table)
      BY RowsFacts
    <3>3. QED
      BY <2>3, <3>1, <3>2 DEF IInv, TypeOK, PhaseInv, OutcomeInv, SimpleQuery, Settle, Goto
  <2>4. QED
    BY <2>2, <2>3
<1>6. QED
  BY <1>1, <1>2, <1>3, <1>4, <1>5 DEF IInv

(* The same when its answer is lost.                                       *)
LEMMA SimpleQueryUnacknowledgedInv == ASSUME IInv, NEW c \in Calls, SimpleQueryUnacknowledged(c) PROVE IInv'
<1> USE DatabaseAssumption
<1>1. TypeOK'
  BY RowsFacts DEF IInv, TypeOK, SimpleQueryUnacknowledged, Settle, Goto
<1>2. ClientsInv'
  BY DEF IInv, TypeOK, ClientsInv, Holding, Free, SimpleQueryUnacknowledged, Settle, Goto
<1>3. CleanInv'
  BY DEF IInv, TypeOK, ClientsInv, CleanInv, PhaseInv, Holding, Free, SimpleQueryUnacknowledged,
     Settle, Goto
<1>4. ASSUME NEW d \in Calls PROVE PhaseInv(d)'
  BY <1>1
  DEF IInv, TypeOK, ClientsInv, CleanInv, PhaseInv, Holding, Prefix, Free, SimpleQueryUnacknowledged, Settle, Goto
<1>5. ASSUME NEW d \in Calls PROVE OutcomeInv(d)'
  <2>1. table' = table \cup Rows(c)
    BY SimpleQueryWrites
  <2>2. CASE d = c
    BY <2>1, <2>2, RowsFacts
    DEF IInv, TypeOK, PhaseInv, OutcomeInv, SimpleQueryUnacknowledged, Settle, Goto
  <2>3. CASE d # c
    <3>1. /\ Rows(d) \cap table' = Rows(d) \cap table
          /\ Rows(d) \subseteq table' <=> Rows(d) \subseteq table
      BY <2>1, <2>3, OthersUntouched
    <3>2. Rows(d)' = Rows(d) /\ ~(Rows(d) \cap table = {} /\ Rows(d) \subseteq table)
      BY RowsFacts
    <3>3. QED
      BY <2>3, <3>1, <3>2
      DEF IInv, TypeOK, PhaseInv, OutcomeInv, SimpleQueryUnacknowledged, Settle, Goto
  <2>4. QED
    BY <2>2, <2>3
<1>6. QED
  BY <1>1, <1>2, <1>3, <1>4, <1>5 DEF IInv

(* A simpleQuery that fails has written nothing.                           *)
LEMMA SimpleQueryFailsInv == ASSUME IInv, NEW c \in Calls, SimpleQueryFails(c) PROVE IInv'
<1> USE DatabaseAssumption
<1>1. TypeOK'
  BY RowsFacts DEF IInv, TypeOK, SimpleQueryFails, Settle, Goto
<1>2. ClientsInv'
  BY DEF IInv, TypeOK, ClientsInv, Holding, Free, SimpleQueryFails, Settle, Goto
<1>3. CleanInv'
  BY DEF IInv, TypeOK, ClientsInv, CleanInv, PhaseInv, Holding, Free, SimpleQueryFails, Settle, Goto
<1>4. ASSUME NEW d \in Calls PROVE PhaseInv(d)'
  BY <1>1
  DEF IInv, TypeOK, ClientsInv, CleanInv, PhaseInv, Holding, Prefix, Free, SimpleQueryFails, Settle, Goto
<1>5. ASSUME NEW d \in Calls PROVE OutcomeInv(d)'
  <2>1. Rows(d)' = Rows(d) /\ ~(Rows(d) \cap table = {} /\ Rows(d) \subseteq table)
    BY RowsFacts
  <2>2. QED
    BY <2>1 DEF IInv, TypeOK, PhaseInv, OutcomeInv, SimpleQueryFails, Settle, Goto
<1>6. QED
  BY <1>1, <1>2, <1>3, <1>4, <1>5 DEF IInv

(* A broken connection holds no transaction, and no phase relied on it.    *)
LEMMA DisconnectInv == ASSUME IInv, NEW k \in Clients, Disconnect(k) PROVE IInv'
<1> USE DatabaseAssumption
<1>1. TypeOK'
  BY RowsFacts DEF IInv, TypeOK, Disconnect, EndTransaction
<1>2. ClientsInv'
  BY DEF IInv, TypeOK, ClientsInv, Holding, Free, Disconnect, EndTransaction
<1>3. CleanInv'
  BY DEF IInv, TypeOK, ClientsInv, CleanInv, PhaseInv, Holding, Free, Disconnect, EndTransaction
<1>4. ASSUME NEW d \in Calls PROVE PhaseInv(d)'
  BY <1>1
  DEF IInv, TypeOK, ClientsInv, CleanInv, PhaseInv, Holding, Prefix, Free, Disconnect, EndTransaction
<1>5. ASSUME NEW d \in Calls PROVE OutcomeInv(d)'
  <2>1. Rows(d)' = Rows(d) /\ ~(Rows(d) \cap table = {} /\ Rows(d) \subseteq table)
    BY RowsFacts
  <2>2. QED
    BY <2>1 DEF IInv, TypeOK, PhaseInv, OutcomeInv, Disconnect, EndTransaction
<1>6. QED
  BY <1>1, <1>2, <1>3, <1>4, <1>5 DEF IInv

(* After a crash no call holds a client and all connections are gone.      *)
LEMMA CrashInv == ASSUME IInv, Crash PROVE IInv'
<1> USE DatabaseAssumption
<1>1. TypeOK'
  BY RowsFacts DEF IInv, TypeOK, Crash, InProgress
<1>2. ClientsInv'
  BY DEF IInv, TypeOK, ClientsInv, Holding, Free, Crash, InProgress
<1>3. CleanInv'
  BY DEF IInv, TypeOK, ClientsInv, CleanInv, PhaseInv, Holding, Free, Crash, InProgress
<1>4. ASSUME NEW d \in Calls PROVE PhaseInv(d)'
  BY <1>1 DEF IInv, TypeOK, ClientsInv, CleanInv, PhaseInv, Holding, Prefix, Free, Crash, InProgress
<1>5. ASSUME NEW d \in Calls PROVE OutcomeInv(d)'
  <2>1. Rows(d)' = Rows(d) /\ ~(Rows(d) \cap table = {} /\ Rows(d) \subseteq table)
    BY RowsFacts
  <2>2. QED
    BY <2>1 DEF IInv, TypeOK, PhaseInv, OutcomeInv, Crash, InProgress
<1>6. QED
  BY <1>1, <1>2, <1>3, <1>4, <1>5 DEF IInv
-----------------------------------------------------------------------------
(* IInv is inductive: every step of the specification preserves it.        *)
THEOREM Inductive == IInv /\ [Next]_vars => IInv'
<1> SUFFICES ASSUME IInv, [Next]_vars PROVE IInv'
  OBVIOUS
<1>1. CASE UNCHANGED vars
  BY <1>1 DEF IInv, TypeOK, ClientsInv, CleanInv, PhaseInv, OutcomeInv, Free, Prefix, Rows, vars
<1>2. ASSUME NEW c \in Calls, Call(c) \/ Step(c) PROVE IInv'
  BY <1>2, CallInv, ConnectedInv, NotAvailableInv, BeginInv, NextQueryInv, QueryFailsInv,
     QueryNotSentInv, CommitInv, CommitUnacknowledgedInv, QueryRejectedInv, RollbackInv,
     ReleaseInv, SimpleQueryInv, SimpleQueryUnacknowledgedInv, SimpleQueryFailsInv
     DEF Step
<1>3. ASSUME NEW k \in Clients, Disconnect(k) PROVE IInv'
  BY <1>3, DisconnectInv
<1>4. CASE Crash
  BY <1>4, CrashInv
<1>5. CASE Terminating
  BY <1>1, <1>5 DEF Terminating
<1>6. QED
  BY <1>1, <1>2, <1>3, <1>4, <1>5 DEF Next

(* The invariant holds in every behaviour of classes/database.js.          *)
THEOREM Invariant == Spec => []IInv
BY InitInv, Inductive, PTL DEF Spec

(* The types of the state, for any number of calls and clients.            *)
THEOREM TypeCorrect == Spec => []TypeOK
<1>1. IInv => TypeOK
  BY DEF IInv
<1>2. QED
  BY <1>1, Invariant, PTL

(* However a call ends (ROLLBACK refused included), its client goes back   *)
(* to the pool in no transaction, and no client serves two calls.          *)
THEOREM ReleasedClean == Spec => []ReleasedClientsAreClean
<1>1. IInv => ReleasedClientsAreClean
  BY DEF IInv, ClientsInv, CleanInv, ReleasedClientsAreClean
<1>2. QED
  BY <1>1, Invariant, PTL

(* complexQuery is atomic: none or all of the rows of a call are visible.  *)
THEOREM Atomicity == Spec => []AllOrNothing
<1>1. IInv => AllOrNothing
  BY DEF IInv, OutcomeInv, AllOrNothing
<1>2. QED
  BY <1>1, Invariant, PTL

(* The promise complexQuery returns tells the truth about what it stored,  *)
(* with the lost acknowledgement of a COMMIT as the only exception.        *)
THEOREM Truthfulness == Spec => []AnswersAreTrue
<1>1. IInv => AnswersAreTrue
  BY DEF IInv, OutcomeInv, AnswersAreTrue
<1>2. QED
  BY <1>1, Invariant, PTL
-----------------------------------------------------------------------------
(* Refinement: the calls are atomic (module AtomicCalls).                  *)

(* Committing the rows of a call applies that call and no other.           *)
LEMMA AppliedByWriting ==
    ASSUME NEW c \in Calls, table' = table \cup Rows(c)
    PROVE  Applied' = Applied \cup {c}
<1>1. ASSUME NEW d \in Calls PROVE Rows(d) \subseteq table' <=> d \in Applied \cup {c}
  BY OthersUntouched DEF Applied
<1>2. QED
  BY <1>1, RowsFacts DEF Applied

(* As long as nothing is committed, nothing is applied.                    *)
LEMMA AppliedUnchanged == UNCHANGED table => UNCHANGED Applied
BY DEF Applied, Rows

(* The step that commits is the one at which the abstract call happens:    *)
(* before it, its call is pending and not applied.                         *)
LEMMA PendingBefore ==
    ASSUME IInv, NEW c \in Calls,
           pc[c] \in {"connect", "begin", "query", "commit", "single"}
    PROVE  answer[c] = "pending" /\ c \notin Applied
BY RowsFacts DEF IInv, OutcomeInv, Applied

(* Every step of a call is the abstract effect, the abstract answer, both, *)
(* or nothing that the caller can see.                                     *)
LEMMA StepRefines ==
    ASSUME IInv, NEW c \in Calls, Call(c) \/ Step(c)
    PROVE  [Atomic!Next]_<<Applied, answer>>
<1>1. answer = [answer EXCEPT ![c] = answer[c]]
  BY DEF IInv, TypeOK
<1>2. CASE Commit(c) \/ CommitUnacknowledged(c)
  <2>1. Applied' = Applied \cup {c}
    BY <1>2, CommitWrites, AppliedByWriting
  <2>2. answer' = [answer EXCEPT ![c] = "pending"] /\ answer[c] = "pending" /\ c \notin Applied
    BY <1>1, <1>2, PendingBefore DEF Commit, CommitUnacknowledged
  <2>3. QED
    BY <2>1, <2>2 DEF Atomic!Next, Atomic!Apply
<1>3. CASE SimpleQuery(c) \/ SimpleQueryUnacknowledged(c)
  <2>1. Applied' = Applied \cup {c}
    BY <1>3, SimpleQueryWrites, AppliedByWriting
  <2>2. /\ \E a \in {"pending", "resolved", "rejected"} : answer' = [answer EXCEPT ![c] = a]
        /\ answer[c] = "pending" /\ c \notin Applied
    BY <1>3, PendingBefore DEF SimpleQuery, SimpleQueryUnacknowledged, Settle
  <2>3. QED
    BY <2>1, <2>2 DEF Atomic!Next, Atomic!Apply
<1>4. CASE NotAvailable(c) \/ SimpleQueryFails(c)
  <2>1. UNCHANGED Applied
    BY <1>4, AppliedUnchanged DEF NotAvailable, SimpleQueryFails
  <2>2. answer' = [answer EXCEPT ![c] = "rejected"] /\ answer[c] = "pending"
    BY <1>4, PendingBefore DEF NotAvailable, SimpleQueryFails, Settle
  <2>3. QED
    BY <2>1, <2>2 DEF Atomic!Next, Atomic!Reject
<1>5. CASE Release(c)
  <2>1. UNCHANGED Applied
    BY <1>5, AppliedUnchanged DEF Release
  <2>2. answer' = [answer EXCEPT ![c] = finish[c]] /\ answer[c] = "pending"
    BY <1>5 DEF Release, Settle, IInv, OutcomeInv
  <2>3. CASE finish[c] = "resolved"
    <3>1. c \in Applied
      BY <1>5, <2>3 DEF Release, IInv, OutcomeInv, Applied
    <3>2. QED
      BY <2>1, <2>2, <2>3, <3>1 DEF Atomic!Next, Atomic!Resolve
  <2>4. CASE finish[c] = "rejected"
    BY <2>1, <2>2, <2>4 DEF Atomic!Next, Atomic!Reject
  <2>5. QED
    BY <1>5, <2>3, <2>4 DEF Release, IInv, PhaseInv
<1>6. CASE NextQuery(c)
  <2>1. UNCHANGED <<table, answer>>
    BY <1>6 DEF NextQuery, IInv, PhaseInv
  <2>2. QED
    BY <2>1, AppliedUnchanged
<1>7. CASE \/ Call(c) \/ Connected(c) \/ Begin(c) \/ QueryFails(c)
           \/ QueryNotSent(c) \/ QueryRejected(c) \/ Rollback(c)
  <2>1. UNCHANGED <<table, answer>>
    BY <1>7 DEF Call, Connected, Begin, QueryFails, QueryNotSent, QueryRejected, Rollback
  <2>2. QED
    BY <2>1, AppliedUnchanged
<1>8. QED
  BY <1>2, <1>3, <1>4, <1>5, <1>6, <1>7 DEF Step

(* A crash takes the calls in progress, which are those without an answer  *)
(* among the calls that have been made.                                    *)
LEMMA CrashRefines ==
    ASSUME IInv, Crash
    PROVE  Atomic!Crash(InProgress) /\ InProgress \in SUBSET Calls
<1>1. UNCHANGED Applied
  BY AppliedUnchanged DEF Crash
<1>2. \A c \in InProgress : answer[c] = "pending"
  BY DEF InProgress, IInv, OutcomeInv
<1>3. QED
  BY <1>1, <1>2 DEF Crash, InProgress, Atomic!Crash

(* complexQuery and simpleQuery implement the atomic calls that            *)
(* Pipeline.Store relies on.                                               *)
THEOREM Refinement == Spec => RefinesAtomicCalls
<1>1. Init => Atomic!Init
  BY RowsFacts DEF Init, Applied, Atomic!Init
<1>2. IInv /\ [Next]_vars => [Atomic!Next]_<<Applied, answer>>
  <2> SUFFICES ASSUME IInv, [Next]_vars PROVE [Atomic!Next]_<<Applied, answer>>
    OBVIOUS
  <2>1. ASSUME UNCHANGED <<table, answer>> PROVE UNCHANGED <<Applied, answer>>
    BY <2>1, AppliedUnchanged
  <2>2. CASE Crash
    BY <2>2, CrashRefines DEF Atomic!Next
  <2>3. ASSUME NEW k \in Clients, Disconnect(k) PROVE UNCHANGED <<table, answer>>
    BY <2>3 DEF Disconnect
  <2>4. QED
    BY <2>1, <2>2, <2>3, StepRefines DEF Next, Terminating, vars
<1>3. QED
  BY <1>1, <1>2, Invariant, PTL DEF Spec, RefinesAtomicCalls, Atomic!Spec
=============================================================================
