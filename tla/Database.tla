------------------------------ MODULE Database -------------------------------
(***************************************************************************)
(* classes/database.js: calls of simpleQuery and complexQuery that share a *)
(* pool of clients, over connections that can break at any moment.  The    *)
(* pool (pg-pool) and the server's side of a connection are external: a    *)
(* slot of the pool whose connection broke is refilled on demand, and a    *)
(* server that loses a connection rolls its transaction back.              *)
(*                                                                         *)
(* Statement i of call c inserts the row <<c, i>>; what the statements     *)
(* mean is the business of module Marketplace.                             *)
(***************************************************************************)
EXTENDS Naturals

CONSTANTS
    Calls,
    Clients,    \* the slots of the pool
    Length,     \* Length[c]: the number of queries of call c
    None        \* no client

ASSUME DatabaseAssumption ==
    /\ Length \in [Calls -> Nat \ {0}]
    /\ None \notin Clients

VARIABLES
    pc,          \* per call: the promise it is waiting for
    client,      \* per call: the client it holds
    next,        \* per call: the query nextQueryHandler is at
    finish,      \* per call: what finish will do
    answer,      \* per call: what became of the promise returned
    live,        \* per client: its connection works
    tx,          \* per client: its transaction in the server
    uncommitted, \* per client: the rows of that transaction
    table,       \* the committed rows
    unacked,     \* calls whose COMMIT took effect and was not acknowledged
    unhandled    \* calls whose chain of promises was rejected with nobody listening

vars == <<pc, client, next, finish, answer, live, tx, uncommitted, table, unacked, unhandled>>

Rows(c) == {<<c, i>> : i \in 1..Length[c]}

Init ==
    /\ pc = [c \in Calls |-> "start"]
    /\ client = [c \in Calls |-> None]
    /\ next = [c \in Calls |-> 1]
    /\ finish = [c \in Calls |-> "none"]
    /\ answer = [c \in Calls |-> "pending"]
    /\ live = [k \in Clients |-> FALSE]
    /\ tx = [k \in Clients |-> "none"]
    /\ uncommitted = [k \in Clients |-> {}]
    /\ table = {}
    /\ unacked = {}
    /\ unhandled = {}
-----------------------------------------------------------------------------
Free(k) == \A c \in Calls : client[c] # k

Goto(c, label) == pc' = [pc EXCEPT ![c] = label]

(* A promise of the call is rejected: catch notes it and sends ROLLBACK. *)
CaughtWithoutFinish(c) == Goto(c, "rollback") /\ UNCHANGED finish    \* mutant: finish not set
Caught(c) ==
    /\ finish' = [finish EXCEPT ![c] = "rejected"]
    /\ Goto(c, "rollback")

(* The call is over: the client goes back and the caller hears. *)
Settle(c, a) ==
    /\ client' = [client EXCEPT ![c] = None]
    /\ answer' = [answer EXCEPT ![c] = a]
    /\ Goto(c, "done")

(* Server side: end the transaction of client k, with its rows or without. *)
EndTransaction(k) ==
    /\ tx' = [tx EXCEPT ![k] = "none"]
    /\ uncommitted' = [uncommitted EXCEPT ![k] = {}]
-----------------------------------------------------------------------------
(* simpleQuery, complexQuery: the pool is asked for a client. *)
Call(c) ==
    /\ pc[c] = "start"
    /\ Goto(c, "connect")
    /\ UNCHANGED <<client, next, finish, answer, live, tx, uncommitted, table, unacked, unhandled>>

(* The pool hands out a client that works, or connects a new one. *)
Connected(c) ==
    /\ pc[c] = "connect"
    /\ \E k \in Clients :
         /\ Free(k)
         /\ live[k] \/ \A j \in Clients : Free(j) => ~live[j]
         /\ client' = [client EXCEPT ![c] = k]
         /\ live' = [live EXCEPT ![k] = TRUE]
    /\ Goto(c, IF Length[c] = 1 THEN "single" ELSE "begin")
    /\ UNCHANGED <<next, finish, answer, tx, uncommitted, table, unacked, unhandled>>

(* DBClientNotAvailableError: a new connection was needed and failed. *)
NotAvailable(c) ==
    /\ pc[c] = "connect"
    /\ \E k \in Clients : Free(k)
    /\ \A k \in Clients : Free(k) => ~live[k]
    /\ Settle(c, "rejected")
    /\ UNCHANGED <<next, finish, live, tx, uncommitted, table, unacked, unhandled>>

BeginForgotten(c) ==    \* mutant: no BEGIN
    /\ pc[c] = "begin" /\ live[client[c]]
    /\ Goto(c, "query")
    /\ UNCHANGED <<client, next, finish, answer, live, tx, uncommitted, table, unacked, unhandled>>

Begin(c) ==
    /\ pc[c] = "begin" /\ live[client[c]]
    /\ tx' = [tx EXCEPT ![client[c]] = "open"]
    /\ Goto(c, "query")
    /\ UNCHANGED <<client, next, finish, answer, live, uncommitted, table, unacked, unhandled>>

(* nextQueryHandler: one query, then the next one or COMMIT. *)
NextQuery(c) ==
    LET k == client[c] IN
    /\ pc[c] = "query" /\ live[k]
    /\ IF tx[k] = "none"
       THEN table' = table \cup {<<c, next[c]>>} /\ UNCHANGED uncommitted
       ELSE uncommitted' = [uncommitted EXCEPT ![k] = @ \cup {<<c, next[c]>>}] /\ UNCHANGED table
    /\ IF next[c] = Length[c] THEN Goto(c, "commit") ELSE UNCHANGED pc
    /\ next' = [next EXCEPT ![c] = @ + 1]
    /\ UNCHANGED <<client, finish, answer, live, tx, unacked, unhandled>>

(* The server refuses the query; its transaction can only be rolled back.  *)
QueryFails(c) ==
    /\ pc[c] = "query" /\ live[client[c]]
    /\ tx' = [tx EXCEPT ![client[c]] = "failed"]
    /\ Caught(c)
    /\ UNCHANGED <<client, next, answer, live, uncommitted, table, unacked, unhandled>>

(* QueryConstructionError, BackreferenceError: the query is never sent. *)
QueryNotSent(c) ==
    /\ pc[c] = "query"
    /\ Caught(c)
    /\ UNCHANGED <<client, next, answer, live, tx, uncommitted, table, unacked, unhandled>>

CommitForgotten(c) ==    \* mutant: resolved after the last query, without COMMIT
    /\ pc[c] = "commit" /\ live[client[c]]
    /\ finish' = [finish EXCEPT ![c] = "resolved"]
    /\ Goto(c, "finally")
    /\ UNCHANGED <<client, next, answer, live, tx, uncommitted, table, unacked, unhandled>>

Commit(c) ==
    /\ pc[c] = "commit" /\ live[client[c]]
    /\ table' = table \cup (IF tx[client[c]] = "open" THEN uncommitted[client[c]] ELSE {})
    /\ EndTransaction(client[c])
    /\ finish' = [finish EXCEPT ![c] = "resolved"]
    /\ Goto(c, "finally")
    /\ UNCHANGED <<client, next, answer, live, unacked, unhandled>>

(* COMMIT takes effect and the connection breaks before the answer. *)
CommitUnacknowledged(c) ==
    /\ pc[c] = "commit" /\ live[client[c]]
    /\ table' = table \cup (IF tx[client[c]] = "open" THEN uncommitted[client[c]] ELSE {})
    /\ EndTransaction(client[c])
    /\ live' = [live EXCEPT ![client[c]] = FALSE]
    /\ unacked' = unacked \cup {c}
    /\ Caught(c)
    /\ UNCHANGED <<client, next, answer, unhandled>>

(* A query on a broken connection is rejected. *)
QueryRejected(c) ==
    /\ pc[c] \in {"begin", "query", "commit"} /\ ~live[client[c]]
    /\ Caught(c)
    /\ UNCHANGED <<client, next, answer, live, tx, uncommitted, table, unacked, unhandled>>

(* catch returns the promise of ROLLBACK.  If that is rejected too, so is  *)
(* the whole chain, after finally: nothing handles it.                     *)
RollbackForgotten(c) ==    \* mutant: no ROLLBACK
    /\ pc[c] = "rollback"
    /\ Goto(c, "finally")
    /\ UNCHANGED <<client, next, finish, answer, live, tx, uncommitted, table, unacked, unhandled>>

Rollback(c) ==
    /\ pc[c] = "rollback"
    /\ IF live[client[c]]
       THEN EndTransaction(client[c]) /\ UNCHANGED unhandled
       ELSE unhandled' = unhandled \cup {c} /\ UNCHANGED <<tx, uncommitted>>
    /\ Goto(c, "finally")
    /\ UNCHANGED <<client, next, finish, answer, live, table, unacked>>

(* finally: client.release(), finish(). *)
ReleaseForgotten(c) ==    \* mutant: no client.release()
    /\ pc[c] = "finally"
    /\ answer' = [answer EXCEPT ![c] = finish[c]]
    /\ Goto(c, "done")
    /\ UNCHANGED <<client, next, finish, live, tx, uncommitted, table, unacked, unhandled>>

Release(c) ==
    /\ pc[c] = "finally"
    /\ Settle(c, finish[c])
    /\ UNCHANGED <<next, finish, live, tx, uncommitted, table, unacked, unhandled>>

(* simpleQuery: pool.query runs the one query and releases the client. *)
SimpleQuery(c) ==
    LET k == client[c] IN
    /\ pc[c] = "single" /\ live[k]
    /\ IF tx[k] = "none"
       THEN table' = table \cup {<<c, 1>>} /\ UNCHANGED uncommitted
       ELSE uncommitted' = [uncommitted EXCEPT ![k] = @ \cup {<<c, 1>>}] /\ UNCHANGED table
    /\ Settle(c, "resolved")
    /\ UNCHANGED <<next, finish, live, tx, unacked, unhandled>>

SimpleQueryUnacknowledged(c) ==
    /\ pc[c] = "single" /\ live[client[c]] /\ tx[client[c]] = "none"
    /\ table' = table \cup {<<c, 1>>}
    /\ live' = [live EXCEPT ![client[c]] = FALSE]
    /\ unacked' = unacked \cup {c}
    /\ Settle(c, "rejected")
    /\ UNCHANGED <<next, finish, tx, uncommitted, unhandled>>

SimpleQueryFails(c) ==
    /\ pc[c] = "single"
    /\ Settle(c, "rejected")
    /\ UNCHANGED <<next, finish, live, tx, uncommitted, table, unacked, unhandled>>

(* A connection breaks; the server drops what it had not committed. *)
Disconnect(k) ==
    /\ live[k]
    /\ live' = [live EXCEPT ![k] = FALSE]
    /\ EndTransaction(k)
    /\ UNCHANGED <<pc, client, next, finish, answer, table, unacked, unhandled>>

(* The process dies (among other reasons, of an unhandled rejection) and   *)
(* takes its pool and the calls in progress with it.                       *)
InProgress == {c \in Calls : pc[c] \notin {"start", "done"}}

Crash ==
    /\ InProgress # {}
    /\ pc' = [c \in Calls |-> IF c \in InProgress THEN "done" ELSE pc[c]]
    /\ answer' = [c \in Calls |-> IF c \in InProgress THEN "lost" ELSE answer[c]]
    /\ client' = [c \in Calls |-> None]
    /\ live' = [k \in Clients |-> FALSE]
    /\ tx' = [k \in Clients |-> "none"]
    /\ uncommitted' = [k \in Clients |-> {}]
    /\ UNCHANGED <<next, finish, table, unacked, unhandled>>

Step(c) ==
    \/ Connected(c) \/ NotAvailable(c) \/ Begin(c) \/ NextQuery(c) \/ QueryFails(c) \/ QueryNotSent(c)
    \/ Commit(c) \/ CommitUnacknowledged(c) \/ QueryRejected(c) \/ Rollback(c) \/ Release(c)
    \/ SimpleQuery(c) \/ SimpleQueryUnacknowledged(c) \/ SimpleQueryFails(c)

Terminating == (\A c \in Calls : pc[c] = "done") /\ UNCHANGED vars

Next ==
    \/ \E c \in Calls : Call(c) \/ Step(c)
    \/ \E k \in Clients : Disconnect(k)
    \/ Crash
    \/ Terminating

(* A query is answered or its connection breaks; a free slot of the pool   *)
(* goes to a call that waits.                                              *)
Spec == Init /\ [][Next]_vars /\ \A c \in Calls : WF_vars(Step(c))
-----------------------------------------------------------------------------
(* Properties *)

(* Every variable has its type. *)
TypeOK ==
    /\ pc \in [Calls -> {"start", "connect", "begin", "query", "commit", "rollback", "finally",
                         "single", "done"}]
    /\ client \in [Calls -> Clients \cup {None}]
    /\ next \in [Calls -> Nat \ {0}]
    /\ finish \in [Calls -> {"none", "resolved", "rejected"}]
    /\ answer \in [Calls -> {"pending", "resolved", "rejected", "lost"}]
    /\ live \in [Clients -> BOOLEAN]
    /\ tx \in [Clients -> {"none", "open", "failed"}]
    /\ uncommitted \in [Clients -> SUBSET (Calls \X Nat)]
    /\ table \subseteq Calls \X Nat
    /\ unacked \subseteq Calls /\ unhandled \subseteq Calls

(* A client that complexQuery has released is in no transaction: the next  *)
(* call to get it starts afresh, whatever became of ROLLBACK, and no       *)
(* client is in the hands of two calls.                                    *)
ReleasedClientsAreClean ==
    /\ \A k \in Clients : Free(k) => tx[k] = "none" /\ uncommitted[k] = {}
    /\ \A c, d \in Calls : client[c] = client[d] /\ client[c] # None => c = d

(* Either all rows of a call are committed or none is: queries that fail,  *)
(* connections that break and crashes included.                            *)
AllOrNothing == \A c \in Calls : table \cap Rows(c) \in {{}, Rows(c)}

(* A call that resolved is committed, and one that was rejected is not,    *)
(* but for the COMMIT whose acknowledgement was lost.                      *)
AnswersAreTrue ==
    \A c \in Calls :
        /\ answer[c] = "resolved" => Rows(c) \subseteq table
        /\ answer[c] = "rejected" /\ Rows(c) \cap table # {} => c \in unacked

(* The calls implement the abstract, atomic ones. *)
Applied == {c \in Calls : Rows(c) \subseteq table}
Atomic == INSTANCE AtomicCalls WITH applied <- Applied, answer <- answer
RefinesAtomicCalls == Atomic!Spec

(* A call is answered, or lost to a crash: complexQuery always comes to    *)
(* finally, and no call keeps its client.                                  *)
EveryCallAnswered == \A c \in Calls : pc[c] # "start" ~> answer[c] # "pending"
=============================================================================
