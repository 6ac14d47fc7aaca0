----------------------------- MODULE AtomicCalls -----------------------------
(***************************************************************************)
(* What Pipeline.Store relies on when it hands a list of queries to        *)
(* Database: the call takes effect as a whole, at one instant between the  *)
(* call and its answer, or not at all; it is answered once; and once it is *)
(* answered nothing of it takes effect any more.  An error leaves open     *)
(* whether the call took effect (its COMMIT may have been lost on the way  *)
(* back), success does not.  A crash of the process leaves a call without  *)
(* an answer.                                                              *)
(***************************************************************************)
CONSTANT Calls

VARIABLES applied, answer

Init == applied = {} /\ answer = [c \in Calls |-> "pending"]

(* The effect of the call, and its answer if that comes with it. *)
Apply(c) ==
    /\ answer[c] = "pending" /\ c \notin applied
    /\ applied' = applied \cup {c}
    /\ \E a \in {"pending", "resolved", "rejected"} : answer' = [answer EXCEPT ![c] = a]

Resolve(c) ==
    /\ answer[c] = "pending" /\ c \in applied
    /\ answer' = [answer EXCEPT ![c] = "resolved"]
    /\ UNCHANGED applied

Reject(c) ==
    /\ answer[c] = "pending"
    /\ answer' = [answer EXCEPT ![c] = "rejected"]
    /\ UNCHANGED applied

Crash(C) ==
    /\ \A c \in C : answer[c] = "pending"
    /\ answer' = [c \in Calls |-> IF c \in C THEN "lost" ELSE answer[c]]
    /\ UNCHANGED applied

Next == (\E c \in Calls : Apply(c) \/ Resolve(c) \/ Reject(c)) \/ (\E C \in SUBSET Calls : Crash(C))

Spec == Init /\ [][Next]_<<applied, answer>>
=============================================================================
