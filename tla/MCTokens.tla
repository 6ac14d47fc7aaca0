------------------------------ MODULE MCTokens ------------------------------
(* The owner of a1 changes its password and its email, to one that is free *)
(* and one that a2 has, and closes it.  Nobody logs in to a2, but there is *)
(* a forged token for it.                                                  *)
EXTENDS Tokens, TLC

CONSTANTS a1, a2, e1, e2, e3, p1, p2

MCAccounts ==
    (a1 :> [email |-> e1, password |-> p1, open |-> TRUE]) @@
    (a2 :> [email |-> e2, password |-> p2, open |-> TRUE])

Login(p) == [op |-> "login", email |-> e1, password |-> p]
Modify(p, column, value) == [op |-> "AA_TAP", password |-> p, change |-> [column |-> column, value |-> value]]

MCMenu ==
    {Login(p1), Login(p2), [op |-> "regenerate-token"], [op |-> "NA"], [op |-> "AA_TO"],
     Modify(p1, "password", p2), Modify(p1, "email", e2), Modify(p1, "email", e3),
     Modify(p2, "closed", Null), Modify(Null, "closed", Null)}

MCForeign ==
    {[kind |-> "tampered", user |-> a2, exp |-> 1]}
    \cup [kind : {"malformed", "unreadable"}, user : {a1}, exp : {1}]

Symmetry == Permutations(Sessions)
=============================================================================
