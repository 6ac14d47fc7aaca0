------------------------------ MODULE MCTrading ------------------------------
(* Two accounts that each offer a listing and each ask for the other's:    *)
(* closing both at once can deadlock in the database, over the rows of     *)
(* their conversations, while a third request waits for the pool.          *)
EXTENDS Marketplace, TLC

CONSTANTS a1, a2, l1, l2, d1, d2, e1, e2, p1

MCStore ==
    LET account(e) == [open |-> TRUE, email |-> e, password |-> p1,
                       columns |-> [c \in AccountColumns |-> Null]]
        listing(a, d) == [contributor |-> a, open |-> TRUE, receiver |-> Null, address |-> d,
                          columns |-> [c \in ListingColumns |-> Null]]
    IN <<"account", a1>> :> account(e1) @@ <<"account", a2>> :> account(e2)
       @@ <<"address", d1>> :> [owner |-> a1] @@ <<"address", d2>> :> [owner |-> a2]
       @@ <<"listing", l1>> :> listing(a1, d1) @@ <<"listing", l2>> :> listing(a2, d2)
       @@ <<"conversation", a2, l1>> :> [open |-> TRUE]
       @@ <<"conversation", a1, l2>> :> [open |-> TRUE]

CloseAccount(a) == [op |-> "close-account", actor |-> a, password |-> p1]

MCMenu == {CloseAccount(a1), CloseAccount(a2)}
=============================================================================
