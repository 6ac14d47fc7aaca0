----------------------------- MODULE MCAccounts ------------------------------
(* Three requests at once about accounts: registrations and changes that   *)
(* contend for one email, a password that changes, an account that closes  *)
(* with its listing, which is also given away, perhaps to nobody there is  *)
(* (a3), or saved, and new listings.  The pool has two clients for three.  *)
EXTENDS Marketplace, TLC

CONSTANTS a1, a2, a3, l1, d1, e1, e2, e3, p1, p2

MCStore ==
    LET account(e) == [open |-> TRUE, email |-> e, password |-> p1,
                       columns |-> [c \in AccountColumns |-> Null]]
    IN <<"account", a1>> :> account(e1) @@ <<"account", a2>> :> account(e2)
       @@ <<"address", d1>> :> [owner |-> a1]
       @@ <<"listing", l1>> :> [contributor |-> a1, open |-> TRUE, receiver |-> Null, address |-> d1,
                                columns |-> [c \in ListingColumns |-> Null]]

Create(email, address, picture) ==
    [op |-> "create-account", email |-> email, password |-> p1, address |-> address, picture |-> picture]
Modify(actor, columns, email, newPassword, picture) ==
    [op |-> "modify-account", actor |-> actor, password |-> p1, columns |-> columns, email |-> email,
     newPassword |-> newPassword, picture |-> picture]

MCMenu ==
    {Create(e3, FALSE, FALSE), Create(e3, TRUE, TRUE),
     Modify(a1, {"name"}, e2, Null, TRUE), Modify(a2, {"dob"}, e1, Null, FALSE),
     Modify(a2, {}, e3, Null, FALSE), Modify(a1, {"dob"}, Null, p2, TRUE), Modify(a1, {}, Null, p2, FALSE), Modify(a1, {}, Null, Null, FALSE),
     [op |-> "close-account", actor |-> a1, password |-> p1],
     [op |-> "close-listing", actor |-> a1, listing |-> l1, receiver |-> a2],
     [op |-> "close-listing", actor |-> a1, listing |-> l1, receiver |-> a3],
     [op |-> "create-savedListing", actor |-> a2, listing |-> l1],
     [op |-> "create-listing", actor |-> a1, location |-> New, media |-> 2],
     [op |-> "create-listing", actor |-> a2, location |-> d1, media |-> 1]}

Symmetry == Permutations(Sessions)
=============================================================================
