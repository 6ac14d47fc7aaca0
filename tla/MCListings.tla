----------------------------- MODULE MCListings ------------------------------
(* Three requests at once about the listings that a1 and a2 offer and ask  *)
(* each other for: modifications, closing, conversations, saved            *)
(* listings, and the closing of the accounts.                              *)
EXTENDS Marketplace, TLC

CONSTANTS a1, a2, l1, l2, d1, d2, e1, e2, p1

MCStore ==
    LET account(e) == [open |-> TRUE, email |-> e, password |-> p1,
                       columns |-> [c \in AccountColumns |-> Null]]
        listing(a, d) == [contributor |-> a, open |-> TRUE, receiver |-> Null, address |-> d,
                          columns |-> [c \in ListingColumns |-> Null]]
    IN <<"account", a1>> :> account(e1) @@ <<"account", a2>> :> account(e2)
       @@ <<"address", d1>> :> [owner |-> a1] @@ <<"address", d2>> :> [owner |-> a2]
       @@ <<"listing", l1>> :> listing(a1, d1) @@ <<"listing", l2>> :> listing(a2, d2)
       @@ <<"media", l1, 0>> :> [born |-> Null, url |-> Null]
       @@ <<"conversation", a2, l1>> :> [open |-> TRUE]
       @@ <<"conversation", a1, l2>> :> [open |-> TRUE]
       @@ <<"saved", a2, l1>> :> [born |-> Null]

Modify(actor, columns, location, media) ==
    [op |-> "modify-listing", actor |-> actor, listing |-> l1, columns |-> columns,
     location |-> location, media |-> media]
Close(receiver) == [op |-> "close-listing", actor |-> a1, listing |-> l1, receiver |-> receiver]
CloseAccount(a) == [op |-> "close-account", actor |-> a, password |-> p1]
About(op, a) == [op |-> op, actor |-> a, listing |-> l1]

MCMenu ==
    {Modify(a1, {"title"}, New, 1), Modify(a1, {}, Null, 2),
     Modify(a2, {"title"}, Null, 0),
     Close(a2), Close(Null), CloseAccount(a1), CloseAccount(a2),
     About("create-conversation", a2), About("create-conversation", a1), About("close-savedListing", a2),
     [op |-> "close-conversation", actor |-> a1, conversation |-> <<"conversation", a2, l1>>]}

Symmetry == Permutations(Sessions)
=============================================================================
