------------------------------ MODULE MCReading ------------------------------
(* One reader, of any kind, while two writers change, close and discuss    *)
(* the listings of a1.                                                     *)
EXTENDS Reading, TLC

CONSTANTS a1, a2, a3, l1, l2, d1, e1, e2, e3, p1

MCStore ==
    LET account(e) == [open |-> TRUE, email |-> e, password |-> p1,
                       columns |-> [c \in AccountColumns |-> Null]]
        listing(open, receiver) ==
            [contributor |-> a1, open |-> open, receiver |-> receiver, address |-> d1,
             columns |-> [c \in ListingColumns |-> Null]]
    IN <<"account", a1>> :> account(e1) @@ <<"account", a2>> :> account(e2)
       @@ <<"account", a3>> :> account(e3)
       @@ <<"address", d1>> :> [owner |-> a1]
       @@ <<"listing", l1>> :> listing(TRUE, Null) @@ <<"listing", l2>> :> listing(FALSE, a2)
       @@ <<"media", l1, 0>> :> [born |-> Null, url |-> Null]
       @@ <<"media", l2, 0>> :> [born |-> Null, url |-> Null]
       @@ <<"conversation", a2, l1>> :> [open |-> TRUE]
       @@ <<"saved", a2, l1>> :> [born |-> Null] @@ <<"saved", a2, l2>> :> [born |-> Null]

Modify(columns, location, media) ==
    [op |-> "modify-listing", actor |-> a1, listing |-> l1, columns |-> columns,
     location |-> location, media |-> media]

MCMenu ==
    {Modify({"title"}, Null, 1), Modify({"title"}, New, 2), Modify({}, Null, 2),
     [op |-> "close-listing", actor |-> a1, listing |-> l1, receiver |-> a2],
     [op |-> "create-message", actor |-> a1, conversation |-> <<"conversation", a2, l1>>],
     [op |-> "create-conversation", actor |-> a3, listing |-> l1],
     [op |-> "create-listing", actor |-> a1, location |-> d1, media |-> 1],
     [op |-> "close-account", actor |-> a1, password |-> p1]}

MCReadMenu ==
    {[op |-> "view-listing", listing |-> l1], [op |-> "view-listing", listing |-> l2],
     [op |-> "view-accountListing", actor |-> a1, listing |-> l1],
     [op |-> "view-accountListing", actor |-> a2, listing |-> l2],
     [op |-> "view-accountListing", actor |-> a3, listing |-> l1],
     [op |-> "view-account", account |-> a1],
     [op |-> "view-conversation", actor |-> a1, conversation |-> <<"conversation", a2, l1>>],
     [op |-> "view-conversation", actor |-> a3, conversation |-> <<"conversation", a2, l1>>],
     [op |-> "view-conversation", actor |-> a3, conversation |-> <<"conversation", a3, l1>>],
     [op |-> "search-listing", actor |-> Null], [op |-> "search-listing", actor |-> a1],
     [op |-> "search-accountListing", actor |-> a1], [op |-> "search-savedListing", actor |-> a2],
     [op |-> "search-conversation", actor |-> a2], [op |-> "search-address", actor |-> a1]}

Symmetry == Permutations(Sessions)
=============================================================================
