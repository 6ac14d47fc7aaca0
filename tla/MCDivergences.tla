---------------------------- MODULE MCDivergences ----------------------------
(* Statements of the documentation and the tests that the code does not    *)
(* keep, each with the smallest menu that shows it.                        *)
EXTENDS Marketplace, TLC

CONSTANTS a1, a2, l1, d1, e1, e2, p1

MCStore ==
    LET account(e) == [open |-> TRUE, email |-> e, password |-> p1,
                       columns |-> [c \in AccountColumns |-> Null]]
    IN <<"account", a1>> :> account(e1) @@ <<"account", a2>> :> account(e2)
       @@ <<"address", d1>> :> [owner |-> a1]
       @@ <<"listing", l1>> :> [contributor |-> a1, open |-> TRUE, receiver |-> Null, address |-> d1,
                                columns |-> [c \in ListingColumns |-> Null]]

MovingMenu ==
    {[op |-> "modify-listing", actor |-> a2, listing |-> l1, columns |-> {"title"},
      location |-> New, media |-> 0]}

ClosingMenu ==
    {[op |-> "close-account", actor |-> a1, password |-> p1],
     [op |-> "create-listing", actor |-> a1, location |-> d1, media |-> 0]}

(* "ListingID matches a different user's listing" is answered 404           *)
(* (tests/system/sys06.modifylisting.test.js): whoever is told that a      *)
(* listing is modified owns it.                                            *)
OnlyOwnersModify ==
    \A s \in Sessions : Accepted(s) /\ req[s].op = "modify-listing" =>
        Owns(store, req[s].actor, req[s].listing)

(* "The account has been queued for close - the user no longer has access" *)
(* (docs/responses.yaml, account-close): a closed account has no listing   *)
(* that is open to the public.                                             *)
ClosedAccountsOfferNothing ==
    \A k \in DOMAIN store \cap ListingKey :
        ~store[<<"account", store[k].contributor>>].open => ~store[k].open
=============================================================================
