------------------------------ MODULE Exchange -------------------------------
(***************************************************************************)
(* What the members of the marketplace rely on, whatever statements their  *)
(* requests are made of: who has an account, who offers what and whom it   *)
(* was given to changes with one request at a time, at one instant, and    *)
(* for as long as the request still waits for its answer.  A request that  *)
(* is accepted did what it asked for; one that is refused did nothing (but *)
(* for CloseAgain); of one whose answer is lost with the connection to the *)
(* database (unheard) nobody knows.                                        *)
(***************************************************************************)
CONSTANTS
    Sessions, Menu, Null,
    Accounts0, Listings0    \* the accounts and listings at the beginning

VARIABLES
    account,    \* per account: is it open
    listing,    \* per listing: who offers it, is it open, who received it
    asked,      \* per session: its request
    answer      \* per session: the answer, once there is one

Init ==
    /\ account = Accounts0 /\ listing = Listings0
    /\ asked = [s \in Sessions |-> Null]
    /\ answer = [s \in Sessions |-> "none"]

Ask(s) ==
    /\ asked[s] = Null
    /\ \E r \in Menu : /\ r.op # "create-account" => r.actor \in DOMAIN account
                       /\ asked' = [asked EXCEPT ![s] = r]
    /\ UNCHANGED <<account, listing, answer>>

Answer(s, a) ==
    /\ asked[s] # Null /\ answer[s] = "none"
    /\ answer' = [answer EXCEPT ![s] = a]
    /\ UNCHANGED asked

Nothing == UNCHANGED <<account, listing>>

Register(s) ==
    /\ asked[s].op = "create-account"
    /\ s \notin DOMAIN account
    /\ account' = [a \in DOMAIN account \cup {s} |-> IF a = s THEN TRUE ELSE account[a]]
    /\ UNCHANGED listing

Offer(s) ==
    /\ asked[s].op = "create-listing"
    /\ s \notin DOMAIN listing
    /\ listing' = [l \in DOMAIN listing \cup {s} |->
                      IF l = s THEN [contributor |-> asked[s].actor, open |-> TRUE, receiver |-> Null]
                      ELSE listing[l]]
    /\ UNCHANGED account

(* Only who offers a listing gives it away, once, and to somebody there is. *)
Give(s) ==
    LET r == asked[s] IN
    /\ r.op = "close-listing"
    /\ r.listing \in DOMAIN listing
    /\ listing[r.listing].open /\ listing[r.listing].contributor = r.actor
    /\ r.receiver = Null \/ r.receiver \in DOMAIN account
    /\ listing' = [listing EXCEPT ![r.listing] =
                      [contributor |-> r.actor, open |-> FALSE, receiver |-> r.receiver]]
    /\ UNCHANGED account

(* Some listings of member a are closed, given to nobody. *)
Withdraw(a) ==
    \E L \in SUBSET {l \in DOMAIN listing : listing[l].contributor = a} :
        listing' = [l \in DOMAIN listing |-> [listing[l] EXCEPT !.open = @ /\ l \notin L]]

(* An account is closed once, and with it the listings it had at first.    *)
CloseAccount(s) ==
    LET a == asked[s].actor IN
    /\ asked[s].op = "close-account"
    /\ account[a]
    /\ account' = [account EXCEPT ![a] = FALSE]
    /\ Withdraw(a)
    /\ \A l \in DOMAIN Listings0 :
          (a \in DOMAIN Accounts0 /\ Listings0[l].contributor = a) => ~listing'[l].open

(* The account was closed meanwhile, by another request: this one is       *)
(* refused, but withdraws what has been offered since.                     *)
CloseAgain(s) ==
    LET a == asked[s].actor IN
    /\ asked[s].op = "close-account"
    /\ ~account[a]
    /\ Withdraw(a)
    /\ UNCHANGED account

(* Requests about anything else do not show here. *)
Serve(s) ==
    /\ asked[s].op \notin {"create-account", "close-account", "create-listing", "close-listing"}
    /\ Nothing

Grant(s) == Register(s) \/ Offer(s) \/ Give(s) \/ CloseAccount(s) \/ Serve(s)
Refuse(s) == Nothing \/ CloseAgain(s)

Next ==
    \E s \in Sessions :
        \/ Ask(s)
        \/ Answer(s, "accepted") /\ Grant(s)
        \/ Answer(s, "refused") /\ Refuse(s)
        \/ Answer(s, "unheard") /\ (Grant(s) \/ Refuse(s))

Spec == Init /\ [][Next]_<<account, listing, asked, answer>>
=============================================================================
