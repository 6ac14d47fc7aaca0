---------------------------- MODULE MCGeneralPipe ----------------------------
(* Every endpoint of GeneralPipe, with at least one value per parameter    *)
(* that passes, and those that fail in their own ways.  The writing        *)
(* endpoints are compared with the statements of MarketplaceSchema.        *)
EXTENDS GeneralPipe

CONSTANTS Session, Account, None, NewAddress_, Missing

Schema == INSTANCE MarketplaceSchema WITH
    Sessions <- {Session}, Accounts <- {Account}, Listings <- {Account}, Addresses <- {Account},
    Emails <- {Account}, Passwords <- {Account}, MaxMedia <- 2, Null <- None, New <- NewAddress_, NoRow <- Missing

Of(kinds) == {Value(k) : k \in kinds}

MCChoices ==
    [accountID |-> Of({"digits", "text"}), listingID |-> Of({"digits", "text"}),
     conversationID |-> Of({"digits"}), userID |-> Of({"digits", "empty"}),
     receiverID |-> Of({"digits", "integer", "self", "text"}), categoryID |-> Of({"digits"}),
     region |-> Of({"text", "empty"}), maxResults |-> Of({"digits"}), startResults |-> Of({"digits", "text"}),
     email |-> Of({"email", "text"}), name |-> Of({"text", "null"}), password |-> Of({"strong", "text"}),
     newPassword |-> Of({"strong", "empty"}), dob |-> Of({"adult", "child", "digits"}),
     address |-> Of({"place", "object", "null"}), picture |-> Of({"image", "video", "text"}),
     title |-> Of({"text", "empty"}), description |-> Of({"text"}), condition |-> Of({"condition", "text"}),
     location |-> Of({"digits", "place", "null", "object"}) \cup {List(<<Value("integer")>>)},
     media |-> {List(<<>>), List(<<Value("image")>>), List(<<Value("image"), Value("video")>>),
                List(<<Value("text"), Value("audio")>>), List(<<Value("audio"), Value("text")>>), Value("image")},
     textContent |-> Of({"text"}), mediaContent |-> {List(<<Value("video")>>), Value("empty")}]

(* The request of MarketplaceSchema that a validated input is. *)
Has(key) == key \in DOMAIN validated
Columns(keys) == {k \in keys : Has(IF k = "category" THEN "categoryID" ELSE k)}
Location == IF ~Has("location") THEN None
            ELSE IF validated["location"].kind \in Objects THEN NewAddress_ ELSE Account
Urls == IF Has("url") THEN Len(validated["url"].items) ELSE 0
If(key) == IF Has(key) THEN Account ELSE None

SchemaRequest ==
    CASE op = "create-account" -> [op |-> op, address |-> Has("address"), picture |-> Has("url")]
      [] op = "modify-account" -> [op |-> op, columns |-> Columns(Schema!AccountColumns), email |-> If("email"),
                                   newPassword |-> If("passhash"), picture |-> Has("url")]
      [] op \in {"create-listing", "modify-listing"} ->
           [op |-> op, columns |-> Columns(Schema!ListingColumns), location |-> Location, media |-> Urls]
      [] OTHER -> [op |-> op]

(* MarketplaceSchema, which the concurrent modules are built on, says the  *)
(* same of the writing requests as the general template classes do with    *)
(* the real templates: the statements and their order, which errors end    *)
(* the request, what is dropped, and the status.                           *)
SchemaAgrees ==
    (op \in CreateOps \cup ModifyOps \cup CloseOps) =>
        /\ phase \in {"query", "prepare", "done"} /\ built # Nothing =>
             /\ Len(Schema!Build(SchemaRequest)) = Len(built.names)
             /\ \A i \in DOMAIN built.names : Schema!Build(SchemaRequest)[i].query = built.names[i]
        /\ error = "EmptyQueryError" => Schema!Build(SchemaRequest) = <<>>
        /\ phase = "prepare" =>
             PrepareResults(SQLTemplates(op), built.names, results).error =
             Schema!PrepareResults(op, {built.names[i] : i \in {j \in DOMAIN results : results[j] # <<>>}})
        /\ (phase = "done" /\ error \in Schema!Errors \cup {"null"}) => Status = Schema!GetStatus(op, error)
=============================================================================
