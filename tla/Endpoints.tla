------------------------------ MODULE Endpoints ------------------------------
(***************************************************************************)
(* The templates of the endpoints that GeneralPipe serves: the             *)
(* dictionaries of schemas/request-schemas.js, schemas/sql-templates.js    *)
(* and schemas/response-schemas.js, as data for the three template classes.*)
(***************************************************************************)
EXTENDS SQLTemplate, ResponseTemplate

CreateOps == {"create-account", "create-savedListing", "create-listing", "create-conversation", "create-message"}
ModifyOps == {"modify-account", "modify-listing"}
CloseOps == {"close-account", "close-savedListing", "close-listing", "close-conversation"}
ViewOps == {"view-accountListing", "view-account", "view-listing", "view-conversation"}
SearchOps == {"search-category", "search-accountListing", "search-savedListing", "search-address",
              "search-listing", "search-conversation"}
Ops == CreateOps \cup ModifyOps \cup CloseOps \cup ViewOps \cup SearchOps

(* The constructors of the pipelines: where parameters come from. *)
Method(op) == IF op \in ViewOps \cup SearchOps THEN "query" ELSE "body"

(* schemas/security-schemas.js *)
SecuritySchema(op) ==
    CASE op \in {"search-category", "create-account", "view-account", "view-listing", "search-listing"} -> "NA"
      [] op \in {"close-account", "modify-account"} -> "AA_TAP"
      [] OTHER -> "AA_TO"
-----------------------------------------------------------------------------
(* schemas/request-schemas.js *)

Text == <<"IsNonEmptyString">>
ID == <<"IsPosInt">>
Media == <<"IsArray", "EveryImageOrVideo">>
AccountID == <<Required("accountID", ID)>>
Page == <<Required("maxResults", ID), Required("startResults", ID)>>
Filter == <<Optional("categoryID", ID), Optional("region", Text)>>
Listing == <<Required("listingID", ID)>>
Conversation == <<Required("conversationID", ID)>>

Email == <<"IsNonEmptyString", "IsEmail">>
Password == <<"IsNonEmptyString", "IsStrong">>
Dob == <<"IsDate", "IsOldEnough">>
Picture == As("media", Optional("picture", <<"IsImage">>))

CreateAccountParameters ==
    <<Required("email", Email), Required("name", Text), As("passhash", Required("password", Password)),
      Required("dob", Dob), Optional("address", <<"IsLocation">>), Picture>>
ModifyAccountParameters ==
    AccountID \o <<Optional("name", Text), Optional("email", Email),
                   As("passhash", Optional("newPassword", Password)), Optional("dob", Dob), Picture>>
CreateListingParameters ==
    AccountID \o <<Required("title", Text), Required("description", Text),
                   Required("location", <<"IsLocationOrID">>), Required("categoryID", ID),
                   Required("condition", <<"IsCondition">>), Optional("media", Media)>>
ModifyListingParameters ==
    AccountID \o Listing
      \o <<Optional("title", Text), Optional("description", Text), Optional("location", <<"IsLocationOrID">>),
           Optional("categoryID", ID), Optional("condition", <<"IsCondition">>), Optional("media", Media)>>
CloseListingParameters == AccountID \o Listing \o <<Optional("receiverID", <<"IsPosInt", "IsAnotherAccount">>)>>
CreateMessageParameters ==
    AccountID \o Conversation \o <<Required("textContent", Text), Optional("mediaContent", Media)>>
AccountListingIDParameters == AccountID \o Listing
CloseConversationParameters == AccountID \o Conversation

SearchAccountListingParameters == AccountID \o Page \o <<Optional("categoryID", ID)>>
SearchSavedListingParameters == AccountID \o Page \o Filter
SearchListingParameters == <<Optional("accountID", ID)>> \o Page \o Filter
ViewProfileParameters == <<Required("userID", ID)>> \o Page
ListConversationParameters == AccountID \o Page
ViewConversationParameters == AccountID \o Conversation \o Page

RequestTemplates(op) ==
    CASE op = "search-category"         -> <<>>
      [] op = "create-account"          -> CreateAccountParameters
      [] op = "modify-account"          -> ModifyAccountParameters
      [] op \in {"close-account", "search-address"} -> AccountID
      [] op \in {"view-accountListing", "create-savedListing", "close-savedListing", "create-conversation"} ->
           AccountListingIDParameters
      [] op = "search-accountListing"   -> SearchAccountListingParameters
      [] op = "search-savedListing"     -> SearchSavedListingParameters
      [] op = "view-account"            -> ViewProfileParameters
      [] op = "view-listing"            -> Listing
      [] op = "search-listing"          -> SearchListingParameters
      [] op = "create-listing"          -> CreateListingParameters
      [] op = "modify-listing"          -> ModifyListingParameters
      [] op = "close-listing"           -> CloseListingParameters
      [] op = "close-conversation"      -> CloseConversationParameters
      [] op = "create-message"          -> CreateMessageParameters
      [] op = "search-conversation"     -> ListConversationParameters
      [] op = "view-conversation"       -> ViewConversationParameters
-----------------------------------------------------------------------------
(* schemas/sql-templates.js: the queries with their parameters and the     *)
(* columns they return, without their texts.                               *)

NewAddress(key, owner) == Query(<<PartOf(key), PartOf(key), PartOf(key), owner>>, {"addressid"})

CreateAccountQueries ==
    DropFromResults({"store_address", "insert_pfp"}, ErrorOnEmptyResponse(Template(
        [create_account |-> Query(FromInputs(<<"name", "email", "passhash", "dob">>), {"userid"}),
         store_address  |-> IfGiven("address", NewAddress("address", FromQuery("create_account", "userid"))),
         insert_pfp     |-> IfGiven("url", Query(FromInputs(<<"mimetype", "url">>)
                                \o <<FromQuery("create_account", "userid")>>, {"mediaid"}))],
        <<"create_account", "store_address", "insert_pfp">>)))

OfAccount == FromInputs(<<"accountID">>)
CloseAccountQueries ==
    DropFromResults({"close_listings", "close_conversations"}, ErrorOnEmptyResponse(Template(
        [close_account |-> Query(OfAccount, {"userid"}), close_listings |-> Query(OfAccount, {}),
         close_conversations |-> Query(OfAccount, {})],
        <<"close_account", "close_listings", "close_conversations">>)))

ChangeAccount(key) == IfGiven(key, Query(FromInputs(<<"accountID", key>>), {"userid"}))
ModifyAccountQueries ==
    ErrorOnEmptyTransaction(ErrorOnEmptyResponse(Template(
        [change_name |-> ChangeAccount("name"), change_email |-> ChangeAccount("email"),
         change_password |-> ChangeAccount("passhash"), change_dob |-> ChangeAccount("dob"),
         change_pfp |-> IfGiven("mimetype", Query(FromInputs(<<"accountID", "mimetype", "url">>), {"mediaid"}))],
        <<"change_name", "change_email", "change_password", "change_dob", "change_pfp">>)))

CreateListingQueries ==
    DropFromResults({"create_address", "insert_media"}, ErrorOnEmptyResponse(Template(
        [create_address |-> IfObject("location", NewAddress("location", FromInput("accountID"))),
         create_listing |-> Query(FromInputs(<<"accountID", "title", "description", "condition">>)
                                \o <<LocationID, FromInput("categoryID")>>, {"listingid"}),
         insert_media   |-> ForEach("url", Query(FromInputs(<<"mimetype", "url", "media_index">>)
                                \o <<FromQuery("create_listing", "listingid")>>, {"mediaid"}))],
        <<"create_address", "create_listing", "insert_media">>)))

ChangeListing(key, constructor) ==
    IfGiven(key, Query(FromInputs(<<"accountID", "listingID">>) \o <<constructor>>, {"listingid"}))
ModifyListingQueries ==
    ErrorOnEmptyTransaction(ErrorOnEmptyResponse(Template(
        [create_address     |-> IfObject("location", NewAddress("location", FromInput("accountID"))),
         change_title       |-> ChangeListing("title", FromInput("title")),
         change_description |-> ChangeListing("description", FromInput("description")),
         change_location    |-> ChangeListing("location", LocationID),
         change_category    |-> ChangeListing("categoryID", FromInput("categoryID")),
         change_condition   |-> ChangeListing("condition", FromInput("condition")),
         change_media       |-> ForEach("url",
             Query(FromInputs(<<"accountID", "listingID", "mimetype", "url", "media_index">>), {"mediaid"})),
         drop_extra_media   |-> IfGiven("url",
             Query(FromInputs(<<"accountID", "listingID">>) \o <<LengthOf("url")>>, {}))],
        <<"create_address", "change_title", "change_description", "change_location", "change_category",
          "change_condition", "change_media", "drop_extra_media">>)))

CloseListingQueries ==
    DropFromResults({"close_conversations"}, ErrorOnEmptyResponse(Template(
        [close_listing |-> Query(FromInputs(<<"accountID", "listingID", "receiverID">>), {"listingid"}),
         close_conversations |-> Query(<<FromQuery("close_listing", "listingid")>>, {})],
        <<"close_listing", "close_conversations">>)))

CreateMessageQueries ==
    DropFromResults({"insert_media"}, ErrorOnEmptyResponse(Template(
        [create_message |-> Query(FromInputs(<<"accountID", "conversationID", "textContent">>), {"messageid"}),
         insert_media   |-> IfGiven("url", Query(FromInputs(<<"mimetype", "url">>)
                                \o <<FromQuery("create_message", "messageid")>>, {"mediaid"}))],
        <<"create_message", "insert_media">>)))

(* The SELECT that searches share, and its one-query templates. *)
Summary == {"listingID", "title", "description", "condition", "categoryID",
            "country", "region", "postcode", "mimetype", "url"}
One(name, keys, returns) ==
    Template([n \in {name} |-> Query(FromInputs(keys), returns)], <<name>>)

MediaColumnsAll ==    \* mutant: SELECT *
    {"mediaid", "mimetype", "url", "index", "userid", "messageid", "listingid"}
MediaColumns == {"mimetype", "url"}

ViewListingQueries(get_listing) ==
    ErrorOnEmptyResponse(Template(
        [get_listing  |-> get_listing,
         get_location |-> Query(<<FromQuery("get_listing", "addressid")>>, {"country", "region", "postcode"}),
         get_media    |-> Query(FromInputs(<<"listingID">>), MediaColumns)],
        <<"get_listing", "get_location", "get_media">>))
ListingDetail == {"listingid", "contributorid", "title", "description", "condition", "addressid", "categoryid",
                  "creationdate", "modificationdate"}

ViewAccountQueries ==
    ErrorOnEmptyResponse(Template(
        [get_account  |-> Query(FromInputs(<<"userID">>), {"userid", "name"}),
         get_picture  |-> Query(<<FromQuery("get_account", "userid")>>, {"pfpmimetype", "pfpurl"}),
         get_listings |-> Query(<<FromQuery("get_account", "userid")>>
                              \o FromInputs(<<"maxResults", "startResults">>), Summary)],
        <<"get_account", "get_picture", "get_listings">>))

ConversationSummary == {"conversationID", "listingID", "title", "receiverID", "receiverName",
                        "contributorID", "contributorName"}
ViewConversationQueries ==
    ErrorOnEmptyResponse(Template(
        [get_conversation |-> Query(FromInputs(<<"accountID", "conversationID">>),
                                    ConversationSummary \cup {"mimetypeMain", "urlMain", "closedDate"}),
         get_messages     |-> Query(<<FromQuery("get_conversation", "conversationID")>>
                                  \o FromInputs(<<"startResults", "maxResults">>),
                                  {"senderID", "sentTime", "textContent", "mediaContentMimetype", "mediaContent"})],
        <<"get_conversation", "get_messages">>))

ViewAccountListingQueries ==
    ViewListingQueries(Query(FromInputs(<<"listingID", "accountID">>),
                             ListingDetail \cup {"closeddate", "receiverid"}))

ListCategoryQueries ==
    One("get_categories", <<>>, {"categoryID", "categoryName", "icon", "colour", "prompt", "parentCategoryID"})
SearchAccountListingQueries ==
    One("get_listing", <<"accountID", "categoryID", "maxResults", "startResults">>, Summary)
SearchSavedListingQueries ==
    One("get_listing", <<"accountID", "categoryID", "region", "maxResults", "startResults">>, Summary)
SearchListingQueries ==
    One("get_listing", <<"accountID", "categoryID", "region", "maxResults", "startResults">>,
        Summary \cup {"contributorID", "saved"})
AddressQueries == One("get_addresses", <<"accountID">>, {"addressID", "country", "region", "postcode"})
ListConversationQueries ==
    One("get_conversations", <<"accountID", "startResults", "maxResults">>,
        ConversationSummary \cup {"mimetype", "url"})

SaveListingQueries == ErrorOnEmptyResponse(One("save_listing", <<"accountID", "listingID">>, {"userid"}))
ForgetListingQueries == ErrorOnEmptyResponse(One("forget_listing", <<"accountID", "listingID">>, {"userid"}))
CreateConversationQueries ==
    ErrorOnEmptyResponse(One("create_conversation", <<"accountID", "listingID">>, {"conversationid"}))
CloseConversationQueries ==
    ErrorOnEmptyResponse(One("close_conversation", <<"accountID", "conversationID">>, {"conversationid"}))

SQLTemplates(op) ==
    CASE op = "search-category"       -> ListCategoryQueries
      [] op = "create-account"        -> CreateAccountQueries
      [] op = "close-account"         -> CloseAccountQueries
      [] op = "modify-account"        -> ModifyAccountQueries
      [] op = "view-accountListing"   -> ViewAccountListingQueries
      [] op = "view-listing"          -> ViewListingQueries(Query(FromInputs(<<"listingID">>), ListingDetail))
      [] op = "search-accountListing" -> SearchAccountListingQueries
      [] op = "search-savedListing"   -> SearchSavedListingQueries
      [] op = "search-listing"        -> SearchListingQueries
      [] op = "create-savedListing"   -> SaveListingQueries
      [] op = "close-savedListing"    -> ForgetListingQueries
      [] op = "search-address"        -> AddressQueries
      [] op = "view-account"          -> ViewAccountQueries
      [] op = "create-listing"        -> CreateListingQueries
      [] op = "modify-listing"        -> ModifyListingQueries
      [] op = "close-listing"         -> CloseListingQueries
      [] op = "create-conversation"   -> CreateConversationQueries
      [] op = "close-conversation"    -> CloseConversationQueries
      [] op = "create-message"        -> CreateMessageQueries
      [] op = "search-conversation"   -> ListConversationQueries
      [] op = "view-conversation"     -> ViewConversationQueries
-----------------------------------------------------------------------------
(* schemas/response-schemas.js: parameters, and the error map. *)

Fields(names) == [i \in DOMAIN names |-> Field(names[i], names[i])]

AccountDetails ==
    <<Field("name", "name"), Field("mimetype", "pfpmimetype"), Field("url", "pfpurl"),
      RowsWithFields("listings", {"listingID"})>>
ListingDetails ==
    <<Field("listingID", "listingid"), Field("contributorID", "contributorid"), Field("categoryID", "categoryid"),
      Field("creationDate", "creationdate"), Field("modificationDate", "modificationdate"),
      Field("closedDate", "closeddate"), Field("receiverID", "receiverid"),
      OneRowWithFields("location", {"country"}), RowsWithFields("media", {"mimetype", "url"})>>
      \o Fields(<<"title", "description", "condition">>)
ConversationDetails ==
    <<Field("mimetype", "mimetypeMain"), Field("url", "urlMain"), RowsWithFields("messages", {"senderID"})>>
      \o Fields(<<"listingID", "title", "receiverID", "receiverName", "contributorID", "contributorName",
                  "closedDate">>)

ResponseParameters(op) ==
    CASE op = "search-category" -> <<RowsWithFields("categories", {"categoryID"})>>
      [] op \in {"search-accountListing", "search-savedListing", "search-listing"} ->
           <<RowsWithFields("listings", {"listingID"})>>
      [] op = "search-address"      -> <<RowsWithFields("addresses", {"addressID"})>>
      [] op = "search-conversation" -> <<RowsWithFields("conversations", {"conversationID"})>>
      [] op = "view-account"        -> AccountDetails
      [] op \in {"view-listing", "view-accountListing"} -> ListingDetails
      [] op = "view-conversation"   -> ConversationDetails
      [] op = "create-listing"      -> <<Field("success", "listingid")>>
      [] op = "create-conversation" -> <<Field("success", "conversationid")>>
      [] op = "create-message"      -> <<Field("success", "messageid")>>
      [] OTHER                      -> <<>>

Single(error, status) == [e \in {error} |-> status]
ErrorMap(op) ==
    CASE op = "create-account" -> [e \in {"null", "EmptyResponseError"} |-> IF e = "null" THEN 201 ELSE 409]
      [] op = "modify-account" -> [e \in {"EmptyQueryError", "EmptyResponseError"} |->
                                     IF e = "EmptyQueryError" THEN 400 ELSE 403]
      [] op = "modify-listing" -> Single("EmptyQueryError", 400)
      [] op \in {"create-listing", "create-conversation", "create-message"} -> Single("null", 201)
      [] op \in {"view-listing", "view-accountListing"} ->
           [e \in {"EmptyResponseError", "BackreferenceError"} |-> 404]
      [] op \in {"view-account", "view-conversation", "close-listing"} -> Single("BackreferenceError", 404)
      [] OTHER -> <<>>
=============================================================================
