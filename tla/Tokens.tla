------------------------------- MODULE Tokens -------------------------------
(***************************************************************************)
(* Who a request acts for: LoginPipeline and RegenerateTokenPipeline       *)
(* (pipeline.js), AuthenticationHandler and SecuritySchema                 *)
(* (classes/securityvalidation.js).  A token is issued for a password, is  *)
(* good for Lifetime, and is renewed for a token; nothing on the server    *)
(* remembers it.  Meanwhile requests change the email and the password of  *)
(* an account, or close it.                                                *)
(*                                                                         *)
(* External: bcrypt.compare tells whether two passwords are equal;         *)
(* jwt.verify accepts what jwt.sign signed with the server's key, until it *)
(* expires.                                                                *)
(***************************************************************************)
EXTENDS Naturals, FiniteSets

CONSTANTS
    Sessions,    \* connections, each with one request after another
    Accounts, Emails, Passwords,
    InitAccounts,\* the rows that the connections find
    Menu,        \* the requests that clients may send
    Foreign,     \* the tokens that they have from elsewhere
    Lifetime,    \* expiresIn: '20m'
    MaxTime,     \* bound: the last moment
    Null

Row == [email : Emails, password : Passwords, open : BOOLEAN]

Token == [kind : {"signed", "tampered", "malformed", "unreadable"}, user : Accounts, exp : 0..(MaxTime + Lifetime)]

(* What an AA_TAP request does once it is let in: modify-account changes   *)
(* one column, close-account sets DeletionDate.                            *)
Change == [column : {"email"}, value : Emails] \cup [column : {"password"}, value : Passwords]
          \cup {[column |-> "closed", value |-> Null]}

Request ==
    [op : {"login"}, email : Emails, password : Passwords]
    \cup [op : {"regenerate-token", "NA", "AA_TO"}]
    \cup [op : {"AA_TAP"}, password : Passwords \cup {Null}, change : Change]

ASSUME TokensAssumption ==
    /\ InitAccounts \in [Accounts -> Row]
    /\ Menu \subseteq Request
    /\ Foreign \subseteq {t \in Token : t.kind # "signed"}
    /\ Lifetime \in Nat \ {0} /\ MaxTime \in Nat
    /\ Null \notin Request \cup Token \cup Accounts \cup Passwords

VARIABLES
    accounts,   \* the rows of Account
    now,        \* the clock of the server
    issued,     \* the tokens it has signed
    pc,         \* per session: where Execute is
    req,        \* per session: the request
    token,      \* per session: the Authorization header, or Null
    user,       \* per session: userID
    hash,       \* per session: the passhash that was read, until it is compared
    error,      \* per session: error_final of Execute
    since,      \* history: when the request came in
    matched,    \* history: the accounts that its credentials have fitted meanwhile
    loggedIn    \* history: the accounts somebody has logged in to

vars == <<accounts, now, issued, pc, req, token, user, hash, error, since, matched, loggedIn>>
session == <<req, token, since>>

(* The open accounts that the credentials in request r fit. *)
Fit(rows, r) ==
    {a \in Accounts : /\ rows[a].open
                      /\ r.op \in {"login", "AA_TAP"} /\ r.password = rows[a].password
                      /\ r.op = "login" => r.email = rows[a].email}

Init ==
    /\ accounts = InitAccounts
    /\ now = 0
    /\ issued = {}
    /\ pc = [s \in Sessions |-> "idle"]
    /\ req = [s \in Sessions |-> Null]
    /\ token = [s \in Sessions |-> Null]
    /\ user = [s \in Sessions |-> Null]
    /\ hash = [s \in Sessions |-> Null]
    /\ error = [s \in Sessions |-> "null"]
    /\ since = [s \in Sessions |-> 0]
    /\ matched = [s \in Sessions |-> {}]
    /\ loggedIn = {}
-----------------------------------------------------------------------------
Goto(s, l) == pc' = [pc EXCEPT ![s] = l]
Reject(s, e) == Goto(s, "respond") /\ error' = [error EXCEPT ![s] = e]

FirstStepTrustingNA(r, t) ==    \* mutant: NA requests are let in unverified
    IF r.op = "login" THEN "query"
    ELSE IF r.op = "NA" THEN "store"
    ELSE IF t # Null THEN "verify" ELSE "respond"

(* LoginPipeline.Execute goes to the database, RegenerateTokenPipeline     *)
(* and a request with a token go to verifyToken; noToken lets the others   *)
(* in if their mode is NA.                                                 *)
FirstStep(r, t) ==
    IF r.op = "login" THEN "query"
    ELSE IF t # Null THEN "verify"
    ELSE IF r.op = "NA" THEN "store" ELSE "respond"

FirstError(r, t) ==
    IF FirstStep(r, t) # "respond" THEN "null"
    ELSE IF r.op = "regenerate-token" THEN "AbsentArgumentError" ELSE "UnauthenticatedUserError"

Execute(s) ==
    /\ pc[s] = "idle"
    /\ \E r \in Menu, t \in issued \cup Foreign \cup {Null} :
         /\ r.op = "login" => t = Null
         /\ req' = [req EXCEPT ![s] = r]
         /\ token' = [token EXCEPT ![s] = t]
         /\ Goto(s, FirstStep(r, t))
         /\ error' = [error EXCEPT ![s] = FirstError(r, t)]
         /\ matched' = [matched EXCEPT ![s] = Fit(accounts, r)]
    /\ since' = [since EXCEPT ![s] = now]
    /\ UNCHANGED <<accounts, now, issued, user, hash, loggedIn>>

VerifyErrorIgnoringExpiry(t) ==    \* mutant: ignoreExpiration
    CASE t.kind = "tampered" -> "TamperedTokenError"
      [] t.kind = "malformed" -> "InvalidTokenError"
      [] OTHER -> "null"

VerifyErrorDecoding(t) ==    \* mutant: jwt.decode instead of jwt.verify
    CASE t.kind = "malformed" -> "InvalidTokenError"
      [] t.kind = "signed" /\ t.exp <= now -> "ExpiredTokenError"
      [] OTHER -> "null"

(* The error that verifyToken makes of the one jwt.verify throws.  The     *)
(* switch has no default: what is not one of the three names it lists, as  *)
(* for a payload that cannot be parsed, throws nothing.                    *)
VerifyError(t) ==
    CASE t.kind = "tampered" -> "TamperedTokenError"
      [] t.kind = "malformed" -> "InvalidTokenError"
      [] t.kind = "signed" /\ t.exp <= now -> "ExpiredTokenError"
      [] OTHER -> "null"

(* verifyToken, then verifyAuthentication or _regenerateToken.  An         *)
(* unreadable token decodes to undefined.                                  *)
VerifyToken(s) ==
    LET t == token[s]
        op == req[s].op
        decoded == IF t.kind = "unreadable" THEN Null ELSE t.user
    IN /\ pc[s] = "verify"
       /\ \/ /\ VerifyError(t) # "null"
             /\ Reject(s, VerifyError(t))
             /\ UNCHANGED user
          \/ /\ VerifyError(t) = "null" /\ decoded = Null /\ op # "NA"
             /\ Reject(s, IF op = "regenerate-token" THEN "AbsentArgumentError" ELSE "UnauthenticatedUserError")
             /\ UNCHANGED user
          \/ /\ VerifyError(t) = "null" /\ decoded # Null /\ op = "AA_TAP" /\ req[s].password = Null
             /\ Reject(s, "InvalidCredentialsError")
             /\ UNCHANGED user
          \/ /\ VerifyError(t) = "null"
             /\ decoded = Null => op = "NA"
             /\ op = "AA_TAP" => req[s].password # Null
             /\ user' = [user EXCEPT ![s] = decoded]
             /\ Goto(s, CASE op = "regenerate-token" -> "sign" [] op = "AA_TAP" -> "query" [] OTHER -> "store")
             /\ UNCHANGED error
       /\ UNCHANGED <<accounts, now, issued, session, hash, matched, loggedIn>>

(* The account that the query of isUserCredentialsValid or                 *)
(* isUserPasswordValid finds.                                              *)
FoundIncludingClosed(s) ==    \* mutant: AND DeletionDate IS NULL forgotten
    {a \in Accounts : IF req[s].op = "login" THEN accounts[a].email = req[s].email ELSE a = user[s]}

Found(s) ==
    {a \in Accounts : /\ accounts[a].open
                      /\ IF req[s].op = "login" THEN accounts[a].email = req[s].email ELSE a = user[s]}

(* The two treat an empty answer differently: isUserPasswordValid looks    *)
(* for it in res.length, which is 1, and then at res[0][0].passhash.       *)
GetHash(s) ==
    /\ pc[s] = "query"
    /\ \/ /\ Found(s) = {}
          /\ Reject(s, IF req[s].op = "login" THEN "InvalidCredentialsError" ELSE "TypeError")
          /\ UNCHANGED <<user, hash>>
       \/ \E a \in Found(s) :
             /\ user' = [user EXCEPT ![s] = a]
             /\ hash' = [hash EXCEPT ![s] = accounts[a].password]
             /\ Goto(s, "compare")
             /\ UNCHANGED error
    /\ UNCHANGED <<accounts, now, issued, session, matched, loggedIn>>

(* bcrypt.compare, on the row as it was read. *)
Compare(s) ==
    /\ pc[s] = "compare"
    /\ \/ /\ hash[s] # req[s].password
          /\ Reject(s, "InvalidCredentialsError")
          /\ UNCHANGED loggedIn
       \/ /\ hash[s] = req[s].password
          /\ Goto(s, IF req[s].op = "login" THEN "sign" ELSE "store")
          /\ loggedIn' = IF req[s].op = "login" THEN loggedIn \cup {user[s]} ELSE loggedIn
          /\ UNCHANGED error
    /\ hash' = [hash EXCEPT ![s] = Null]
    /\ UNCHANGED <<accounts, now, issued, session, user, matched>>

SignInMinutes(s) ==    \* mutant: the unit of expiresIn is wrong
    /\ pc[s] = "sign"
    /\ issued' = issued \cup {[kind |-> "signed", user |-> user[s], exp |-> now + 60 * Lifetime]}
    /\ Goto(s, "respond")
    /\ UNCHANGED <<accounts, now, session, user, hash, error, matched, loggedIn>>

(* _createNewToken, _regenerateToken.  The Store of a login has no         *)
(* statements (no input is called device_token) and does nothing.          *)
Sign(s) ==
    /\ pc[s] = "sign"
    /\ issued' = issued \cup {[kind |-> "signed", user |-> user[s], exp |-> now + Lifetime]}
    /\ Goto(s, "respond")
    /\ UNCHANGED <<accounts, now, session, user, hash, error, matched, loggedIn>>

(* The row of account a after change c. *)
Changed(row, c) ==
    CASE c.column = "email" -> [row EXCEPT !.email = c.value]
      [] c.column = "password" -> [row EXCEPT !.password = c.value]
      [] c.column = "closed" -> [row EXCEPT !.open = FALSE]

StoreError(s) ==
    LET c == req[s].change IN
    IF ~accounts[user[s]].open THEN "EmptyResponseError"
    ELSE IF c.column = "email" /\ \E a \in Accounts \ {user[s]} : accounts[a].email = c.value
    THEN "UniqueConstraintError" ELSE "null"

(* Pipeline.Store, of which only the writes to Account matter here. *)
Store(s) ==
    /\ pc[s] = "store"
    /\ \/ /\ req[s].op = "AA_TAP" /\ StoreError(s) = "null"
          /\ accounts' = [accounts EXCEPT ![user[s]] = Changed(@, req[s].change)]
          /\ matched' = [t \in Sessions |->
                           IF req[t] = Null THEN {} ELSE matched[t] \cup Fit(accounts', req[t])]
          /\ UNCHANGED error
       \/ /\ req[s].op = "AA_TAP" => StoreError(s) # "null"
          /\ error' = [error EXCEPT ![s] = IF req[s].op = "AA_TAP" THEN StoreError(s) ELSE "null"]
          /\ UNCHANGED <<accounts, matched>>
    /\ Goto(s, "respond")
    /\ UNCHANGED <<now, issued, session, user, hash, loggedIn>>

(* The answer, after which nothing is left of the request. *)
Respond(s) ==
    /\ pc[s] = "respond"
    /\ Goto(s, "idle")
    /\ req' = [req EXCEPT ![s] = Null]
    /\ token' = [token EXCEPT ![s] = Null]
    /\ user' = [user EXCEPT ![s] = Null]
    /\ error' = [error EXCEPT ![s] = "null"]
    /\ since' = [since EXCEPT ![s] = 0]
    /\ matched' = [matched EXCEPT ![s] = {}]
    /\ UNCHANGED <<accounts, now, issued, hash, loggedIn>>

(* The key cannot be read, or the query fails. *)
Fails(s) ==
    /\ \/ pc[s] \in {"verify", "sign"} /\ Reject(s, "PrivateKeyReadError")
       \/ pc[s] \in {"query", "store"} /\ Reject(s, "QueryExecutionError")
    /\ UNCHANGED <<accounts, now, issued, session, user, hash, matched, loggedIn>>

Tick ==
    /\ now < MaxTime
    /\ now' = now + 1
    /\ UNCHANGED <<accounts, issued, pc, session, user, hash, error, matched, loggedIn>>

Step(s) == VerifyToken(s) \/ GetHash(s) \/ Compare(s) \/ Sign(s) \/ Store(s) \/ Fails(s) \/ Respond(s)

Next == Tick \/ \E s \in Sessions : Execute(s) \/ Step(s)

Spec == Init /\ [][Next]_vars
-----------------------------------------------------------------------------
(* Properties *)

Errors ==
    {"null", "UnauthenticatedUserError", "InvalidCredentialsError", "TamperedTokenError", "ExpiredTokenError",
     "InvalidTokenError", "AbsentArgumentError", "PrivateKeyReadError", "QueryExecutionError", "TypeError",
     "EmptyResponseError", "UniqueConstraintError"}

Answered(s) == pc[s] = "respond"
Accepted(s) == Answered(s) /\ error[s] = "null"

(* Every variable has its type. *)
TypeOK ==
    /\ accounts \in [Accounts -> Row]
    /\ now \in 0..MaxTime
    /\ issued \subseteq Token
    /\ pc \in [Sessions -> {"idle", "verify", "query", "compare", "sign", "store", "respond"}]
    /\ req \in [Sessions -> Request \cup {Null}]
    /\ token \in [Sessions -> Token \cup {Null}]
    /\ user \in [Sessions -> Accounts \cup {Null}]
    /\ hash \in [Sessions -> Passwords \cup {Null}]
    /\ error \in [Sessions -> Errors]
    /\ since \in [Sessions -> 0..MaxTime]
    /\ matched \in [Sessions -> SUBSET Accounts]
    /\ loggedIn \subseteq Accounts

(* Whoever is let in by a password gave the password of the account, open  *)
(* at the time, at some moment between the request and its answer: a login *)
(* sent after the account was closed, or with a password replaced before   *)
(* it was sent, never succeeds (DeletionDate IS NULL, bcrypt.compare).     *)
CredentialsWereCurrent ==
    \A s \in Sessions : (Accepted(s) /\ req[s].op \in {"login", "AA_TAP"}) => user[s] \in matched[s]

(* Behind every token, renewed however often, and behind everybody that a  *)
(* request acts for, there is a login with the password of that account.   *)
EverybodyLoggedIn ==
    /\ \A t \in issued : t.user \in loggedIn
    /\ \A s \in Sessions : (Accepted(s) /\ user[s] # Null) => user[s] \in loggedIn

(* A request with a readable token that had expired when it came in is     *)
(* refused, also where no token is needed, and so is one with a token that *)
(* has been tampered with and can still be read.  One that jsonwebtoken    *)
(* throws its SyntaxError over (a payload that is no JSON) is exempt:      *)
(* verifyToken has no case for it and returns undefined, which a NA        *)
(* endpoint takes for no token at all, whatever the comments say           *)
(* (securityvalidation.js:15, 20).  It gets no further than that: the      *)
(* request acts for nobody, and no other endpoint lets it in.              *)
BadTokensAreRefused ==
    \A s \in Sessions : (Accepted(s) /\ token[s] # Null) =>
        /\ token[s].kind \in {"signed", "unreadable"}
        /\ token[s].kind = "signed" => since[s] < token[s].exp
        /\ token[s].kind = "unreadable" => req[s].op = "NA" /\ user[s] = Null
=============================================================================
