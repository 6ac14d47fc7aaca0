---------------------------- MODULE TokensProofs ----------------------------
(***************************************************************************)
(* The properties of Tokens, for any number of sessions, accounts, emails  *)
(* and passwords, any menu and any clock.                                  *)
(***************************************************************************)
EXTENDS Tokens, TLAPS

(* Where a session can be with which request. *)
StageInv ==
    \A s \in Sessions :
        /\ pc[s] = "idle" => user[s] = Null
        /\ pc[s] # "idle" => req[s] \in Request
        /\ pc[s] = "verify" => token[s] # Null /\ req[s].op # "login" /\ error[s] = "null"
        /\ pc[s] \in {"query", "compare"} => req[s].op \in {"login", "AA_TAP"}
        /\ pc[s] \in {"query", "compare", "sign"} => error[s] = "null"
        /\ pc[s] = "sign" => req[s].op \in {"login", "regenerate-token"} /\ user[s] # Null
        /\ pc[s] = "store" => req[s].op \in {"NA", "AA_TO", "AA_TAP"} /\ error[s] = "null"
        /\ pc[s] \in {"compare"} \/ (pc[s] \in {"query", "store"} /\ req[s].op = "AA_TAP") => user[s] # Null

(* matched is what it says, and what was read was there. *)
MatchInv ==
    \A s \in Sessions :
        /\ pc[s] # "idle" => Fit(accounts, req[s]) \subseteq matched[s]
        /\ pc[s] = "compare" /\ hash[s] = req[s].password => user[s] \in matched[s]
        /\ /\ pc[s] \in {"sign", "store", "respond"} /\ error[s] = "null"
           /\ req[s].op \in {"login", "AA_TAP"}
           => user[s] \in matched[s]

(* A token of the server's is one it issued; whoever is past verifyToken   *)
(* has a login behind him.                                                 *)
LoginInv ==
    /\ \A t \in issued : t.user \in loggedIn
    /\ \A s \in Sessions :
        /\ token[s] # Null => token[s] \in issued \cup Foreign
        /\ /\ pc[s] \in {"query", "compare", "sign", "store", "respond"} /\ error[s] = "null" /\ user[s] # Null
           /\ pc[s] \in {"query", "compare"} => req[s].op # "login"
           => user[s] \in loggedIn

(* The token was verified after the request came in. *)
TimeInv ==
    \A s \in Sessions :
        /\ since[s] <= now
        /\ pc[s] # "idle" /\ req[s].op = "login" => token[s] = Null
        /\ /\ pc[s] \in {"query", "compare", "sign", "store", "respond"} /\ error[s] = "null" /\ token[s] # Null
           => /\ token[s].kind \in {"signed", "unreadable"}
              /\ token[s].kind = "signed" => since[s] < token[s].exp
              /\ token[s].kind = "unreadable" => req[s].op = "NA" /\ user[s] = Null

IInv == TypeOK /\ StageInv /\ MatchInv /\ LoginInv /\ TimeInv
-----------------------------------------------------------------------------
(* What verifyToken lets through. *)
LEMMA VerifyErrorFacts ==
    ASSUME NEW t \in Token, now \in Nat
    PROVE  /\ VerifyError(t) \in Errors
           /\ VerifyError(t) = "null" => /\ t.kind \in {"signed", "unreadable"}
                                         /\ t.kind = "signed" => now < t.exp
BY TokensAssumption DEF VerifyError, Errors, Token

(* IInv is kept when a request comes in. *)
LEMMA ExecuteInv ==
    ASSUME NEW s \in Sessions, IInv, Execute(s)
    PROVE  IInv'
<1> USE TokensAssumption
<1>1. TypeOK'
  BY DEF Execute, Goto, FirstStep, FirstError, session, IInv, TypeOK, StageInv, Row, Token, Request, Change, Errors, Fit, Errors
<1>2. StageInv'
  BY DEF Execute, Goto, FirstStep, FirstError, session, IInv, TypeOK, StageInv, Row, Token, Request
<1>3. MatchInv'
  BY DEF Execute, Goto, FirstStep, FirstError, session, IInv, TypeOK, StageInv, MatchInv, Row, Token, Request, Fit
<1>4. LoginInv'
  <2>1. PICK r \in Menu, t \in issued \cup Foreign \cup {Null} :
          /\ req' = [req EXCEPT ![s] = r]
          /\ token' = [token EXCEPT ![s] = t]
          /\ pc' = [pc EXCEPT ![s] = FirstStep(r, t)]
          /\ error' = [error EXCEPT ![s] = FirstError(r, t)]
    BY DEF Execute, Goto
  <2>2. /\ FirstStep(r, t) = "query" => r.op = "login"
        /\ FirstStep(r, t) \notin {"compare", "sign"}
        /\ FirstStep(r, t) = "respond" => FirstError(r, t) # "null"
    BY DEF FirstStep, FirstError
  <2>3. issued' = issued /\ loggedIn' = loggedIn /\ user' = user
    BY DEF Execute
  <2>4. FirstStep(r, t) = "store" => user[s] = Null
    BY DEF IInv, StageInv, Execute
  <2> QED BY <2>1, <2>2, <2>3, <2>4 DEF IInv, TypeOK, LoginInv
<1>5. TimeInv'
  BY DEF Execute, Goto, FirstStep, FirstError, session, IInv, TypeOK, StageInv, TimeInv, Row, Token, Request
<1> QED BY <1>1, <1>2, <1>3, <1>4, <1>5 DEF IInv

(* IInv is kept when a token is verified. *)
LEMMA VerifyTokenInv ==
    ASSUME NEW s \in Sessions, IInv, VerifyToken(s)
    PROVE  IInv'
<1> USE TokensAssumption
<1> DEFINE t == token[s]
           op == req[s].op
           decoded == IF t.kind = "unreadable" THEN Null ELSE t.user
           Refused == \E e \in Errors \ {"null"} : Reject(s, e) /\ user' = user
           Passed == /\ user' = [user EXCEPT ![s] = decoded]
                     /\ pc' = [pc EXCEPT ![s] = CASE op = "regenerate-token" -> "sign"
                                                  [] op = "AA_TAP" -> "query"
                                                  [] OTHER -> "store"]
                     /\ error' = error
                     /\ decoded = Null => op = "NA"
                     /\ t.kind \in {"signed", "unreadable"}
                     /\ t.kind = "signed" => now < t.exp
<1>a. /\ t \in Token /\ t \in issued \cup Foreign /\ req[s] \in Request /\ op # "login"
      /\ pc[s] = "verify" /\ error[s] = "null" /\ now \in Nat
      /\ UNCHANGED <<accounts, now, issued, session, hash, matched, loggedIn>>
  BY DEF VerifyToken, IInv, TypeOK, StageInv, LoginInv
<1>b. Refused \/ Passed
  <2>1. /\ VerifyError(t) \in Errors
        /\ VerifyError(t) = "null" => /\ t.kind \in {"signed", "unreadable"}
                                      /\ t.kind = "signed" => now < t.exp
    BY <1>a, VerifyErrorFacts
  <2>2. CASE VerifyError(t) # "null"
    BY <2>1, <2>2 DEF VerifyToken
  <2>3. CASE VerifyError(t) = "null" /\ decoded = Null /\ op # "NA"
    BY <2>3 DEF VerifyToken, Errors
  <2>4. CASE VerifyError(t) = "null" /\ decoded # Null /\ op = "AA_TAP" /\ req[s].password = Null
    BY <2>4 DEF VerifyToken, Errors
  <2>5. CASE /\ VerifyError(t) = "null"
             /\ decoded = Null => op = "NA"
             /\ op = "AA_TAP" => req[s].password # Null
    <3>1. /\ user' = [user EXCEPT ![s] = decoded] /\ error' = error
          /\ Goto(s, CASE op = "regenerate-token" -> "sign" [] op = "AA_TAP" -> "query" [] OTHER -> "store")
      BY <2>5, Zenon DEF VerifyToken
    <3> QED BY <2>1, <2>5, <3>1, Zenon DEF Goto
  <2> QED BY <2>2, <2>3, <2>4, <2>5
<1>c. Refused => pc' = [pc EXCEPT ![s] = "respond"] /\ error'[s] \in Errors \ {"null"}
                 /\ error' \in [Sessions -> Errors]
                 /\ \A u \in Sessions \ {s} : error'[u] = error[u]
  BY DEF Reject, Goto, IInv, TypeOK
<1> HIDE DEF Refused
<1>1. TypeOK'
  <2>1. decoded \in Accounts \cup {Null}
    BY <1>a DEF Token
  <2>2. /\ user' \in [Sessions -> Accounts \cup {Null}]
        /\ pc' \in [Sessions -> {"idle", "verify", "query", "compare", "sign", "store", "respond"}]
        /\ error' \in [Sessions -> Errors]
    BY <1>b, <1>c, <2>1 DEF IInv, TypeOK, Refused
  <2> QED BY <1>a, <2>2 DEF IInv, TypeOK, session
<1>2. StageInv'
  <2>1. CASE Refused
    BY <2>1, <1>a, <1>c DEF IInv, TypeOK, StageInv, session, Refused
  <2>2. CASE Passed
    <3>1. /\ pc'[s] = "sign" => op = "regenerate-token"
          /\ pc'[s] = "query" => op = "AA_TAP"
          /\ pc'[s] = "store" => op \in {"NA", "AA_TO", "AA_TAP"}
          /\ pc'[s] \in {"sign", "query", "store"}
          /\ op # "NA" => user'[s] # Null
      BY <2>2, <1>a DEF IInv, TypeOK, Request
    <3>2. error'[s] = "null" /\ req'[s] = req[s] /\ token'[s] = token[s] /\ user'[s] \in {user[s], decoded}
      BY <2>2, <1>a DEF IInv, TypeOK, StageInv, session
    <3>3. \A u \in Sessions \ {s} : /\ pc'[u] = pc[u] /\ user'[u] = user[u] /\ error'[u] = error[u]
                                     /\ req'[u] = req[u] /\ token'[u] = token[u]
      BY <2>2, <1>a DEF IInv, TypeOK, session
    <3> QED BY <3>1, <3>2, <3>3, <1>a DEF IInv, StageInv
  <2> QED BY <1>b, <2>1, <2>2
<1>3. MatchInv'
  BY DEF VerifyToken, Goto, Reject, session, IInv, TypeOK, StageInv, MatchInv, Row, Token, Request
<1>4. LoginInv'
  <2>1. CASE Refused
    BY <2>1, <1>a, <1>c DEF IInv, TypeOK, LoginInv, session, Refused
  <2>2. CASE Passed
    <3>1. decoded # Null => decoded \in loggedIn
      BY <1>a, <2>2 DEF IInv, LoginInv
    <3> QED BY <2>2, <3>1, <1>a DEF IInv, TypeOK, LoginInv, session
  <2> QED BY <1>b, <2>1, <2>2
<1>5. TimeInv'
  <2>1. CASE Refused
    BY <2>1, <1>a, <1>c DEF IInv, TypeOK, TimeInv, session, Refused
  <2>2. CASE Passed
    <3>1. since[s] \in Nat /\ t.exp \in Nat /\ since[s] <= now
      BY <1>a DEF IInv, TypeOK, TimeInv, Token
    <3>2. t.kind = "unreadable" => op = "NA" /\ user'[s] = Null
      BY <2>2, <1>a DEF IInv, TypeOK
    <3>3. \A u \in Sessions \ {s} : /\ pc'[u] = pc[u] /\ user'[u] = user[u] /\ error'[u] = error[u]
                                     /\ req'[u] = req[u] /\ token'[u] = token[u] /\ since'[u] = since[u]
      BY <2>2, <1>a DEF IInv, TypeOK, session
    <3>4. req' = req /\ token' = token /\ since' = since /\ now' = now
      BY <1>a DEF session
    <3>5. /\ t # Null => t.kind \in {"signed", "unreadable"}
          /\ t # Null /\ t.kind = "signed" => now < t.exp
      BY <2>2, <1>a DEF IInv, TypeOK
    <3>6. op # "login" /\ now \in Nat
      BY <1>a
    <3> QED BY <3>1, <3>2, <3>3, <3>4, <3>5, <3>6 DEF IInv, TimeInv
  <2> QED BY <1>b, <2>1, <2>2
<1> QED BY <1>1, <1>2, <1>3, <1>4, <1>5 DEF IInv

(* IInv is kept when the row of the account is read. *)
LEMMA GetHashInv ==
    ASSUME NEW s \in Sessions, IInv, GetHash(s)
    PROVE  IInv'
<1> USE TokensAssumption
<1>1. TypeOK'
  <2>1. /\ pc' \in [Sessions -> {"idle", "verify", "query", "compare", "sign", "store", "respond"}]
        /\ error' \in [Sessions -> Errors]
    BY DEF GetHash, Goto, Reject, Errors, IInv, TypeOK
  <2>2. user' \in [Sessions -> Accounts \cup {Null}] /\ hash' \in [Sessions -> Passwords \cup {Null}]
    BY DEF GetHash, Found, IInv, TypeOK, Row
  <2>3. UNCHANGED <<accounts, now, issued, session, matched, loggedIn>>
    BY DEF GetHash
  <2> QED BY <2>1, <2>2, <2>3 DEF IInv, TypeOK, session
<1>2. StageInv'
  BY DEF GetHash, Goto, Reject, Found, session, IInv, TypeOK, StageInv, Row, Token, Request
<1>3. MatchInv'
  BY DEF GetHash, Goto, Reject, Found, session, IInv, TypeOK, StageInv, MatchInv, Row, Token, Request, Fit
<1>4. LoginInv'
  BY DEF GetHash, Goto, Reject, Found, session, IInv, TypeOK, StageInv, LoginInv, TimeInv, Row, Token, Request
<1>5. TimeInv'
  BY DEF GetHash, Goto, Reject, Found, session, IInv, TypeOK, StageInv, TimeInv, Row, Token, Request
<1> QED BY <1>1, <1>2, <1>3, <1>4, <1>5 DEF IInv

(* IInv is kept when the passwords are compared. *)
LEMMA CompareInv ==
    ASSUME NEW s \in Sessions, IInv, Compare(s)
    PROVE  IInv'
<1> USE TokensAssumption
<1>1. TypeOK'
  <2>1. /\ user' \in [Sessions -> Accounts \cup {Null}] /\ hash' \in [Sessions -> Passwords \cup {Null}]
        /\ pc' \in [Sessions -> {"idle", "verify", "query", "compare", "sign", "store", "respond"}]
        /\ error' \in [Sessions -> Errors]
    BY DEF Compare, Goto, Reject, Errors, IInv, TypeOK, Row
  <2>2. UNCHANGED <<accounts, now, issued, session, matched>> /\ loggedIn' \subseteq Accounts
    BY DEF Compare, IInv, TypeOK, StageInv
  <2> QED BY <2>1, <2>2 DEF IInv, TypeOK, session
<1>2. StageInv'
  BY DEF Compare, Goto, Reject, session, IInv, TypeOK, StageInv, Row, Token, Request
<1>3. MatchInv'
  BY DEF Compare, Goto, Reject, session, IInv, TypeOK, StageInv, MatchInv, Row, Token, Request, Fit
<1>4. LoginInv'
  BY DEF Compare, Goto, Reject, session, IInv, TypeOK, StageInv, LoginInv, TimeInv, Row, Token, Request
<1>5. TimeInv'
  BY DEF Compare, Goto, Reject, session, IInv, TypeOK, StageInv, TimeInv, Row, Token, Request
<1> QED BY <1>1, <1>2, <1>3, <1>4, <1>5 DEF IInv

(* IInv is kept when a token is signed. *)
LEMMA SignInv ==
    ASSUME NEW s \in Sessions, IInv, Sign(s)
    PROVE  IInv'
<1> USE TokensAssumption
<1>1. TypeOK'
  BY DEF Sign, Goto, session, IInv, TypeOK, StageInv, Row, Token, Request, Change, Errors
<1>2. StageInv'
  BY DEF Sign, Goto, session, IInv, TypeOK, StageInv, Row, Token, Request
<1>3. MatchInv'
  BY DEF Sign, Goto, session, IInv, TypeOK, StageInv, MatchInv, Row, Token, Request, Fit
<1>4. LoginInv'
  BY DEF Sign, Goto, session, IInv, TypeOK, StageInv, LoginInv, TimeInv, Row, Token, Request
<1>5. TimeInv'
  BY DEF Sign, Goto, session, IInv, TypeOK, StageInv, TimeInv, Row, Token, Request
<1> QED BY <1>1, <1>2, <1>3, <1>4, <1>5 DEF IInv

(* IInv is kept when the rows change. *)
LEMMA StoreInv ==
    ASSUME NEW s \in Sessions, IInv, Store(s)
    PROVE  IInv'
<1> USE TokensAssumption
<1>1. TypeOK'
  <2>1. accounts' \in [Accounts -> Row]
    <3>1. CASE req[s].op = "AA_TAP" /\ StoreError(s) = "null" /\ accounts' = [accounts EXCEPT ![user[s]] = Changed(@, req[s].change)]
      <4>1. user[s] \in Accounts /\ req[s].change \in Change
        BY <3>1 DEF Store, IInv, TypeOK, StageInv, Request
      <4>2. ASSUME NEW row \in Row, NEW c \in Change PROVE Changed(row, c) \in Row
        <5>1. CASE c.column = "email"
          BY <5>1 DEF Changed, Change, Row
        <5>2. CASE c.column = "password"
          BY <5>2 DEF Changed, Change, Row
        <5>3. CASE c.column = "closed"
          BY <5>3 DEF Changed, Row
        <5> QED BY <5>1, <5>2, <5>3 DEF Change
      <4>3. Changed(accounts[user[s]], req[s].change) \in Row
        BY <4>1, <4>2 DEF IInv, TypeOK
      <4> QED BY <3>1, <4>1, <4>3 DEF IInv, TypeOK
    <3>2. CASE accounts' = accounts
      BY <3>2 DEF IInv, TypeOK
    <3> QED BY <3>1, <3>2 DEF Store
  <2>2. /\ pc' \in [Sessions -> {"idle", "verify", "query", "compare", "sign", "store", "respond"}]
        /\ error' \in [Sessions -> Errors] /\ matched' \in [Sessions -> SUBSET Accounts]
    BY DEF Store, Goto, StoreError, Errors, Fit, IInv, TypeOK
  <2> QED BY <2>1, <2>2 DEF Store, session, IInv, TypeOK
<1>2. StageInv'
  BY DEF Store, Goto, session, IInv, TypeOK, StageInv, Row, Token, Request
<1>3. MatchInv'
  BY DEF Store, Goto, session, IInv, TypeOK, StageInv, MatchInv, Row, Token, Request, Fit
<1>4. LoginInv'
  BY DEF Store, Goto, session, IInv, TypeOK, StageInv, LoginInv, TimeInv, Row, Token, Request
<1>5. TimeInv'
  BY DEF Store, Goto, session, IInv, TypeOK, StageInv, TimeInv, Row, Token, Request
<1> QED BY <1>1, <1>2, <1>3, <1>4, <1>5 DEF IInv

(* IInv is kept when the answer is sent. *)
LEMMA RespondInv ==
    ASSUME NEW s \in Sessions, IInv, Respond(s)
    PROVE  IInv'
<1> USE TokensAssumption
<1>1. TypeOK'
  BY DEF Respond, Goto, session, IInv, TypeOK, StageInv, Row, Token, Request, Change, Errors
<1>2. StageInv'
  BY DEF Respond, Goto, session, IInv, TypeOK, StageInv, Row, Token, Request
<1>3. MatchInv'
  BY DEF Respond, Goto, session, IInv, TypeOK, StageInv, MatchInv, Row, Token, Request, Fit
<1>4. LoginInv'
  BY DEF Respond, Goto, session, IInv, TypeOK, StageInv, LoginInv, TimeInv, Row, Token, Request
<1>5. TimeInv'
  BY DEF Respond, Goto, session, IInv, TypeOK, StageInv, TimeInv, Row, Token, Request
<1> QED BY <1>1, <1>2, <1>3, <1>4, <1>5 DEF IInv

(* IInv is kept when something outside fails. *)
LEMMA FailsInv ==
    ASSUME NEW s \in Sessions, IInv, Fails(s)
    PROVE  IInv'
<1> USE TokensAssumption
<1>1. TypeOK'
  BY DEF Fails, Goto, Reject, session, IInv, TypeOK, StageInv, Row, Token, Request, Change, Errors
<1>2. StageInv'
  BY DEF Fails, Goto, Reject, session, IInv, TypeOK, StageInv, Row, Token, Request
<1>3. MatchInv'
  BY DEF Fails, Goto, Reject, session, IInv, TypeOK, StageInv, MatchInv, Row, Token, Request, Fit
<1>4. LoginInv'
  BY DEF Fails, Goto, Reject, session, IInv, TypeOK, StageInv, LoginInv, TimeInv, Row, Token, Request
<1>5. TimeInv'
  BY DEF Fails, Goto, Reject, session, IInv, TypeOK, StageInv, TimeInv, Row, Token, Request
<1> QED BY <1>1, <1>2, <1>3, <1>4, <1>5 DEF IInv

-----------------------------------------------------------------------------
(* The connections start without a request. *)
LEMMA InitInv == Init => IInv
BY TokensAssumption DEF Init, IInv, TypeOK, StageInv, MatchInv, LoginInv, TimeInv, Token, Errors

(* Time alone makes nothing wrong: what was verified stays verified. *)
LEMMA TickInv == IInv /\ Tick => IInv'
<1> SUFFICES ASSUME IInv, Tick PROVE IInv'
  OBVIOUS
<1> USE TokensAssumption DEF Tick, session, IInv, TypeOK
<1>1. TypeOK' /\ StageInv'
  BY DEF StageInv
<1>2. MatchInv' /\ LoginInv'
  BY DEF MatchInv, Fit, LoginInv
<1>3. TimeInv'
  BY DEF TimeInv
<1> QED BY <1>1, <1>2, <1>3

(* Every step keeps IInv. *)
LEMMA Inductive == IInv /\ [Next]_vars => IInv'
<1> SUFFICES ASSUME IInv, [Next]_vars PROVE IInv'
  OBVIOUS
<1>1. CASE Tick
  BY <1>1, TickInv
<1>2. ASSUME NEW s \in Sessions, Execute(s) PROVE IInv'
  BY <1>2, ExecuteInv
<1>3. ASSUME NEW s \in Sessions, Step(s) PROVE IInv'
  BY <1>3, VerifyTokenInv, GetHashInv, CompareInv, SignInv, StoreInv, RespondInv, FailsInv DEF Step
<1>4. CASE UNCHANGED vars
  BY <1>4 DEF vars, IInv, TypeOK, StageInv, MatchInv, Fit, LoginInv, TimeInv
<1> QED BY <1>1, <1>2, <1>3, <1>4 DEF Next

(* IInv holds always: what is read of a row, or verified of a token, is    *)
(* remembered rightly across the awaits of the handlers.                   *)
THEOREM Invariant == Spec => []IInv
BY InitInv, Inductive, PTL DEF Spec

(* Every variable keeps its type. *)
THEOREM TypeCorrect == Spec => []TypeOK
<1>1. IInv => TypeOK
  BY DEF IInv
<1> QED BY <1>1, Invariant, PTL

(* isUserCredentialsValid and isUserPasswordValid let nobody in with       *)
(* credentials that were out of date when the request came.                *)
THEOREM CredentialsAreCurrent == Spec => []CredentialsWereCurrent
<1>1. IInv => CredentialsWereCurrent
  BY DEF IInv, MatchInv, CredentialsWereCurrent, Accepted, Answered
<1> QED BY <1>1, Invariant, PTL

(* Tokens, renewed however often, go back to a login. *)
THEOREM Authenticity == Spec => []EverybodyLoggedIn
<1>1. IInv => EverybodyLoggedIn
  BY DEF IInv, LoginInv, EverybodyLoggedIn, Accepted, Answered
<1> QED BY <1>1, Invariant, PTL

(* A readable token that had expired or was tampered with is refused, and  *)
(* an unreadable one lets a request in only where none is needed, for      *)
(* nobody.                                                                 *)
THEOREM Refusal == Spec => []BadTokensAreRefused
<1>1. IInv => BadTokensAreRefused
  BY DEF IInv, TimeInv, BadTokensAreRefused, Accepted, Answered
<1> QED BY <1>1, Invariant, PTL
=============================================================================
