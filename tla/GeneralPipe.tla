----------------------------- MODULE GeneralPipe -----------------------------
(***************************************************************************)
(* GeneralPipe.Execute (pipeline.js) for one request to any endpoint, from *)
(* the parameters that the client sends to the answer, through the real    *)
(* templates: SecurityValidate, DataValidate, MediaHandle, Store (build,   *)
(* the statements with their backreferences, prepareResults), APIRespond.  *)
(*                                                                         *)
(* What the database answers to a statement is left open: any number of    *)
(* rows, or an error.  What concurrent requests do is module Marketplace's *)
(* matter, what a failed upload does is MediaHandle's.                     *)
(***************************************************************************)
EXTENDS Endpoints

CONSTANTS
    Choices,    \* the values that a client may send, by the parameter's name
    MaxRows     \* bound: rows that a statement returns

ASSUME GeneralPipeAssumption ==
    /\ MaxRows \in Nat \ {0}
    /\ \A op \in Ops : \A i \in DOMAIN RequestTemplates(op) : RequestTemplates(op)[i].in \in DOMAIN Choices
    /\ \A op \in Ops : Accepts(SQLTemplates(op))    \* else the server does not start

VARIABLES
    op,         \* the endpoint
    input,      \* inputObject
    given,      \* how many of its parameters the client has thought of
    phase,      \* where Execute is
    validated,  \* validated_out
    built,      \* what build returned
    results,    \* the rows of the statements so far
    answer,     \* the rows in the fields of the answer
    error       \* error_final

vars == <<op, input, given, phase, validated, built, results, answer, error>>

Empty == <<>>    \* no parameters, no fields

Init ==
    /\ op \in Ops
    /\ input = Empty
    /\ given = 0
    /\ phase = "client"
    /\ validated = Empty
    /\ built = Nothing
    /\ results = <<>>
    /\ answer = Empty
    /\ error = "null"

With(f, key, value) == [k \in DOMAIN f \cup {key} |-> IF k = key THEN value ELSE f[k]]

Reject(e) == error' = e /\ phase' = "respond"
-----------------------------------------------------------------------------
(* The client gives or leaves out one parameter after the other; a query   *)
(* string has strings only.                                                *)
GiveParameter ==
    LET name == RequestTemplates(op)[given + 1].in IN
    /\ phase = "client"
    /\ given < Len(RequestTemplates(op))
    /\ given' = given + 1
    /\ \/ UNCHANGED input
       \/ /\ name # "accountID" \/ SecuritySchema(op) = "NA"
          /\ \E v \in Choices[name] :
               /\ Method(op) = "query" => v.kind \in Strings
               /\ input' = With(input, name, v)
    /\ UNCHANGED <<op, phase, validated, built, results, answer, error>>

(* SecurityValidate lets the request in, with the account of its token if  *)
(* it has one (a NA request need not), or refuses it.                      *)
SecurityValidate ==
    /\ phase = "client"
    /\ given = Len(RequestTemplates(op))
    /\ \/ /\ input' = With(input, "accountID", Value("digits"))
          /\ phase' = "validate"
          /\ UNCHANGED error
       \/ /\ SecuritySchema(op) = "NA"
          /\ phase' = "validate"
          /\ UNCHANGED <<input, error>>
       \/ /\ \E e \in AuthenticationErrors : Reject(e)
          /\ UNCHANGED input
       \/ /\ SecuritySchema(op) = "AA_TAP"    \* the query for the password, and what it finds
          /\ \E e \in {"QueryExecutionError", "TypeError"} : Reject(e)
          /\ UNCHANGED input
    /\ UNCHANGED <<op, given, validated, built, results, answer>>

DataValidate ==
    LET processed == Process(RequestTemplates(op), input) IN
    /\ phase = "validate"
    /\ \/ /\ processed.error # "null"
          /\ Reject(processed.error)
          /\ UNCHANGED validated
       \/ /\ processed.error = "null"
          /\ validated' = processed.output
          /\ phase' = IF "media" \in DOMAIN processed.output THEN "media" ELSE "store"
          /\ UNCHANGED error
    /\ UNCHANGED <<op, input, given, built, results, answer>>

(* One url per medium, and its type and place; for no media nothing. *)
MediaHandle ==
    LET All(kind) == List([i \in DOMAIN validated["media"].items |-> Value(kind)])
        urls == With(With(With(validated, "url", All("url")), "mimetype", All("mimetype")),
                     "media_index", All("integer"))
    IN /\ phase = "media"
       /\ validated' = IF validated["media"].items = <<>> THEN validated ELSE urls
       /\ phase' = "store"
       /\ UNCHANGED <<op, input, given, built, results, answer, error>>

(* Store: a list without statements resolves to no results. *)
Store ==
    LET b == Build(SQLTemplates(op), validated) IN
    /\ phase = "store"
    /\ built' = b
    /\ \/ /\ b.error # "null"
          /\ Reject(b.error)
       \/ /\ b.error = "null"
          /\ phase' = IF b.names = <<>> THEN "respond" ELSE "query"
          /\ UNCHANGED error
    /\ UNCHANGED <<op, input, given, validated, results, answer>>

Rows(name, n) ==
    LET columns == SQLTemplates(op).queries[name].returns
    IN [i \in 1..n |-> [statement |-> Len(results) + 1, row |-> i, columns |-> columns]]

(* prepAndReject, by what PostgreSQL complains of. *)
PrepAndReject(complaint) ==
    CASE complaint \in {"23503", "owner_agrees"} -> "ForeignKeyError"
      [] complaint = "23505"                     -> "UniqueConstraintError"
      [] OTHER                                   -> "QueryExecutionError"

(* complexQuery needs a client of the pool, once, before its BEGIN. *)
ClientNotAvailable ==
    /\ phase = "query"
    /\ results = <<>>
    /\ Len(built.names) > 1
    /\ Reject("DBClientNotAvailableError")
    /\ UNCHANGED <<op, input, given, validated, built, results, answer>>

(* One statement.  A backreference to a list without rows fails; so may    *)
(* the statement.  A statement without RETURNING gives no rows.            *)
NextQuery ==
    LET i == Len(results) + 1
        name == built.names[i]
        unresolved == \E j \in DOMAIN built.values[i] :
                         LET v == built.values[i][j] IN v.from = "row" /\ results[v.statement] = <<>>
        most == IF SQLTemplates(op).queries[name].returns = {} THEN 0 ELSE MaxRows
    IN /\ phase = "query"
       /\ \/ /\ unresolved
             /\ Reject("BackreferenceError")
             /\ UNCHANGED results
          \/ /\ ~unresolved
             /\ \E complaint \in {"23503", "owner_agrees", "23505", "other"} : Reject(PrepAndReject(complaint))
             /\ UNCHANGED results
          \/ /\ ~unresolved
             /\ \E n \in 0..most : results' = Append(results, Rows(name, n))
             /\ phase' = IF i = Len(built.names) THEN "prepare" ELSE "query"
             /\ UNCHANGED error
       /\ UNCHANGED <<op, input, given, validated, built, answer>>

Prepare ==
    LET prepared == PrepareResults(SQLTemplates(op), built.names, results) IN
    /\ phase = "prepare"
    /\ error' = prepared.error
    /\ results' = IF prepared.error = "null" THEN prepared.results ELSE results
    /\ phase' = "respond"
    /\ UNCHANGED <<op, input, given, validated, built, answer>>

Status == GetStatus(ErrorMap(op), error)

(* APIRespond *)
APIRespond ==
    /\ phase = "respond"
    /\ answer' = IF Status \in 200..299 THEN GetResponse(ResponseParameters(op), results) ELSE Empty
    /\ phase' = "done"
    /\ UNCHANGED <<op, input, given, validated, built, results, error>>

Execute == GiveParameter \/ SecurityValidate \/ DataValidate \/ MediaHandle \/ Store \/ ClientNotAvailable
             \/ NextQuery \/ Prepare \/ APIRespond

Terminating == phase = "done" /\ UNCHANGED vars

Next == Execute \/ Terminating

Spec == Init /\ [][Next]_vars
-----------------------------------------------------------------------------
(* Properties *)

(* What DataValidate lets through can be built and sent.  No statement is  *)
(* missing a parameter that every row needs, none gets a list (of urls,    *)
(* say) in place of one of its items, and every backreference is to an     *)
(* earlier statement, which returns the column it asks for (the templates  *)
(* name it by hand, and so does res[0][0]['addressid']).  A location that  *)
(* is a list, [5] say, is excused: it is a positive integer to parseFloat  *)
(* and an object to typeof, so the address is inserted without a country,  *)
(* which the database refuses.                                             *)
StatementsAreComplete ==
    phase \in {"query", "prepare", "respond", "done"} =>
        /\ built.error # "QueryConstructionError"
        /\ \A i \in DOMAIN built.names : \A j \in DOMAIN built.values[i] :
             LET v == built.values[i][j]
                 constructor == SQLTemplates(op).queries[built.names[i]].values[j]
             IN /\ v.from = "row" =>
                     /\ v.statement < i
                     /\ v.column \in SQLTemplates(op).queries[built.names[v.statement]].returns
                     /\ constructor.from = "query" => built.names[v.statement] = constructor.query
                /\ (v.from = "input" /\ constructor.from = "input"
                    /\ constructor.key \in {"url", "mimetype", "media_index"}) => v.value.kind # "list"
                /\ v.from = "null" =>
                     \/ /\ constructor.from = "part" /\ constructor.key = "location"
                        /\ validated["location"].kind = "list"
                     \/ /\ constructor.from = "input"
                        /\ constructor.key \in {"accountID", "receiverID", "categoryID", "region"}

(* The first row that has a parameter's fields, and the query it is of.    *)
FirstSource(parameter) ==
    LET has(i) == {n \in DOMAIN results[i] : parameter.fields \subseteq results[i][n].columns}
        queries == {i \in DOMAIN results : has(i) # {}}
        first == CHOOSE i \in queries : \A j \in queries : i <= j
    IN IF queries = {} THEN <<>>
       ELSE IF parameter.get = "rows" THEN [n \in 1..Len(results[first]) |-> results[first][n]]
       ELSE <<results[first][1]>>

(* "get the first occurence of it in the inputArray" (the comments of      *)
(* getResponse and Documentation.md), although the code goes on to the     *)
(* last query: no two queries of a template compete for a field of the     *)
(* answer, and a list of rows is never put together from two queries.      *)
AnswersComeFromOneQuery ==
    (phase = "done" /\ Status \in 200..299) =>
        \A i \in DOMAIN ResponseParameters(op) :
            LET p == ResponseParameters(op)[i] IN
            IF p.out \in DOMAIN answer THEN answer[p.out] = FirstSource(p) ELSE FirstSource(p) = <<>>
=============================================================================
