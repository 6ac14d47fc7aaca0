----------------------------- MODULE SQLTemplate -----------------------------
(***************************************************************************)
(* classes/sqltemplate.js: what its constructor accepts, build and         *)
(* prepareResults, for any template.                                       *)
(*                                                                         *)
(* A template is a record of its queries (by name), its order and its      *)
(* options.  The value of a statement's parameter is a value of the input  *)
(* (see RequestTemplate), NULL, or the column of a row that an earlier     *)
(* statement is to return.                                                 *)
(***************************************************************************)
EXTENDS RequestTemplate

LOCAL INSTANCE SequencesExt

(* A query, with the columns that it returns; its condition and its times  *)
(* are callables of the input, given by what they look at.                 *)
Query(values, returns) ==
    [condition |-> "always", on |-> "", times |-> "", values |-> values, returns |-> returns]
IfGiven(key, query) == [query EXCEPT !.condition = "in", !.on = key]          \* key in inputObject
IfObject(key, query) == [query EXCEPT !.condition = "object", !.on = key]     \* typeof inputObject[key]
ForEach(key, query) == [IfGiven(key, query) EXCEPT !.times = key]             \* inputObject[key].length

(* Value constructors: from_input, from_query, and the three callables of  *)
(* the templates.                                                          *)
FromInput(key) == [from |-> "input", key |-> key]
FromQuery(query, column) == [from |-> "query", query |-> query, column |-> column]
PartOf(key) == [from |-> "part", key |-> key]        \* inputObject[key]['country']
LengthOf(key) == [from |-> "length", key |-> key]    \* inputObject[key].length
LocationID == [from |-> "location"]                  \* the new address, or inputObject['location']

FromInputs(keys) == [i \in DOMAIN keys |-> FromInput(keys[i])]

Template(queries, order) ==
    [queries |-> queries, order |-> order, dropFromResults |-> {},
     errorOnEmptyResponse |-> FALSE, errorOnEmptyTransaction |-> FALSE]
ErrorOnEmptyResponse(t) == [t EXCEPT !.errorOnEmptyResponse = TRUE]
ErrorOnEmptyTransaction(t) == [t EXCEPT !.errorOnEmptyTransaction = TRUE]
DropFromResults(names, t) == [t EXCEPT !.dropFromResults = names]
-----------------------------------------------------------------------------
(* The constructor: dropped queries exist, and not all of them are dropped *)
(* when an empty response is an error; backreferences are to queries that  *)
(* come earlier in the order.                                              *)
Accepts(t) ==
    LET names == ToSet(t.order)
        Earlier(i) == {t.order[j] : j \in 1..(i - 1)}
    IN /\ ~(t.order = <<>> /\ t.errorOnEmptyTransaction)
       /\ t.dropFromResults \subseteq names
       /\ t.errorOnEmptyResponse => ~(names \subseteq t.dropFromResults)
       /\ names \subseteq DOMAIN t.queries
       /\ \A i \in DOMAIN t.order :
            LET values == t.queries[t.order[i]].values IN
            \A j \in DOMAIN values : values[j].from = "query" => values[j].query \in Earlier(i)
-----------------------------------------------------------------------------
(* build *)

Runs(query, input) ==
    CASE query.condition = "always" -> TRUE
      [] query.condition = "in"     -> query.on \in DOMAIN input
      [] query.condition = "object" -> query.on \in DOMAIN input /\ input[query.on].kind \in Objects

(* The number of executions; a times function that throws has none. *)
TimesThrows(query, input) == query.times # "" /\ query.times \notin DOMAIN input
QueryTimes(query, input) == IF query.times = "" THEN 1 ELSE Len(input[query.times].items)

AllIndexes(names, name) == SelectSeq([i \in DOMAIN names |-> i], LAMBDA i : names[i] = name)

InputValue(v) == [from |-> "input", value |-> v]
NullValue == [from |-> "null"]
RowValue(statement, column) == [from |-> "row", statement |-> statement, column |-> column]

(* A list in the input whose length is the number of executions is spread  *)
(* over them; any other is given whole to each.                            *)
SpreadNever(v, i, n) == v    \* mutant: the list whole to each execution
Spread(v, i, n) == IF v.kind = "list" /\ Len(v.items) = n THEN v.items[i] ELSE v

(* A constructor throws for a backreference that did not run, or that ran  *)
(* neither once nor as often as this query, and for a part of null.        *)
Throws(constructor, n, names, input) ==
    CASE constructor.from = "query" -> Len(AllIndexes(names, constructor.query)) \notin {1, n}
      [] constructor.from = "part"  -> \/ constructor.key \notin DOMAIN input
                                       \/ input[constructor.key].kind = "null"
      [] OTHER                      -> FALSE

(* The parameter of execution i of n, when names have been listed before.  *)
Construct(constructor, i, n, names, input) ==
    CASE constructor.from = "input" ->
           IF constructor.key \in DOMAIN input THEN InputValue(Spread(input[constructor.key], i, n)) ELSE NullValue
      [] constructor.from = "query" ->
           LET indexes == AllIndexes(names, constructor.query)
           IN RowValue(indexes[IF Len(indexes) = 1 THEN 1 ELSE i], constructor.column)
      [] constructor.from = "part" ->
           IF input[constructor.key].kind = "place" THEN InputValue(Value("text")) ELSE NullValue
      [] constructor.from = "length" -> InputValue(Value("integer"))
      [] constructor.from = "location" ->
           IF "create_address" \in ToSet(names) THEN RowValue(1, "addressid") ELSE InputValue(input["location"])

(* The statements of one query of the order. *)
AddQuery(t, input, built, name) ==
    LET query == t.queries[name]
        n == QueryTimes(query, input)
        throws == \/ TimesThrows(query, input)
                  \/ \E j \in DOMAIN query.values : Throws(query.values[j], n, built.names, input)
        Parameters(i) ==
            [j \in DOMAIN query.values |-> Construct(query.values[j], i, n, built.names, input)]
    IN IF built.error # "null" \/ ~Runs(query, input) THEN built
       ELSE IF throws THEN [built EXCEPT !.error = "QueryConstructionError"]
       ELSE [built EXCEPT !.names = @ \o [i \in 1..n |-> name],
                          !.values = @ \o [i \in 1..n |-> Parameters(i)]]

Nothing == [error |-> "null", names |-> <<>>, values |-> <<>>]

Build(t, input) ==
    LET built == FoldLeft(LAMBDA b, name : AddQuery(t, input, b, name), Nothing, t.order) IN
    IF built = Nothing /\ t.errorOnEmptyTransaction THEN [Nothing EXCEPT !.error = "EmptyQueryError"]
    ELSE built
-----------------------------------------------------------------------------
(* prepareResults: results is the list of rows of each statement. *)
PrepareResultsKeepingAll(t, names, results) ==    \* mutant: dropFromResults is ignored
    [error |-> IF t.errorOnEmptyResponse /\ \A i \in DOMAIN results : results[i] = <<>>
               THEN "EmptyResponseError" ELSE "null",
     results |-> results]
PrepareResults(t, names, results) ==
    LET kept == SelectSeq([i \in DOMAIN results |-> i], LAMBDA i : names[i] \notin t.dropFromResults)
        out == [i \in DOMAIN kept |-> results[kept[i]]]
    IN [error |-> IF t.errorOnEmptyResponse /\ \A i \in DOMAIN out : out[i] = <<>>
                  THEN "EmptyResponseError" ELSE "null",
        results |-> out]
=============================================================================
