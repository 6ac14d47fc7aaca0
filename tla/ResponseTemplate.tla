-------------------------- MODULE ResponseTemplate ---------------------------
(***************************************************************************)
(* classes/responsetemplate.js and classes/errors.js: the status of an     *)
(* answer, and which rows of the results its fields are taken from.        *)
(*                                                                         *)
(* A row is reduced to the columns it has and to where it comes from.      *)
(***************************************************************************)
EXTENDS Naturals, Sequences

LOCAL INSTANCE SequencesExt

(* classes/errors.js: the names of the errors, which all of them set, and  *)
(* the classes that others extend.                                         *)
ValidationErrors ==
    {"AbsentArgumentError", "UnprocessableArgumentError", "InvalidArgumentError", "DirtyArgumentError"}
AuthenticationErrors ==
    {"PrivateKeyReadError", "AlreadyAuthenticatedError", "UnauthenticatedUserError", "UnauthorizedUserError",
     "InvalidCredentialsError", "InvalidTokenError", "TamperedTokenError", "ExpiredTokenError",
     "NotBeforeTokenError", "ServerException"}
QueryExecutionErrors == {"QueryExecutionError", "ForeignKeyError", "UniqueConstraintError"}
QueryErrors ==
    {"QueryError", "QueryTemplateError", "EmptyQueryError", "EmptyResponseError", "QueryConstructionError",
     "BackreferenceError"} \cup QueryExecutionErrors
PipelineErrors ==
    {"PipelineInitialisationError", "MissingTemplateError", "PipelineExecutionError", "TemplateError",
     "ValidationError", "DatabaseConnectionError", "DBClientNotAvailableError"}
UnlistedErrors == {"EmailDeliveryError", "EmailConfigurationReadError", "FailedUploadError"}

ErrorNames == ValidationErrors \cup AuthenticationErrors \cup QueryErrors \cup PipelineErrors \cup UnlistedErrors

DefaultStatus(error) ==
    CASE error = "null"                                             -> 200
      [] error = "UnauthorizedUserError"                            -> 403
      [] error \in AuthenticationErrors \ {"UnauthorizedUserError", "PrivateKeyReadError", "ServerException"} -> 401
      [] error = "UnprocessableArgumentError"                       -> 422
      [] error \in (ValidationErrors \cup {"ValidationError"}) \ {"UnprocessableArgumentError"} -> 400
      [] error \in {"EmptyResponseError", "ForeignKeyError"}        -> 404
      [] error = "UniqueConstraintError"                            -> 409
      [] OTHER                                                      -> 500

(* getStatus: errorMap is a function from the errors that it lists. *)
GetStatus(errorMap, error) == IF error \in DOMAIN errorMap THEN errorMap[error] ELSE DefaultStatus(error)
-----------------------------------------------------------------------------
(* The parameters of a template. *)
Field(out, field) == [out |-> out, get |-> "field", fields |-> {field}]
RowsWithFields(out, fields) == [out |-> out, get |-> "rows", fields |-> fields]
OneRowWithFields(out, fields) == [out |-> out, get |-> "row", fields |-> fields]

(* The rows of each query that have the fields of a parameter, for the     *)
(* queries where there are any.                                            *)
Hits(parameter, results) ==
    LET Matching(rows) == SelectSeq(rows, LAMBDA row : parameter.fields \subseteq row.columns)
    IN SelectSeq([i \in DOMAIN results |-> Matching(results[i])], LAMBDA rows : rows # <<>>)

(* The rows that a parameter takes its value from: some() stops at the     *)
(* first row of a query, but forEach goes on to the next query, so the     *)
(* last query that has the field wins.                                     *)
Source(parameter, results) ==
    LET hits == Hits(parameter, results) IN
    IF parameter.get = "rows" THEN FlattenSeq(hits)
    ELSE IF hits = <<>> THEN <<>> ELSE <<Head(Last(hits))>>

(* getResponse: rows_with_fields is there even when it is an empty list. *)
GetResponse(parameters, results) ==
    LET outs == {parameters[i].out : i \in {j \in DOMAIN parameters :
                    parameters[j].get = "rows" \/ Source(parameters[j], results) # <<>>}}
    IN [out \in outs |-> Source(parameters[CHOOSE i \in DOMAIN parameters : parameters[i].out = out], results)]
=============================================================================
