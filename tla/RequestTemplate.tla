--------------------------- MODULE RequestTemplate ---------------------------
(***************************************************************************)
(* classes/requesttemplate.js, and the predicates of                       *)
(* schemas/request-schemas.js that its templates are made of.              *)
(*                                                                         *)
(* A value that a client sends is reduced to its kind: what it is to the   *)
(* predicates.  An input is a function from the names that are there to    *)
(* their values.                                                           *)
(***************************************************************************)
EXTENDS Naturals, Sequences

Value(kind) == [kind |-> kind, items |-> <<>>]
List(items) == [kind |-> "list", items |-> items]

Strings == {"empty", "text", "digits", "email", "strong", "adult", "child", "condition",
            "image", "video", "audio"}    \* the last three: data URIs
Objects == {"place", "object", "null", "list"}    \* typeof value === 'object'
Kinds == Strings \cup Objects \cup {"integer", "self", "hash", "url", "mimetype"}
(* "self" is an integer too, the one that is the client's own accountID. *)

Is(test) == IF test THEN "true" ELSE "false"
Unless(test, verdict) == IF test THEN "throws" ELSE verdict

(* The predicates: "true", "false", or "throws".  parseFloat reads the     *)
(* number that a string, or a list printed as one, begins with: so do the  *)
(* dates.                                                                  *)
IsNonEmptyString(v) == Is(v.kind \in Strings \ {"empty"})
IsPosInt(v) ==
    Is(\/ v.kind \in {"integer", "self", "digits", "adult", "child"}
       \/ v.kind = "list" /\ v.items # <<>> /\ Head(v.items).kind \in {"integer", "digits"})
IsEmail(v) == Is(v.kind = "email")
IsStrong(v) == Unless(v.kind # "strong", "true")
IsDate(v) == Is(v.kind \in {"adult", "child"})
IsOldEnough(v) == Unless(v.kind = "child", "true")
IsLocation(v) == Unless(v.kind = "null", Is(v.kind = "place"))
IsLocationOrID(v) == IF IsPosInt(v) = "true" THEN "true" ELSE IsLocation(v)
IsCondition(v) == Is(v.kind = "condition")
IsImage(v) == Unless(v.kind \in {"video", "audio"}, Is(v.kind = "image"))
IsImageOrVideo(v) == Unless(v.kind = "audio", Is(v.kind \in {"image", "video"}))
IsAnotherAccount(v) == Is(v.kind # "self")    \* a string is never === to a number
IsArray(v) == Is(v.kind = "list")

(* Array.every, which goes as far as the first verdict that is not "true". *)
Every(verdicts) ==
    LET no == {i \in DOMAIN verdicts : verdicts[i] # "true"}
    IN IF no = {} THEN "true" ELSE verdicts[CHOOSE i \in no : \A j \in no : i <= j]

Condition(name, v) ==
    CASE name = "IsNonEmptyString" -> IsNonEmptyString(v)
      [] name = "IsPosInt"         -> IsPosInt(v)
      [] name = "IsEmail"          -> IsEmail(v)
      [] name = "IsStrong"         -> IsStrong(v)
      [] name = "IsDate"           -> IsDate(v)
      [] name = "IsOldEnough"      -> IsOldEnough(v)
      [] name = "IsLocation"       -> IsLocation(v)
      [] name = "IsLocationOrID"   -> IsLocationOrID(v)
      [] name = "IsCondition"      -> IsCondition(v)
      [] name = "IsImage"          -> IsImage(v)
      [] name = "IsAnotherAccount" -> IsAnotherAccount(v)
      [] name = "IsArray"          -> IsArray(v)
      [] name = "EveryImageOrVideo" -> Every([i \in DOMAIN v.items |-> IsImageOrVideo(v.items[i])])
-----------------------------------------------------------------------------
(* Parameters of a template; out is the name that leaves process. *)

Required(name, conditions) == [in |-> name, out |-> name, required |-> TRUE, conditions |-> conditions]
Optional(name, conditions) == [Required(name, conditions) EXCEPT !.required = FALSE]
As(out, parameter) == [parameter EXCEPT !.out = out]

(* A password leaves as its hash, and a picture as a list of media. *)
Sanitise(parameter, v) ==
    CASE parameter.out = "passhash" -> Value("hash")
      [] parameter.in = "picture"   -> List(<<v>>)
      [] OTHER                      -> v

(* What process throws over a parameter. *)
Offence(parameter, input) ==
    IF parameter.in \notin DOMAIN input
    THEN IF parameter.required THEN "AbsentArgumentError" ELSE "null"
    ELSE LET v == input[parameter.in]
             verdict == Every([i \in DOMAIN parameter.conditions |-> Condition(parameter.conditions[i], v)])
         IN CASE verdict = "true"   -> "null"
              [] verdict = "false"  -> "InvalidArgumentError"
              [] verdict = "throws" -> "UnprocessableArgumentError"

(* RequestTemplate.process: the first offence is thrown; else the output   *)
(* has the parameters that are there and nothing else.                     *)
Process(template, input) ==
    LET bad == {i \in DOMAIN template : Offence(template[i], input) # "null"}
        given == {i \in DOMAIN template : template[i].in \in DOMAIN input}
        At(out) == template[CHOOSE i \in given : template[i].out = out]
    IN IF bad # {}
       THEN [error |-> Offence(template[CHOOSE i \in bad : \A j \in bad : i <= j], input), output |-> <<>>]
       ELSE [error |-> "null",
             output |-> [out \in {template[i].out : i \in given} |-> Sanitise(At(out), input[At(out).in])]]
=============================================================================
