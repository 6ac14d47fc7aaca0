----------------------------- MODULE MediaHandle -----------------------------
(***************************************************************************)
(* Pipeline.MediaHandle (classes/pipeline.js) between DataValidate and     *)
(* Store of GeneralPipe.Execute (pipeline.js): the media of a request are  *)
(* uploaded to the media service all at once, and the callbacks come back  *)
(* in any order, mixed with those of other requests in the same process.   *)
(*                                                                         *)
(* The media service is external.  It keeps what it has received, gives    *)
(* each file a url of its own, and answers each upload once: with a        *)
(* result, or with an error and no result.                                 *)
(***************************************************************************)
EXTENDS Naturals, FiniteSets, Sequences

CONSTANTS
    Requests,   \* the requests of this process
    MaxMedia,   \* bound: the media of one request
    Missing     \* undefined

(* The url of what item i of request r became. *)
Url == Requests \X (1..MaxMedia)

ASSUME MediaAssumption == MaxMedia \in Nat /\ Missing \notin Url

VARIABLES
    alive,      \* the Node process has not died
    pc,         \* per request: where Execute is
    media,      \* per request: how many media it brings
    uploading,  \* the items whose callback has not come
    hosted,     \* the items that the media service keeps
    out,        \* per request: out of MediaHandle, by item
    promise,    \* per request: the promise of MediaHandle
    rows,       \* per request: the urls that Store has put in the database
    status      \* per request: the status of the answer

vars == <<alive, pc, media, uploading, hosted, out, promise, rows, status>>

NoAnswer == 0
Items(r) == {r} \X (1..media[r])
Urls(r) == [i \in 1..media[r] |-> <<r, i>>]

Init ==
    /\ alive = TRUE
    /\ pc = [r \in Requests |-> "validate"]
    /\ media \in [Requests -> 0..MaxMedia]
    /\ uploading = {}
    /\ hosted = {}
    /\ out = [r \in Requests |-> <<>>]
    /\ promise = [r \in Requests |-> "none"]
    /\ rows = [r \in Requests |-> <<>>]
    /\ status = [r \in Requests |-> NoAnswer]
-----------------------------------------------------------------------------
StartWithoutEmptyCase(r) ==    \* mutant: mediaObjects.length === 0 not resolved
    /\ alive /\ pc[r] = "validate"
    /\ pc' = [pc EXCEPT ![r] = "media"]
    /\ uploading' = uploading \cup Items(r)
    /\ out' = [out EXCEPT ![r] = [i \in 1..media[r] |-> Missing]]
    /\ promise' = [promise EXCEPT ![r] = "pending"]
    /\ UNCHANGED <<alive, media, hosted, rows, status>>

(* MediaHandle itself: start every upload.  No callback runs before it     *)
(* returns, so its err is still null at each of them.  With no media the   *)
(* promise resolves with [] at once.                                       *)
StartUploads(r) ==
    /\ alive /\ pc[r] = "validate"
    /\ pc' = [pc EXCEPT ![r] = "media"]
    /\ uploading' = uploading \cup Items(r)
    /\ out' = [out EXCEPT ![r] = [i \in 1..media[r] |-> Missing]]
    /\ promise' = [promise EXCEPT ![r] = IF media[r] = 0 THEN "resolved" ELSE "pending"]
    /\ UNCHANGED <<alive, media, hosted, rows, status>>

FilledByArrival(o, r, i) ==    \* mutant: counts the callbacks instead of taking index
    LET n == CHOOSE j \in DOMAIN o : o[j] = Missing /\ \A k \in 1..(j - 1) : o[k] # Missing
    IN [o EXCEPT ![n] = <<r, i>>]

FilledByPush(o, r, i) == Append(o, <<r, i>>)    \* mutant: out.push, on the array of empty places

(* The out array once the callback of item i has run. *)
Filled(o, r, i) == [o EXCEPT ![i] = <<r, i>>]

CompleteAtOne(o) == \E i \in DOMAIN o : o[i] # Missing    \* mutant: some instead of every

(* out.every(item => item !== undefined) *)
Complete(o) == \A i \in DOMAIN o : o[i] # Missing

(* The callback of an upload that succeeded. *)
UploadSucceeds(r, i) ==
    /\ alive /\ <<r, i>> \in uploading
    /\ uploading' = uploading \ {<<r, i>>}
    /\ hosted' = hosted \cup {<<r, i>>}
    /\ out' = [out EXCEPT ![r] = Filled(@, r, i)]
    /\ promise' = [promise EXCEPT ![r] = IF @ = "pending" /\ Complete(out'[r]) THEN "resolved" ELSE @]
    /\ UNCHANGED <<alive, pc, media, rows, status>>

UploadFailureIgnored(r, i) ==    \* mutant: the callback does not look at error
    /\ alive /\ <<r, i>> \in uploading
    /\ uploading' = uploading \ {<<r, i>>}
    /\ hosted' \in {hosted, hosted \cup {<<r, i>>}}
    /\ out' = [out EXCEPT ![r] = Filled(@, r, i)]
    /\ promise' = [promise EXCEPT ![r] = IF Complete(out'[r]) THEN "resolved" ELSE @]
    /\ UNCHANGED <<alive, pc, media, rows, status>>

(* The callback of an upload that failed, the file kept or not: it rejects *)
(* the promise and goes on to result.secure_url, where result is           *)
(* undefined.  Nobody catches the TypeError, so the process ends before    *)
(* the rejection reaches the catch of Execute.                             *)
UploadFails(r, i) ==
    /\ alive /\ <<r, i>> \in uploading
    /\ uploading' = uploading \ {<<r, i>>}
    /\ hosted' \in {hosted, hosted \cup {<<r, i>>}}
    /\ promise' = [promise EXCEPT ![r] = IF @ = "pending" THEN "rejected" ELSE @]
    /\ alive' = FALSE
    /\ UNCHANGED <<pc, media, out, rows, status>>

(* The then after MediaHandle: the urls join the validated input, and      *)
(* Store commits, the url of item i with index i - 1, or changes nothing.  *)
Store(r) ==
    /\ alive /\ pc[r] = "media" /\ promise[r] = "resolved"
    /\ \/ /\ rows' = [rows EXCEPT ![r] = out[r]]
          /\ status' = [status EXCEPT ![r] = 200]
       \/ /\ status' = [status EXCEPT ![r] = 500]
          /\ UNCHANGED rows
    /\ pc' = [pc EXCEPT ![r] = "respond"]
    /\ UNCHANGED <<alive, media, uploading, hosted, out, promise>>

APIRespond(r) ==
    /\ alive /\ pc[r] = "respond"
    /\ pc' = [pc EXCEPT ![r] = "done"]
    /\ UNCHANGED <<alive, media, uploading, hosted, out, promise, rows, status>>

Callback(r, i) == UploadSucceeds(r, i) \/ UploadFails(r, i)
Execute(r) == StartUploads(r) \/ Store(r) \/ APIRespond(r)

Next ==
    \E r \in Requests :
        \/ Execute(r)
        \/ \E i \in 1..MaxMedia : Callback(r, i)

(* Node runs what is ready, and the media service answers every upload. *)
Fairness ==
    \A r \in Requests :
        /\ WF_vars(Execute(r))
        /\ \A i \in 1..MaxMedia : WF_vars(Callback(r, i))

Spec == Init /\ [][Next]_vars /\ Fairness
-----------------------------------------------------------------------------
(* Properties *)

Out == UNION {[1..n -> Url \cup {Missing}] : n \in 0..MaxMedia}

(* Every variable has its type, and out has a place for every item. *)
TypeOK ==
    /\ alive \in BOOLEAN
    /\ pc \in [Requests -> {"validate", "media", "respond", "done"}]
    /\ media \in [Requests -> 0..MaxMedia]
    /\ uploading \subseteq Url
    /\ hosted \subseteq Url
    /\ out \in [Requests -> Out]
    /\ \A r \in Requests : pc[r] # "validate" => DOMAIN out[r] = 1..media[r]
    /\ promise \in [Requests -> {"none", "pending", "resolved", "rejected"}]
    /\ rows \in [Requests -> Seq(Url)]
    /\ status \in [Requests -> {NoAnswer, 200, 500}]

(* Whatever order the callbacks come in, and whichever requests they are   *)
(* of, a request is accepted with the urls of its own media, all of them   *)
(* and in the order it sent them (out[index], out.every).                  *)
AcceptedMediaInOrder ==
    \A r \in Requests : status[r] = 200 => rows[r] = Urls(r)

(* The database never refers to a file that the media service does not     *)
(* keep: Store waits for the uploads, not only for their start.            *)
StoredMediaAreHosted ==
    \A r \in Requests : \A i \in DOMAIN rows[r] : rows[r][i] \in hosted

(* No upload of a request is still under way when the request goes on to   *)
(* Store: its callbacks never run behind its answer.                       *)
NoUploadOutlivesMediaHandle ==
    \A r \in Requests : pc[r] \in {"respond", "done"} => Items(r) \cap uploading = {}

(* Every request is answered, unless the process dies. *)
EveryRequestAnswered ==
    \A r \in Requests : TRUE ~> (pc[r] = "done" \/ ~alive)

(* Documentation.md: "In the event that any upload fails, it immediately   *)
(* aborts and rejects with a FailedUploadError"; Execute would catch that, *)
(* and answer.                                                             *)
FailedUploadsAreAnswered ==
    \A r \in Requests : promise[r] = "rejected" ~> pc[r] = "done"
=============================================================================
