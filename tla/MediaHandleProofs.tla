-------------------------- MODULE MediaHandleProofs --------------------------
(***************************************************************************)
(* The safety properties of MediaHandle, for any number of requests and of *)
(* media.                                                                  *)
(***************************************************************************)
EXTENDS MediaHandle, TLAPS

(* Before MediaHandle has begun with a request, nothing is known of it. *)
IdleInv ==
    \A r \in Requests : pc[r] = "validate" =>
        promise[r] = "none" /\ status[r] = NoAnswer /\ Items(r) \cap uploading = {}

(* Each place of out has the url of its own item, which is hosted, once    *)
(* its callback has run, and is empty as long as it has not.               *)
OutInv ==
    \A r \in Requests : pc[r] # "validate" =>
        \A i \in 1..media[r] :
            /\ out[r][i] # Missing => out[r][i] = <<r, i>> /\ <<r, i>> \in hosted
            /\ <<r, i>> \in uploading => out[r][i] = Missing

(* A promise that is resolved has no empty place. *)
PromiseInv ==
    \A r \in Requests :
        /\ promise[r] = "resolved" => \A i \in 1..media[r] : out[r][i] # Missing
        /\ pc[r] \in {"respond", "done"} => promise[r] = "resolved"
        /\ pc[r] = "media" => status[r] = NoAnswer

(* What was stored is what the promise resolved with. *)
RowsInv ==
    \A r \in Requests : IF status[r] = 200 THEN pc[r] \in {"respond", "done"} /\ rows[r] = out[r]
                        ELSE rows[r] = <<>>

(* Only items that a request has are uploaded. *)
UploadInv == \A r \in Requests : \A i \in 1..MaxMedia : <<r, i>> \in uploading => i <= media[r]

IInv == TypeOK /\ IdleInv /\ OutInv /\ PromiseInv /\ RowsInv /\ UploadInv
-----------------------------------------------------------------------------
(* IInv is kept when the uploads start. *)
LEMMA StartUploadsInv ==
    ASSUME NEW r \in Requests, IInv, StartUploads(r)
    PROVE  IInv'
<1> USE MediaAssumption
<1>1. TypeOK'
  <2>1. media[r] \in 0..MaxMedia /\ Items(r) \subseteq Url
    BY DEF IInv, TypeOK, Items, Url
  <2>2. uploading' \subseteq Url
    BY <2>1 DEF StartUploads, IInv, TypeOK
  <2>3. [i \in 1..media[r] |-> Missing] \in Out
    BY <2>1 DEF Out
  <2>4. /\ out' \in [Requests -> Out]
        /\ \A q \in Requests : pc'[q] # "validate" => DOMAIN out'[q] = 1..media'[q]
    BY <2>3 DEF StartUploads, IInv, TypeOK
  <2>5. /\ promise' \in [Requests -> {"none", "pending", "resolved", "rejected"}]
        /\ pc' \in [Requests -> {"validate", "media", "respond", "done"}]
    BY DEF StartUploads, IInv, TypeOK
  <2> QED BY <2>2, <2>4, <2>5 DEF StartUploads, IInv, TypeOK
<1>2. IdleInv'
  BY DEF StartUploads, IInv, TypeOK, IdleInv, Items, UploadInv
<1>3. OutInv'
  <2> SUFFICES ASSUME NEW q \in Requests, pc'[q] # "validate", NEW j \in 1..media[q]
              PROVE  /\ out'[q][j] # Missing => out'[q][j] = <<q, j>> /\ <<q, j>> \in hosted
                     /\ <<q, j>> \in uploading' => out'[q][j] = Missing
    BY DEF StartUploads, OutInv
  <2>1. CASE q = r
    BY <2>1 DEF StartUploads, IInv, TypeOK
  <2>2. CASE q # r
    BY <2>2 DEF StartUploads, Items, IInv, TypeOK, OutInv
  <2> QED BY <2>1, <2>2
<1>4. PromiseInv'
  BY DEF StartUploads, IInv, TypeOK, IdleInv, OutInv, PromiseInv
<1>5. RowsInv'
  BY DEF StartUploads, IInv, TypeOK, IdleInv, RowsInv, PromiseInv
<1>6. UploadInv'
  BY DEF StartUploads, IInv, TypeOK, UploadInv, Items
<1> QED BY <1>1, <1>2, <1>3, <1>4, <1>5, <1>6 DEF IInv

(* IInv is kept when an upload succeeds. *)
LEMMA UploadSucceedsInv ==
    ASSUME NEW r \in Requests, NEW i \in 1..MaxMedia, IInv, UploadSucceeds(r, i)
    PROVE  IInv'
<1> USE MediaAssumption
<1>1. TypeOK'
  <2>0. <<r, i>> \in Url
    BY DEF Url
  <2>1. Filled(out[r], r, i) \in Out /\ DOMAIN Filled(out[r], r, i) = DOMAIN out[r]
    <3>1. PICK n \in 0..MaxMedia : out[r] \in [1..n -> Url \cup {Missing}]
      BY DEF IInv, TypeOK, Out
    <3>2. Filled(out[r], r, i) \in [1..n -> Url \cup {Missing}]
      BY <2>0, <3>1 DEF Filled
    <3> QED BY <3>1, <3>2 DEF Out
  <2>2. /\ out' \in [Requests -> Out]
        /\ \A q \in Requests : pc'[q] # "validate" => DOMAIN out'[q] = 1..media'[q]
    BY <2>1 DEF UploadSucceeds, IInv, TypeOK
  <2>3. uploading' \subseteq Url /\ hosted' \subseteq Url
    <3>1. uploading' = uploading \ {<<r, i>>} /\ hosted' = hosted \cup {<<r, i>>}
      BY DEF UploadSucceeds
    <3>2. uploading \subseteq Url /\ hosted \subseteq Url
      BY DEF IInv, TypeOK
    <3> QED BY <2>0, <3>1, <3>2
  <2>4. promise' \in [Requests -> {"none", "pending", "resolved", "rejected"}]
    BY DEF UploadSucceeds, IInv, TypeOK
  <2> QED BY <2>2, <2>3, <2>4 DEF UploadSucceeds, IInv, TypeOK
<1>2. IdleInv'
  BY DEF UploadSucceeds, Filled, Complete, IInv, TypeOK, IdleInv, Items, UploadInv
<1>3. OutInv'
  BY DEF UploadSucceeds, Filled, Complete, IInv, TypeOK, IdleInv, OutInv, Items
<1>4. PromiseInv'
  BY DEF UploadSucceeds, Filled, Complete, IInv, TypeOK, IdleInv, OutInv, PromiseInv
<1>5. RowsInv'
  <2>0. i \in 1..media[r] /\ <<r, i>> \in Items(r)
    BY DEF UploadSucceeds, IInv, TypeOK, UploadInv, Items
  <2>1. pc[r] # "validate" /\ i \in 1..media[r]
    BY <2>0 DEF UploadSucceeds, IInv, IdleInv
  <2>2. promise[r] # "resolved"
    BY <2>1 DEF UploadSucceeds, IInv, PromiseInv, OutInv
  <2>3. pc[r] \notin {"respond", "done"}
    BY <2>2 DEF IInv, PromiseInv
  <2> QED BY <2>3 DEF UploadSucceeds, IInv, TypeOK, RowsInv
<1>6. UploadInv'
  BY DEF UploadSucceeds, Filled, Complete, IInv, TypeOK, UploadInv, Items
<1> QED BY <1>1, <1>2, <1>3, <1>4, <1>5, <1>6 DEF IInv

(* IInv is kept when an upload fails. *)
LEMMA UploadFailsInv ==
    ASSUME NEW r \in Requests, NEW i \in 1..MaxMedia, IInv, UploadFails(r, i)
    PROVE  IInv'
<1> USE MediaAssumption
<1>1. TypeOK'
  BY DEF UploadFails, IInv, TypeOK, IdleInv, Url
<1>2. IdleInv'
  BY DEF UploadFails, IInv, TypeOK, IdleInv, Items, UploadInv
<1>3. OutInv'
  BY DEF UploadFails, IInv, TypeOK, IdleInv, OutInv, Items
<1>4. PromiseInv'
  BY DEF UploadFails, IInv, TypeOK, IdleInv, OutInv, PromiseInv
<1>5. RowsInv'
  BY DEF UploadFails, IInv, TypeOK, IdleInv, RowsInv, PromiseInv
<1>6. UploadInv'
  BY DEF UploadFails, IInv, TypeOK, UploadInv, Items
<1> QED BY <1>1, <1>2, <1>3, <1>4, <1>5, <1>6 DEF IInv

(* IInv is kept when the urls are stored, or not. *)
LEMMA StoreInv ==
    ASSUME NEW r \in Requests, IInv, Store(r)
    PROVE  IInv'
<1> USE MediaAssumption
<1>1. TypeOK'
  <2>1. rows' \in [Requests -> Seq(Url)]
    <3>1. out[r] \in [1..media[r] -> Url \cup {Missing}] /\ media[r] \in Nat
      BY DEF Store, IInv, TypeOK, Out
    <3>2. \A i \in 1..media[r] : out[r][i] \in Url
      BY <3>1 DEF Store, IInv, PromiseInv
    <3>3. out[r] \in Seq(Url)
      BY <3>1, <3>2
    <3>4. rows' = [rows EXCEPT ![r] = out[r]] \/ rows' = rows
      BY DEF Store
    <3>5. rows \in [Requests -> Seq(Url)]
      BY DEF IInv, TypeOK
    <3> QED BY <3>3, <3>4, <3>5
  <2>2. status' \in [Requests -> {NoAnswer, 200, 500}]
    <3>1. status' = [status EXCEPT ![r] = 200] \/ status' = [status EXCEPT ![r] = 500]
      BY DEF Store
    <3>2. status \in [Requests -> {NoAnswer, 200, 500}]
      BY DEF IInv, TypeOK
    <3> QED BY <3>1, <3>2
  <2>3. pc' \in [Requests -> {"validate", "media", "respond", "done"}]
    BY DEF Store, IInv, TypeOK
  <2> QED BY <2>1, <2>2, <2>3 DEF Store, IInv, TypeOK
<1>2. IdleInv'
  BY DEF Store, IInv, TypeOK, IdleInv, Items, UploadInv
<1>3. OutInv'
  BY DEF Store, IInv, TypeOK, IdleInv, OutInv, Items
<1>4. PromiseInv'
  BY DEF Store, IInv, TypeOK, IdleInv, OutInv, PromiseInv
<1>5. RowsInv'
  BY DEF Store, IInv, TypeOK, IdleInv, RowsInv, PromiseInv
<1>6. UploadInv'
  BY DEF Store, IInv, TypeOK, UploadInv, Items
<1> QED BY <1>1, <1>2, <1>3, <1>4, <1>5, <1>6 DEF IInv

(* IInv is kept when the answer is sent. *)
LEMMA APIRespondInv ==
    ASSUME NEW r \in Requests, IInv, APIRespond(r)
    PROVE  IInv'
<1> USE MediaAssumption
<1>1. TypeOK'
  BY DEF APIRespond, IInv, TypeOK, IdleInv, Url
<1>2. IdleInv'
  BY DEF APIRespond, IInv, TypeOK, IdleInv, Items, UploadInv
<1>3. OutInv'
  BY DEF APIRespond, IInv, TypeOK, IdleInv, OutInv, Items
<1>4. PromiseInv'
  BY DEF APIRespond, IInv, TypeOK, IdleInv, OutInv, PromiseInv
<1>5. RowsInv'
  BY DEF APIRespond, IInv, TypeOK, IdleInv, RowsInv, PromiseInv
<1>6. UploadInv'
  BY DEF APIRespond, IInv, TypeOK, UploadInv, Items
<1> QED BY <1>1, <1>2, <1>3, <1>4, <1>5, <1>6 DEF IInv

-----------------------------------------------------------------------------
(* The requests start with nothing uploaded. *)
LEMMA InitInv == Init => IInv
<1> SUFFICES ASSUME Init PROVE IInv
  OBVIOUS
<1>1. <<>> \in Out /\ <<>> \in Seq(Url)
  <2>1. <<>> \in [1..0 -> Url \cup {Missing}]
    OBVIOUS
  <2> QED BY <2>1, MediaAssumption DEF Out
<1>2. TypeOK
  BY <1>1 DEF Init, TypeOK
<1>3. IdleInv /\ OutInv /\ UploadInv
  BY DEF Init, IdleInv, OutInv, UploadInv
<1>4. PromiseInv /\ RowsInv
  BY DEF Init, PromiseInv, RowsInv, NoAnswer
<1> QED BY <1>2, <1>3, <1>4 DEF IInv

(* Every step keeps IInv. *)
LEMMA Inductive == IInv /\ [Next]_vars => IInv'
<1> SUFFICES ASSUME IInv, [Next]_vars PROVE IInv'
  OBVIOUS
<1>1. ASSUME NEW r \in Requests, Execute(r) PROVE IInv'
  BY <1>1, StartUploadsInv, StoreInv, APIRespondInv DEF Execute
<1>2. ASSUME NEW r \in Requests, NEW i \in 1..MaxMedia, Callback(r, i) PROVE IInv'
  BY <1>2, UploadSucceedsInv, UploadFailsInv DEF Callback
<1>3. CASE UNCHANGED vars
  BY <1>3 DEF vars, IInv, TypeOK, IdleInv, OutInv, PromiseInv, RowsInv, UploadInv, Items
<1> QED BY <1>1, <1>2, <1>3 DEF Next

(* IInv holds always. *)
THEOREM Invariant == Spec => []IInv
BY InitInv, Inductive, PTL DEF Spec

(* Every variable keeps its type. *)
THEOREM TypeCorrect == Spec => []TypeOK
<1>1. IInv => TypeOK
  BY DEF IInv
<1> QED BY <1>1, Invariant, PTL

(* A request is accepted with its own media, in its own order, whatever    *)
(* order the callbacks of all the requests come in.                        *)
THEOREM Order == Spec => []AcceptedMediaInOrder
<1>1. IInv => AcceptedMediaInOrder
  <2> SUFFICES ASSUME IInv, NEW r \in Requests, status[r] = 200 PROVE rows[r] = Urls(r)
    BY DEF AcceptedMediaInOrder
  <2>1. rows[r] = out[r] /\ promise[r] = "resolved" /\ pc[r] # "validate"
    BY DEF IInv, RowsInv, PromiseInv
  <2>2. out[r] = [i \in 1..media[r] |-> out[r][i]]
    BY <2>1 DEF IInv, TypeOK, Out
  <2>3. ASSUME NEW i \in 1..media[r] PROVE out[r][i] = <<r, i>>
    <3>1. out[r][i] # Missing
      BY <2>1 DEF IInv, PromiseInv
    <3> QED BY <2>1, <3>1 DEF IInv, OutInv
  <2>4. Urls(r) = [i \in 1..media[r] |-> out[r][i]]
    BY <2>3 DEF Urls
  <2> QED BY <2>1, <2>2, <2>4
<1> QED BY <1>1, Invariant, PTL

(* The database refers to files that the media service keeps. *)
THEOREM Hosting == Spec => []StoredMediaAreHosted
<1>1. IInv => StoredMediaAreHosted
  <2> SUFFICES ASSUME IInv, NEW r \in Requests, NEW i \in DOMAIN rows[r] PROVE rows[r][i] \in hosted
    BY DEF StoredMediaAreHosted
  <2>1. CASE status[r] = 200
    <3>1. rows[r] = out[r] /\ promise[r] = "resolved" /\ pc[r] # "validate"
      BY <2>1 DEF IInv, RowsInv, PromiseInv
    <3>2. i \in 1..media[r]
      BY <3>1 DEF IInv, TypeOK
    <3> QED BY <3>1, <3>2 DEF IInv, PromiseInv, OutInv
  <2>2. CASE status[r] # 200
    BY <2>2 DEF IInv, RowsInv
  <2> QED BY <2>1, <2>2
<1> QED BY <1>1, Invariant, PTL

(* MediaHandle resolves only after the last of its callbacks. *)
THEOREM Quiet == Spec => []NoUploadOutlivesMediaHandle
<1>1. IInv => NoUploadOutlivesMediaHandle
  BY DEF IInv, NoUploadOutlivesMediaHandle, PromiseInv, OutInv, Items
<1> QED BY <1>1, Invariant, PTL
=============================================================================
