--------------------------- MODULE ProofUpload_proof ---------------------------
(***************************************************************************)
(* The theorems about proofs of delivery (ProofUpload): a proof recorded on *)
(* chain can be opened, and the viewer shows the photo it was opened with   *)
(* and leaves none behind.  Both hold for any number of uploads, gateways,  *)
(* retries, reviews and loads, and whatever goes wrong however often.       *)
(*                                                                          *)
(* The first follows a proof backwards: the chain names an upload whose     *)
(* finalization was answered, the answer came after the key's row was       *)
(* stored, and that came after the ciphertext was retrieved; rows and pins  *)
(* are never lost.  The second needs that a load is current only while the  *)
(* viewer is open with that load's proof.                                   *)
(***************************************************************************)
EXTENDS ProofUpload, TLAPS

-----------------------------------------------------------------------------
(* Types.                                                                   *)

UploadRecords ==
  [milestone : Milestones, size : Nat,
   stage : Running \cup {"none", "answered", "submitted", "failed"},
   failure : {"none", "size", "provider", "network", "reverted", "authorization", "expired",
              "integrity", "database"}]
Calls ==
  [op : {"session", "finalize"}, upload : Uploads,
   at : {"arrived", "sign", "authorize", "retrieve", "store", "stored"}, attempt : Nat, copy : 1..2]
Proofs == Uris \cup {NoUri}
MilestoneRecords ==
  [status : {"PendingProof", "Submitted", "Rejected", "Paid"}, proof : Proofs]
Loads ==
  [milestone : Milestones, proof : Proofs, at : {"key", "find", "fetch", "decrypt"}, gateway : Nat,
   current : BOOLEAN]
Viewers == [milestone : Milestones, proof : Proofs, image : Nat]

UploadTypes == uploads \in [Uploads -> UploadRecords] /\ calls \subseteq Calls
ViewerTypes ==
  /\ milestones \in [Milestones -> MilestoneRecords]
  /\ viewer \in Viewers /\ loads \subseteq Loads

-----------------------------------------------------------------------------
(* The invariant.                                                           *)

HasKey(m, e) == Row(m, e, e) \in keys

Opened(m, e) == e \in pinned /\ HasKey(m, e)

CallOK(call) ==
  /\ uploads[call.upload].stage # "none"
  /\ call.at \in {"store", "stored"} => call.upload \in pinned
  /\ call.at = "stored" => HasKey(uploads[call.upload].milestone, call.upload)

ProofInv ==
  /\ \A call \in calls : CallOK(call)
  /\ \A e \in Uploads : uploads[e].stage = "answered" => Opened(uploads[e].milestone, e)
  /\ \A m \in Milestones : milestones[m].proof # NoUri =>
       \E e \in Uploads : milestones[m].proof = [cid |-> e, metadata |-> e] /\ Opened(m, e)

ViewerInv ==
  /\ ViewerShowsOnlyThatPhoto
  /\ viewer.proof # NoUri => viewer.proof.metadata # None
  /\ \A load \in loads : load.current => viewer.proof # NoUri /\ load.proof = viewer.proof

IInv == UploadTypes /\ ViewerTypes /\ ProofInv /\ ViewerInv

-----------------------------------------------------------------------------
(* Nothing that opens a proof is ever lost.                                 *)

KeysStay == \A m \in Milestones, e \in Uploads : HasKey(m, e) => Row(m, e, e) \in keys'

LEMMA StoringKeepsKeys ==
  ASSUME NEW m \in Milestones, NEW e \in Uploads,
         keys' = (keys \ RowsFor(m, e)) \cup {Row(m, e, e)}
  PROVE  KeysStay /\ Row(m, e, e) \in keys'
<1>1. ASSUME NEW n \in Milestones, NEW u \in Uploads, HasKey(n, u) PROVE Row(n, u, u) \in keys'
  <2>1. CASE n = m /\ u = e
    BY <2>1
  <2>2. CASE ~(n = m /\ u = e)
    <3>1. Row(n, u, u).milestone = n /\ Row(n, u, u).cid = u
      BY DEF Row
    <3>2. Row(n, u, u) \notin RowsFor(m, e)
      BY <2>2, <3>1 DEF RowsFor
    <3>3. QED BY <1>1, <3>2 DEF HasKey
  <2>3. QED BY <2>1, <2>2
<1>2. QED BY <1>1 DEF KeysStay

(* Uploads go on: none is forgotten, each stays with its milestone, and one *)
(* is answered only when its proof can be opened.                           *)
UploadsGoOn ==
  \A e \in Uploads :
    /\ uploads[e].stage # "none" =>
         uploads'[e].stage # "none" /\ uploads'[e].milestone = uploads[e].milestone
    /\ uploads'[e].stage = "answered" /\ uploads[e].stage # "answered" =>
         e \in pinned' /\ Row(uploads'[e].milestone, e, e) \in keys'

(* A call that goes on or arrives.                                          *)
CallGoesOn(call) ==
  /\ call \in Calls /\ uploads'[call.upload].stage # "none"
  /\ call.at \in {"store", "stored"} => call.upload \in pinned'
  /\ call.at = "stored" => Row(uploads'[call.upload].milestone, call.upload, call.upload) \in keys'

LEMMA ProofsKept ==
  ASSUME UploadTypes, ProofInv, UploadsGoOn, pinned \subseteq pinned', KeysStay, UNCHANGED milestones,
         uploads' \in [Uploads -> UploadRecords],
         \A call \in calls' : call \in calls \/ CallGoesOn(call)
  PROVE  UploadTypes' /\ ProofInv'
<1>1. UploadTypes'
  BY DEF UploadTypes, CallGoesOn
<1>2. ASSUME NEW call \in calls' PROVE CallOK(call)'
  <2>1. CASE call \in calls
    <3>1. call.upload \in Uploads /\ CallOK(call)
      BY <2>1 DEF UploadTypes, Calls, ProofInv
    <3>2. /\ uploads[call.upload].stage # "none" /\ uploads'[call.upload].stage # "none"
          /\ uploads'[call.upload].milestone = uploads[call.upload].milestone
          /\ uploads[call.upload].milestone \in Milestones
      BY <3>1 DEF CallOK, UploadsGoOn, UploadTypes, UploadRecords
    <3>3. QED BY <3>1, <3>2 DEF CallOK, KeysStay, HasKey
  <2>2. CASE CallGoesOn(call)
    BY <2>2 DEF CallGoesOn, CallOK, HasKey
  <2>3. QED BY <2>1, <2>2
<1>3. ASSUME NEW e \in Uploads, uploads'[e].stage = "answered"
      PROVE  Opened(uploads[e].milestone, e)'
  <2>1. CASE uploads[e].stage = "answered"
    <3>1. Opened(uploads[e].milestone, e) /\ uploads[e].milestone \in Milestones
      BY <2>1 DEF ProofInv, UploadTypes, UploadRecords
    <3>2. uploads'[e].milestone = uploads[e].milestone
      BY <2>1 DEF UploadsGoOn
    <3>3. QED BY <3>1, <3>2 DEF Opened, HasKey, KeysStay
  <2>2. CASE uploads[e].stage # "answered"
    BY <1>3, <2>2 DEF UploadsGoOn, Opened, HasKey
  <2>3. QED BY <2>1, <2>2
<1>4. ASSUME NEW m \in Milestones, milestones'[m].proof # NoUri
      PROVE  \E e \in Uploads : milestones'[m].proof = [cid |-> e, metadata |-> e] /\ Opened(m, e)'
  <2>1. PICK e \in Uploads : milestones[m].proof = [cid |-> e, metadata |-> e] /\ Opened(m, e)
    BY <1>4 DEF ProofInv
  <2>2. Opened(m, e)'
    BY <2>1 DEF Opened, HasKey, KeysStay
  <2>3. QED BY <2>1, <2>2
<1>5. QED BY <1>1, <1>2, <1>3, <1>4 DEF ProofInv

(* One upload changes its stage.                                            *)
LEMMA StageFacts ==
  ASSUME UploadTypes, NEW e \in Uploads, uploads[e].stage # "none",
         NEW stage \in Running \cup {"submitted", "failed"}, SetStage(e, stage)
  PROVE  UploadsGoOn /\ uploads' \in [Uploads -> UploadRecords] /\ uploads'[e].stage = stage
         /\ uploads'[e].milestone = uploads[e].milestone
         /\ \A u \in Uploads : u # e => uploads'[u] = uploads[u]
<1> DEFINE new == [uploads[e] EXCEPT !.stage = stage]
<1>1. uploads[e] \in UploadRecords
  BY DEF UploadTypes
<1>2. new \in UploadRecords /\ new.stage = stage /\ new.milestone = uploads[e].milestone
  BY <1>1 DEF UploadRecords
<1>3. uploads' = [uploads EXCEPT ![e] = new]
  BY DEF SetStage
<1>4. stage # "answered" /\ stage # "none"
  BY DEF Running
<1> HIDE DEF new
<1>5. /\ uploads' \in [Uploads -> UploadRecords] /\ uploads'[e] = new
      /\ \A u \in Uploads : u # e => uploads'[u] = uploads[u]
  BY <1>2, <1>3 DEF UploadTypes
<1>6. QED BY <1>2, <1>4, <1>5 DEF UploadsGoOn

Failures == {"size", "provider", "network", "reverted", "authorization", "expired",
             "integrity", "database"}

LEMMA FailureFacts ==
  ASSUME UploadTypes, NEW e \in Uploads, uploads[e].stage # "none",
         NEW failure \in Failures, FailUpload(e, failure)
  PROVE  UploadsGoOn /\ uploads' \in [Uploads -> UploadRecords]
         /\ uploads'[e].milestone = uploads[e].milestone /\ uploads'[e].stage = "failed"
<1> DEFINE new == [uploads[e] EXCEPT !.stage = "failed", !.failure = failure]
<1>1. uploads[e] \in UploadRecords
  BY DEF UploadTypes
<1>2. new \in UploadRecords /\ new.stage = "failed" /\ new.milestone = uploads[e].milestone
  BY <1>1 DEF UploadRecords, Failures
<1>3. uploads' = [uploads EXCEPT ![e] = new]
  BY <1>1 DEF FailUpload, UploadTypes
<1> HIDE DEF new
<1>4. /\ uploads' \in [Uploads -> UploadRecords] /\ uploads'[e] = new
      /\ \A u \in Uploads : u # e => uploads'[u] = uploads[u]
  BY <1>2, <1>3 DEF UploadTypes
<1>5. QED BY <1>2, <1>4 DEF UploadsGoOn

LEMMA UploadsAlone ==
  ASSUME UNCHANGED uploads
  PROVE  UploadsGoOn
BY DEF UploadsGoOn

LEMMA KeysAlone ==
  ASSUME UNCHANGED keys
  PROVE  KeysStay
BY DEF KeysStay, HasKey

-----------------------------------------------------------------------------
(* The server's handlers.                                                   *)

UploadInv == UploadTypes /\ ProofInv

LEMMA CallFacts ==
  ASSUME UploadInv, NEW call \in calls
  PROVE  /\ call \in Calls /\ call.upload \in Uploads /\ uploads[call.upload].stage # "none"
         /\ uploads[call.upload].milestone \in Milestones /\ CallOK(call)
BY DEF UploadInv, UploadTypes, ProofInv, CallOK, Calls, UploadRecords

LEMMA RefuseKeeps ==
  ASSUME UploadInv, NEW call \in calls, NEW failure \in Failures,
         IF Waiting(call.upload) THEN FailUpload(call.upload, failure) ELSE UNCHANGED uploads,
         Becomes(call, {}), UNCHANGED <<keys, pinned, milestones>>
  PROVE  UploadInv'
<1>1. UploadsGoOn /\ uploads' \in [Uploads -> UploadRecords]
  BY CallFacts, FailureFacts, UploadsAlone DEF UploadInv, UploadTypes
<1>2. calls' \subseteq calls
  BY DEF Becomes
<1>3. QED BY <1>1, <1>2, KeysAlone, ProofsKept DEF UploadInv

LEMMA ProceedsKeeps ==
  ASSUME UploadInv, NEW call \in calls, NEW step \in {"sign", "authorize", "retrieve", "store"},
         step = "store" => call.upload \in pinned,
         Proceeds(call, step), UNCHANGED <<pinned, milestones>>
  PROVE  UploadInv'
<1> DEFINE next == [call EXCEPT !.at = step]
<1>1. call \in Calls /\ uploads[call.upload].stage # "none"
  BY CallFacts
<1>2. next \in Calls /\ next.upload = call.upload /\ next.at = step
  BY <1>1 DEF Calls
<1>3. calls' = (calls \ {call}) \cup {next} /\ UNCHANGED <<uploads, keys>>
  BY DEF Proceeds, Becomes
<1> HIDE DEF next
<1>4. CallGoesOn(next)
  BY <1>1, <1>2, <1>3 DEF CallGoesOn
<1>5. QED BY <1>3, <1>4, UploadsAlone, KeysAlone, ProofsKept DEF UploadInv, UploadTypes

LEMMA OpenSessionKeeps ==
  ASSUME UploadInv, NEW call \in calls, OpenSession(call), UNCHANGED <<pinned, milestones>>
  PROVE  UploadInv'
<1>1. CASE NoSignedUrl(call)
  BY <1>1, RefuseKeeps DEF NoSignedUrl, Refuse, Failures
<1>2. CASE Answer(call, "authorizing", "uploading") /\ Becomes(call, {}) /\ UNCHANGED keys
  <2>1. UploadsGoOn /\ uploads' \in [Uploads -> UploadRecords]
    BY <1>2, CallFacts, StageFacts, UploadsAlone DEF Answer, UploadInv, UploadTypes, Running
  <2>2. calls' \subseteq calls
    BY <1>2 DEF Becomes
  <2>3. QED BY <1>2, <2>1, <2>2, KeysAlone, ProofsKept DEF UploadInv
<1>3. QED BY <1>1, <1>2 DEF OpenSession

LEMMA RetrieveKeeps ==
  ASSUME UploadInv, NEW call \in calls, Retrieve(call), UNCHANGED <<pinned, milestones>>
  PROVE  UploadInv'
<1>1. call.upload \in Uploads /\ Other \notin Uploads
  <2>1. MaxUploads \in Nat
    BY ProofAssumption
  <2>2. QED BY <2>1, CallFacts DEF Uploads, Other
<1>2. ASSUME GatewayDelivers(call.upload, call.upload), Proceeds(call, "store")
      PROVE  UploadInv'
  <2>1. call.upload \in pinned
    BY <1>1, <1>2 DEF GatewayDelivers
  <2>2. QED BY <1>2, <2>1, ProceedsKeeps
<1>3. ASSUME Refuse(call, "integrity") \/ Refuse(call, "provider")
      PROVE  UploadInv'
  BY <1>3, RefuseKeeps DEF Refuse, Failures
<1>4. ASSUME Becomes(call, {NextAttempt(call)}), UNCHANGED <<uploads, sessions, keys>>, call.at = "retrieve"
      PROVE  UploadInv'
  <2>1. call \in Calls /\ uploads[call.upload].stage # "none"
    BY CallFacts
  <2>2. /\ NextAttempt(call) \in Calls /\ NextAttempt(call).upload = call.upload
        /\ NextAttempt(call).at = "retrieve"
    BY <1>4, <2>1 DEF Calls, NextAttempt
  <2>3. CallGoesOn(NextAttempt(call))
    BY <1>4, <2>1, <2>2 DEF CallGoesOn
  <2>4. \A other \in calls' : other \in calls \/ CallGoesOn(other)
    BY <1>4, <2>3 DEF Becomes
  <2>5. QED BY <1>4, <2>4, UploadsAlone, KeysAlone, ProofsKept DEF UploadInv, UploadTypes
<1>5. QED BY <1>1, <1>2, <1>3, <1>4 DEF Retrieve

LEMMA StoreKeyKeeps ==
  ASSUME UploadInv, NEW call \in calls, StoreKey(call), UNCHANGED <<pinned, milestones>>
  PROVE  UploadInv'
<1>1. PICK m \in Milestones, e \in Uploads : m = uploads[e].milestone /\ e = call.upload
  BY CallFacts
<1>2. /\ call \in Calls /\ uploads[e].stage # "none" /\ CallOK(call) /\ call.at = "store"
  BY <1>1, CallFacts DEF StoreKey
<1>3. CASE Refuse(call, "database")
  BY <1>3, RefuseKeeps DEF Refuse, Failures
<1>4. CASE /\ keys' = (keys \ RowsFor(m, e)) \cup {Row(m, e, e)}
           /\ Becomes(call, {[call EXCEPT !.at = "stored"]}) /\ UNCHANGED uploads
  <2> DEFINE next == [call EXCEPT !.at = "stored"]
  <2>1. next \in Calls /\ next.upload = e /\ next.at = "stored"
    BY <1>1, <1>2 DEF Calls
  <2>2. calls' = (calls \ {call}) \cup {next}
    BY <1>4 DEF Becomes
  <2> HIDE DEF next
  <2>3. KeysStay /\ Row(m, e, e) \in keys'
    BY <1>4, StoringKeepsKeys
  <2>4. CallGoesOn(next)
    BY <1>1, <1>2, <1>4, <2>1, <2>3 DEF CallGoesOn, CallOK
  <2>5. QED BY <1>4, <2>2, <2>3, <2>4, UploadsAlone, ProofsKept DEF UploadInv, UploadTypes
<1>5. QED BY <1>1, <1>3, <1>4 DEF StoreKey

LEMMA FinishFinalizeKeeps ==
  ASSUME UploadInv, NEW call \in calls, FinishFinalize(call), UNCHANGED <<pinned, milestones>>
  PROVE  UploadInv'
<1>1. PICK e \in Uploads : e = call.upload
  BY CallFacts
<1>2. /\ uploads[e].stage # "none" /\ e \in pinned /\ HasKey(uploads[e].milestone, e)
  BY <1>1, CallFacts DEF FinishFinalize, CallOK
<1>3. calls' \subseteq calls /\ UNCHANGED keys
  BY DEF FinishFinalize, Becomes
<1>4. UploadsGoOn /\ uploads' \in [Uploads -> UploadRecords]
  <2>1. CASE UNCHANGED uploads
    BY <2>1, UploadsAlone DEF UploadInv, UploadTypes
  <2>2. CASE SetStage(e, "answered")
    <3> DEFINE new == [uploads[e] EXCEPT !.stage = "answered"]
    <3>1. uploads[e] \in UploadRecords
      BY DEF UploadInv, UploadTypes
    <3>2. new \in UploadRecords /\ new.stage = "answered" /\ new.milestone = uploads[e].milestone
      BY <3>1 DEF UploadRecords
    <3>3. uploads' = [uploads EXCEPT ![e] = new]
      BY <2>2 DEF SetStage
    <3> HIDE DEF new
    <3>4. /\ uploads' \in [Uploads -> UploadRecords] /\ uploads'[e] = new
          /\ \A u \in Uploads : u # e => uploads'[u] = uploads[u]
      BY <3>2, <3>3 DEF UploadInv, UploadTypes
    <3>5. QED BY <1>2, <1>3, <3>2, <3>4 DEF UploadsGoOn, HasKey
  <2>3. QED BY <1>1, <2>1, <2>2 DEF FinishFinalize, Answer
<1>5. QED BY <1>3, <1>4, KeysAlone, ProofsKept DEF UploadInv

LEMMA HandlerKeeps ==
  ASSUME UploadInv, NEW e \in Uploads, HandlerStep(e)
  PROVE  UploadInv'
<1>1. UNCHANGED <<pinned, milestones>>
  BY DEF HandlerStep, chainVars
<1>2. PICK call \in calls :
        \/ CheckSessionRequest(call) \/ OpenSession(call) \/ CheckSession(call)
        \/ AuthorizeFinalize(call) \/ Retrieve(call) \/ StoreKey(call) \/ FinishFinalize(call)
  BY DEF HandlerStep
<1>3. CASE CheckSessionRequest(call)
  BY <1>1, <1>3, ProceedsKeeps, RefuseKeeps DEF CheckSessionRequest, Authorize, Refuse, Failures
<1>4. CASE OpenSession(call)
  BY <1>1, <1>4, OpenSessionKeeps
<1>5. CASE CheckSession(call)
  BY <1>1, <1>5, ProceedsKeeps, RefuseKeeps DEF CheckSession, Failures
<1>6. CASE AuthorizeFinalize(call)
  BY <1>1, <1>6, ProceedsKeeps, RefuseKeeps DEF AuthorizeFinalize, Authorize, Refuse, Failures
<1>7. CASE Retrieve(call) \/ StoreKey(call) \/ FinishFinalize(call)
  BY <1>1, <1>7, RetrieveKeeps, StoreKeyKeeps, FinishFinalizeKeeps
<1>8. QED BY <1>2, <1>3, <1>4, <1>5, <1>6, <1>7

-----------------------------------------------------------------------------
(* The carrier's browser and the chain.                                     *)

LEMMA NewCall ==
  ASSUME NEW op \in {"session", "finalize"}, NEW e \in Uploads, uploads'[e].stage # "none"
  PROVE  CallGoesOn(Call(op, e))
BY DEF CallGoesOn, Call, Calls

LEMMA BrowserKeeps ==
  ASSUME UploadInv, NEW e \in Uploads, BrowserStep(e)
  PROVE  UploadInv'
<1>1. CASE EncryptProofFile(e)
  <2>1. /\ UNCHANGED <<keys, pinned, milestones>> /\ uploads[e].stage # "none"
        /\ \/ FailUpload(e, "size") /\ UNCHANGED calls
           \/ SetStage(e, "authorizing") /\ calls' = calls \cup {Call("session", e)}
    BY <1>1 DEF EncryptProofFile, chainVars
  <2>2. CASE FailUpload(e, "size") /\ UNCHANGED calls
    BY <2>1, <2>2, FailureFacts, KeysAlone, ProofsKept DEF UploadInv, Failures
  <2>3. CASE SetStage(e, "authorizing") /\ calls' = calls \cup {Call("session", e)}
    <3>1. /\ UploadsGoOn /\ uploads' \in [Uploads -> UploadRecords]
          /\ uploads'[e].stage = "authorizing"
      BY <2>1, <2>3, StageFacts DEF UploadInv, Running
    <3>2. CallGoesOn(Call("session", e))
      BY <3>1, NewCall
    <3>3. QED BY <2>1, <2>3, <3>1, <3>2, KeysAlone, ProofsKept DEF UploadInv
  <2>4. QED BY <2>1, <2>2, <2>3
<1>2. CASE UploadCiphertext(e)
  <2>1. /\ UNCHANGED <<keys, milestones>> /\ uploads[e].stage # "none" /\ pinned \subseteq pinned'
        /\ \/ FailUpload(e, "provider") /\ UNCHANGED calls
           \/ SetStage(e, "finalizing") /\ calls' = calls \cup {Call("finalize", e)}
    BY <1>2 DEF UploadCiphertext, chainVars
  <2>2. CASE FailUpload(e, "provider") /\ UNCHANGED calls
    BY <2>1, <2>2, FailureFacts, KeysAlone, ProofsKept DEF UploadInv, Failures
  <2>3. CASE SetStage(e, "finalizing") /\ calls' = calls \cup {Call("finalize", e)}
    <3>1. /\ UploadsGoOn /\ uploads' \in [Uploads -> UploadRecords]
          /\ uploads'[e].stage = "finalizing"
      BY <2>1, <2>3, StageFacts DEF UploadInv, Running
    <3>2. CallGoesOn(Call("finalize", e))
      BY <3>1, NewCall
    <3>3. QED BY <2>1, <2>3, <3>1, <3>2, KeysAlone, ProofsKept DEF UploadInv
  <2>4. QED BY <2>1, <2>2, <2>3
<1>3. CASE FetchFails(e)
  <2>1. /\ UNCHANGED <<keys, calls, pinned, milestones>> /\ uploads[e].stage # "none"
        /\ FailUpload(e, "network")
    BY <1>3 DEF FetchFails, Waiting, chainVars, serverVars
  <2>2. QED BY <2>1, FailureFacts, KeysAlone, ProofsKept DEF UploadInv, Failures
<1>4. QED BY <1>1, <1>2, <1>3 DEF BrowserStep

LEMMA ChoosePhotoKeeps ==
  ASSUME UploadInv, NEW m \in Milestones, NEW size \in PhotoSizes, ChoosePhoto(m, size)
  PROVE  UploadInv'
<1> DEFINE new == [NoUpload EXCEPT !.milestone = m, !.size = size, !.stage = "encrypting"]
<1>1. PICK e \in Uploads : uploads[e].stage = "none" /\ uploads' = [uploads EXCEPT ![e] = new]
  BY DEF ChoosePhoto, NextUpload
<1>2. new \in UploadRecords /\ new.stage = "encrypting"
  BY ProofAssumption DEF NoUpload, UploadRecords, Running
<1> HIDE DEF new
<1>3. uploads' \in [Uploads -> UploadRecords] /\ UploadsGoOn
  BY <1>1, <1>2 DEF UploadInv, UploadTypes, UploadsGoOn
<1>4. UNCHANGED <<keys, calls, pinned, milestones>>
  BY DEF ChoosePhoto, chainVars, serverVars
<1>5. QED BY <1>3, <1>4, KeysAlone, ProofsKept DEF UploadInv

(* The chain records another proof of a milestone, or none.                 *)
LEMMA MilestoneKeeps ==
  ASSUME UploadInv, ViewerTypes, NEW m \in Milestones, NEW status, NEW proof,
         proof = NoUri \/ proof = milestones[m].proof
           \/ \E e \in Uploads : proof = [cid |-> e, metadata |-> e] /\ Opened(m, e),
         milestones' = [milestones EXCEPT ![m] = [status |-> status, proof |-> proof]],
         UploadsGoOn, uploads' \in [Uploads -> UploadRecords], UNCHANGED <<calls, keys, pinned>>
  PROVE  UploadInv'
<1>1. /\ \A call \in calls : CallOK(call)'
      /\ \A e \in Uploads : uploads'[e].stage = "answered" => Opened(uploads[e].milestone, e)'
  <2>1. ASSUME NEW call \in calls PROVE CallOK(call)'
    BY CallFacts DEF CallOK, UploadsGoOn, HasKey
  <2>2. ASSUME NEW e \in Uploads, uploads'[e].stage = "answered"
        PROVE  Opened(uploads[e].milestone, e)'
    BY <2>2 DEF UploadInv, ProofInv, Opened, HasKey, UploadsGoOn
  <2>3. QED BY <2>1, <2>2
<1>2. ASSUME NEW n \in Milestones, milestones'[n].proof # NoUri
      PROVE  \E e \in Uploads : milestones'[n].proof = [cid |-> e, metadata |-> e] /\ Opened(n, e)'
  <2>1. milestones'[n].proof = milestones[n].proof \/ (n = m /\ milestones'[n].proof = proof)
    BY DEF ViewerTypes
  <2>2. \E e \in Uploads : milestones'[n].proof = [cid |-> e, metadata |-> e] /\ Opened(n, e)
    BY <1>2, <2>1 DEF UploadInv, ProofInv
  <2>3. QED BY <2>2 DEF Opened, HasKey
<1>3. QED BY <1>1, <1>2 DEF UploadInv, UploadTypes, ProofInv

LEMMA SubmitKeeps ==
  ASSUME UploadInv, ViewerTypes, NEW e \in Uploads, SubmitProof(e)
  PROVE  UploadInv'
<1>1. PICK m \in Milestones : m = uploads[e].milestone
  BY DEF UploadInv, UploadTypes, UploadRecords
<1>2. /\ uploads[e].stage = "answered" /\ UNCHANGED <<calls, keys, pinned>> /\ Opened(m, e)
  BY <1>1 DEF SubmitProof, serverVars, UploadInv, ProofInv
<1>3. CASE /\ milestones' = [milestones EXCEPT ![m] =
                [status |-> "Submitted", proof |-> [cid |-> e, metadata |-> e]]]
           /\ SetStage(e, "submitted")
  <2>1. UploadsGoOn /\ uploads' \in [Uploads -> UploadRecords]
    BY <1>2, <1>3, StageFacts DEF UploadInv
  <2>2. QED BY <1>2, <1>3, <2>1, MilestoneKeeps
<1>4. CASE FailUpload(e, "reverted") /\ UNCHANGED milestones
  BY <1>2, <1>4, FailureFacts, KeysAlone, ProofsKept DEF UploadInv, Failures
<1>5. QED BY <1>1, <1>3, <1>4 DEF SubmitProof, BuildEncryptedProofUri

-----------------------------------------------------------------------------
(* The viewer.                                                              *)

LEMMA LoadGoesOn ==
  ASSUME ViewerTypes, ViewerInv, NEW load \in loads, NEW next \in Loads,
         next.proof = load.proof, next.current = load.current,
         LoadBecomes(load, {next}), UNCHANGED <<milestones, viewer, photos>>
  PROVE  ViewerTypes' /\ ViewerInv'
BY DEF ViewerTypes, ViewerInv, ViewerShowsOnlyThatPhoto, LoadBecomes

LEMMA LoadEnds ==
  ASSUME ViewerTypes, ViewerInv, NEW load \in loads, LoadFails(load), UNCHANGED milestones
  PROVE  ViewerTypes' /\ ViewerInv'
BY DEF ViewerTypes, ViewerInv, ViewerShowsOnlyThatPhoto, LoadBecomes, LoadFails

LEMMA ViewerAlone ==
  ASSUME ViewerTypes, ViewerInv, UNCHANGED <<milestones, viewerVars>>
  PROVE  ViewerTypes' /\ ViewerInv'
BY DEF ViewerTypes, ViewerInv, ViewerShowsOnlyThatPhoto, viewerVars

LEMMA ViewProofKeeps ==
  ASSUME IInv, NEW m \in Milestones, ViewProof(m)
  PROVE  ViewerTypes' /\ ViewerInv'
<1> USE DEF IInv
<1> DEFINE proof == milestones[m].proof
           new == Load(m, proof)
<1>1. /\ viewer.proof = NoUri /\ proof # NoUri /\ UNCHANGED <<milestones, photos>>
      /\ viewer' = [milestone |-> m, proof |-> proof, image |-> None]
      /\ loads' = loads \cup {new}
  BY DEF ViewProof, chainVars
<1>2. proof \in Proofs /\ proof.metadata # None
  <2>1. PICK e \in Uploads : proof = [cid |-> e, metadata |-> e]
    BY <1>1 DEF ProofInv
  <2>2. e \in Nat \ {0}
    BY ProofAssumption DEF Uploads
  <2>3. QED BY <2>1, <2>2 DEF Proofs, Uris, None
<1>3. viewer' \in Viewers /\ viewer'.proof = proof /\ viewer'.image = None
  BY <1>1, <1>2 DEF Viewers, None
<1>4. new \in Loads /\ new.proof = proof
  BY <1>2 DEF Load, Loads
<1>5. photos = {} /\ \A load \in loads : ~load.current
  BY <1>1 DEF ViewerInv, ViewerShowsOnlyThatPhoto, NoUri
<1> HIDE DEF new, proof
<1>6. ViewerTypes'
  BY <1>1, <1>3, <1>4 DEF ViewerTypes
<1>7. QED BY <1>1, <1>2, <1>3, <1>4, <1>5, <1>6 DEF ViewerInv, ViewerShowsOnlyThatPhoto

LEMMA CloseViewerKeeps ==
  ASSUME IInv, CloseViewer
  PROVE  ViewerTypes' /\ ViewerInv'
<1> USE DEF IInv
<1>1. /\ viewer' \in Viewers /\ viewer'.proof = NoUri /\ viewer'.image = None
      /\ photos' = {} /\ UNCHANGED milestones
  BY DEF CloseViewer, ViewerTypes, ViewerInv, ViewerShowsOnlyThatPhoto, Viewers, Proofs, None, chainVars
<1>2. loads' \subseteq Loads /\ \A load \in loads' : ~load.current
  <2>1. \A load \in loads : /\ [load EXCEPT !.current = FALSE] \in Loads
                            /\ ~[load EXCEPT !.current = FALSE].current
    <3>1. \A load \in loads : load \in Loads
      BY DEF ViewerTypes
    <3>2. QED BY <3>1 DEF Loads
  <2>2. loads' = {[load EXCEPT !.current = FALSE] : load \in loads}
    BY DEF CloseViewer, Superseded
  <2>3. QED BY <2>1, <2>2
<1>3. QED BY <1>1, <1>2 DEF ViewerTypes, ViewerInv, ViewerShowsOnlyThatPhoto

LEMMA ViewerStepKeeps ==
  ASSUME IInv, ViewerStep
  PROVE  ViewerTypes' /\ ViewerInv'
<1> USE DEF IInv
<1>1. PICK load \in loads :
        ReleaseKey(load) \/ FetchCiphertext(load) \/ ShowPhoto(load) \/ Abort(load)
  BY DEF ViewerStep
<1>2. UNCHANGED milestones /\ load \in Loads
  BY DEF ViewerStep, chainVars, ViewerTypes
<1>3. ASSUME NEW step \in {"find", "fetch", "decrypt"}, LoadProceeds(load, step)
      PROVE  ViewerTypes' /\ ViewerInv'
  <2> DEFINE next == [load EXCEPT !.at = step]
  <2>1. next \in Loads /\ next.proof = load.proof /\ next.current = load.current
    BY <1>2 DEF Loads
  <2>2. LoadBecomes(load, {next}) /\ UNCHANGED <<viewer, photos>>
    BY <1>3 DEF LoadProceeds
  <2> HIDE DEF next
  <2>3. QED BY <1>2, <2>1, <2>2, LoadGoesOn
<1>4. ASSUME LoadFails(load)
      PROVE  ViewerTypes' /\ ViewerInv'
  BY <1>2, <1>4, LoadEnds
<1>5. CASE ReleaseKey(load)
  BY <1>3, <1>4, <1>5 DEF ReleaseKey
<1>6. CASE FetchCiphertext(load)
  <2>1. CASE LoadProceeds(load, "decrypt") \/ LoadFails(load)
    BY <1>3, <1>4, <2>1
  <2>2. CASE LoadBecomes(load, {[load EXCEPT !.gateway = load.gateway + 1]}) /\ UNCHANGED <<viewer, photos>>
    <3> DEFINE next == [load EXCEPT !.gateway = load.gateway + 1]
    <3>1. next \in Loads /\ next.proof = load.proof /\ next.current = load.current
      BY <1>2 DEF Loads
    <3>2. LoadBecomes(load, {next}) /\ UNCHANGED <<viewer, photos>>
      BY <2>2
    <3> HIDE DEF next
    <3>3. QED BY <1>2, <3>1, <3>2, LoadGoesOn
  <2>3. QED BY <1>6, <2>1, <2>2 DEF FetchCiphertext
<1>7. CASE ShowPhoto(load)
  <2>1. CASE ~load.current
    BY <1>4, <1>7, <2>1 DEF ShowPhoto, LoadFails
  <2>2. CASE load.current
    <3> DEFINE photo == viewer.proof.metadata
    <3>1. viewer.proof # NoUri /\ load.proof = viewer.proof
      BY <2>2 DEF ViewerInv
    <3>2. /\ viewer' = [viewer EXCEPT !.image = photo]
          /\ photos' = photos \cup {photo} /\ loads' = loads \ {load}
      BY <1>7, <2>2, <3>1 DEF ShowPhoto, DecryptedPhoto, LoadBecomes
    <3>3. photo \in Nat /\ photo # None
      <4>1. viewer.proof \in Uris
        BY <3>1 DEF ViewerTypes, Viewers, Proofs
      <4>2. QED BY <3>1, <4>1, ProofAssumption DEF Uris, Uploads, ViewerInv
    <3>4. viewer' \in Viewers /\ viewer'.proof = viewer.proof /\ viewer'.image = photo
      BY <3>2, <3>3 DEF ViewerTypes, Viewers
    <3>5. photos' = {viewer'.image} \ {None}
      BY <3>2, <3>3, <3>4 DEF ViewerInv, ViewerShowsOnlyThatPhoto
    <3>6. QED BY <1>2, <3>2, <3>4, <3>5
             DEF ViewerTypes, ViewerInv, ViewerShowsOnlyThatPhoto
  <2>3. QED BY <2>1, <2>2
<1>8. CASE Abort(load)
  BY <1>4, <1>8 DEF Abort
<1>9. QED BY <1>1, <1>5, <1>6, <1>7, <1>8

(* The chain goes on while the viewer keeps the copy it was opened with.    *)
LEMMA ViewerWaits ==
  ASSUME ViewerTypes, ViewerInv, UNCHANGED viewerVars, milestones' \in [Milestones -> MilestoneRecords]
  PROVE  ViewerTypes' /\ ViewerInv'
BY DEF ViewerTypes, ViewerInv, ViewerShowsOnlyThatPhoto, viewerVars

-----------------------------------------------------------------------------
(* All together.                                                            *)

LEMMA ProofInit ==
  ASSUME Init
  PROVE  IInv
<1>1. UploadTypes
  BY DEF Init, UploadTypes, UploadRecords, NoUpload, Milestones
<1>2. ViewerTypes
  BY DEF Init, ViewerTypes, MilestoneRecords, Proofs, Viewers, ClosedViewer, Milestones, None
<1>3. ProofInv
  BY DEF Init, ProofInv, NoUpload
<1>4. ViewerInv
  BY DEF Init, ViewerInv, ViewerShowsOnlyThatPhoto, ClosedViewer
<1>5. QED BY <1>1, <1>2, <1>3, <1>4 DEF IInv

(* A review or a withdrawal.                                                *)
LEMMA BecomingKeeps ==
  ASSUME IInv, NEW m \in Milestones, NEW status \in {"PendingProof", "Rejected", "Paid"},
         NEW proof \in {NoUri, milestones[m].proof}, Becoming(m, status, proof)
  PROVE  IInv'
<1>1. /\ UNCHANGED <<uploads, calls, keys, pinned, viewerVars>>
      /\ milestones' = [milestones EXCEPT ![m] = [status |-> status, proof |-> proof]]
  BY DEF Becoming, serverVars
<1>2. UploadInv'
  <2>1. UploadsGoOn /\ uploads' \in [Uploads -> UploadRecords]
    BY <1>1, UploadsAlone DEF IInv, UploadTypes
  <2>2. QED BY <1>1, <2>1, MilestoneKeeps DEF IInv, UploadInv
<1>3. milestones' \in [Milestones -> MilestoneRecords]
  <2>1. proof \in Proofs
    BY DEF IInv, ViewerTypes, MilestoneRecords, Proofs
  <2>2. [status |-> status, proof |-> proof] \in MilestoneRecords
    BY <2>1 DEF MilestoneRecords
  <2>3. QED BY <1>1, <2>2 DEF IInv, ViewerTypes
<1>4. QED BY <1>1, <1>2, <1>3, ViewerWaits DEF IInv, UploadInv

(* A request delivered a second time starts from the beginning.             *)
LEMMA TwinFacts ==
  ASSUME NEW call \in Calls
  PROVE  LET twin == [call EXCEPT !.at = "arrived", !.copy = 2, !.attempt = 0]
         IN  twin \in Calls /\ twin.upload = call.upload /\ twin.at = "arrived"
<1> DEFINE arrived == [call EXCEPT !.at = "arrived"]
           second == [arrived EXCEPT !.copy = 2]
           twin == [second EXCEPT !.attempt = 0]
<1>1. arrived \in Calls /\ arrived.upload = call.upload /\ arrived.at = "arrived"
  BY DEF Calls
<1> HIDE DEF arrived
<1>2. second \in Calls /\ second.upload = call.upload /\ second.at = "arrived"
  BY <1>1 DEF Calls
<1> HIDE DEF second
<1>3. twin \in Calls /\ twin.upload = call.upload /\ twin.at = "arrived"
  BY <1>2 DEF Calls
<1>4. twin = [call EXCEPT !.at = "arrived", !.copy = 2, !.attempt = 0]
  BY DEF second, arrived
<1>5. QED BY <1>3, <1>4

LEMMA ProofStep ==
  ASSUME IInv, [Next]_vars
  PROVE  IInv'
<1>1. ASSUME UploadInv', UNCHANGED <<milestones, viewerVars>> PROVE IInv'
  BY <1>1, ViewerAlone DEF IInv, UploadInv
<1>2. ASSUME UNCHANGED <<uploads, calls, keys, milestones>>, pinned \subseteq pinned'
      PROVE  UploadInv'
  BY <1>2, UploadsAlone, KeysAlone, ProofsKept DEF IInv, UploadInv, UploadTypes
<1>3. CASE Tick \/ RequestEnds \/ ForgetSessions \/ UNCHANGED vars
  <2>1. UNCHANGED <<uploads, calls, keys, milestones, pinned, viewerVars>>
    BY <1>3 DEF Tick, RequestEnds, ForgetSessions, vars, chainVars, serverVars
  <2>2. QED BY <1>1, <1>2, <2>1
<1>4. ASSUME NEW m \in Milestones, WithdrawProof(m) PROVE IInv'
  BY <1>4, BecomingKeeps DEF WithdrawProof
<1>5. ASSUME NEW m \in Milestones, NEW approve \in BOOLEAN, Review(m, approve) PROVE IInv'
  BY <1>5, BecomingKeeps DEF Review
<1>6. ASSUME NEW m \in Milestones, NEW size \in PhotoSizes, ChoosePhoto(m, size) PROVE IInv'
  BY <1>1, <1>6, ChoosePhotoKeeps DEF IInv, UploadInv, ChoosePhoto, chainVars
<1>7. ASSUME NEW e \in Uploads, BrowserStep(e) PROVE IInv'
  <2>1. UNCHANGED <<milestones, viewerVars>>
    BY <1>7 DEF BrowserStep, EncryptProofFile, UploadCiphertext, FetchFails, chainVars
  <2>2. QED BY <1>1, <1>7, <2>1, BrowserKeeps DEF IInv, UploadInv
<1>8. ASSUME NEW e \in Uploads, HandlerStep(e) PROVE IInv'
  <2>1. UNCHANGED <<milestones, viewerVars>>
    BY <1>8 DEF HandlerStep, chainVars
  <2>2. QED BY <1>1, <1>8, <2>1, HandlerKeeps DEF IInv, UploadInv
<1>9. ASSUME NEW e \in Uploads, SubmitProof(e) PROVE IInv'
  <2>1. UploadInv' /\ UNCHANGED viewerVars
    BY <1>9, SubmitKeeps DEF IInv, UploadInv, SubmitProof
  <2>2. milestones' \in [Milestones -> MilestoneRecords]
    <3>1. [status |-> "Submitted", proof |-> BuildEncryptedProofUri(e, e)] \in MilestoneRecords
      BY DEF MilestoneRecords, Proofs, Uris, BuildEncryptedProofUri
    <3>2. QED BY <1>9, <3>1 DEF SubmitProof, IInv, ViewerTypes
  <2>3. QED BY <2>1, <2>2, ViewerWaits DEF IInv, UploadInv
<1>10. CASE FinalizeArrivesTwice
  <2>1. PICK call \in calls :
          calls' = calls \cup {[call EXCEPT !.at = "arrived", !.copy = 2, !.attempt = 0]}
    BY <1>10 DEF FinalizeArrivesTwice
  <2>2. UNCHANGED <<uploads, keys, pinned, milestones, viewerVars>>
    BY <1>10 DEF FinalizeArrivesTwice, chainVars
  <2> DEFINE twin == [call EXCEPT !.at = "arrived", !.copy = 2, !.attempt = 0]
  <2>3. call \in Calls /\ uploads[call.upload].stage # "none"
    BY CallFacts DEF IInv, UploadInv
  <2>4. twin \in Calls /\ twin.upload = call.upload /\ twin.at = "arrived"
    BY <2>3, TwinFacts
  <2>5. calls' = calls \cup {twin}
    BY <2>1
  <2> HIDE DEF twin
  <2>6. CallGoesOn(twin)
    BY <2>2, <2>3, <2>4 DEF CallGoesOn
  <2>7. UploadInv'
    BY <2>2, <2>5, <2>6, UploadsAlone, KeysAlone, ProofsKept DEF IInv, UploadInv, UploadTypes
  <2>8. QED BY <1>1, <2>2, <2>7
<1>11. CASE ServerRestarts
  <2>1. calls' = {} /\ UNCHANGED <<uploads, keys, pinned, milestones, viewerVars>>
    BY <1>11 DEF ServerRestarts, chainVars
  <2>2. UploadInv'
    BY <2>1, UploadsAlone, KeysAlone, ProofsKept DEF IInv, UploadInv, UploadTypes
  <2>3. QED BY <1>1, <2>1, <2>2
<1>12. ASSUME \/ \E m \in Milestones : ViewProof(m)
              \/ CloseViewer \/ ViewerStep
       PROVE  IInv'
  <2>1. UNCHANGED <<uploads, calls, keys, pinned, milestones>>
    BY <1>12 DEF ViewProof, CloseViewer, ViewerStep, chainVars, serverVars
  <2>2. ViewerTypes' /\ ViewerInv'
    BY <1>12, ViewProofKeeps, CloseViewerKeeps, ViewerStepKeeps
  <2>3. QED BY <1>2, <2>1, <2>2 DEF IInv, UploadInv
<1>13. QED
  BY <1>3, <1>4, <1>5, <1>6, <1>7, <1>8, <1>9, <1>10, <1>11, <1>12 DEF Next

-----------------------------------------------------------------------------
(* The theorems.                                                            *)

LEMMA ProofInvariant == Spec => []IInv
<1>1. Init => IInv
  BY ProofInit
<1>2. IInv /\ [Next]_vars => IInv'
  BY ProofStep
<1>3. QED BY <1>1, <1>2, PTL DEF Spec

(* Every proof the chain records can be opened again: its ciphertext is     *)
(* pinned and its key stored under that milestone and CID, because          *)
(* proofs.js answers a finalization, and only then the carrier submits the  *)
(* URI, after it has retrieved the one and stored the other.                *)
THEOREM RecordedProofsAlwaysOpen == Spec => []RecordedProofsOpen
<1>1. IInv => RecordedProofsOpen
  <2>1. ASSUME IInv, NEW m \in Milestones, milestones[m].proof # NoUri
        PROVE  /\ milestones[m].proof.cid \in pinned
               /\ \E row \in RowsFor(m, milestones[m].proof.cid) : Opens(row, m, milestones[m].proof)
    <3>1. PICK e \in Uploads : milestones[m].proof = [cid |-> e, metadata |-> e] /\ Opened(m, e)
      BY <2>1 DEF IInv, ProofInv
    <3>2. Row(m, e, e) \in keys /\ e \in pinned
      BY <3>1 DEF Opened, HasKey
    <3>3. Row(m, e, e) \in RowsFor(m, e)
      BY <3>2 DEF RowsFor, Row
    <3>4. Opens(Row(m, e, e), m, [cid |-> e, metadata |-> e])
      BY DEF Opens, MatchesUri, Unwraps, Row, WrapDataKey
    <3>5. QED BY <3>1, <3>2, <3>3, <3>4
  <2>2. QED BY <2>1 DEF RecordedProofsOpen
<1>2. QED BY <1>1, ProofInvariant, PTL

(* The proof viewer shows the photo it was opened with or none, and the     *)
(* object URLs alive are the one it shows: the effect of Track.jsx that     *)
(* opens a proof revokes what a superseded load still brings.               *)
THEOREM ViewerAlwaysShowsOnlyThatPhoto == Spec => []ViewerShowsOnlyThatPhoto
<1>1. IInv => ViewerShowsOnlyThatPhoto
  BY DEF IInv, ViewerInv
<1>2. QED BY <1>1, ProofInvariant, PTL

=============================================================================
