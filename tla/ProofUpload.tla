----------------------------- MODULE ProofUpload -----------------------------
(***************************************************************************)
(* A milestone's photo from the carrier's browser to the shipper's screen:  *)
(* encryption and upload (src/lib/proofApiClient.js, src/utils), upload     *)
(* sessions, finalization and key release (server/routes/proofs.js), the    *)
(* chain's say in both (chainReader.js, DeliveryEscrow.sol), the IPFS       *)
(* provider (ipfsProvider.js) and the store of wrapped keys                 *)
(* (proofKeyService.js).                                                    *)
(*                                                                          *)
(* Every upload encrypts its photo under a fresh key and IV, so upload e    *)
(* stands for its photo, its key, its metadata (IV, hashes, type), its      *)
(* ciphertext and, content being addressed by its hash, for its CID; other  *)
(* content is Other.                                                        *)
(* The reads of one authorization are one step.  An HTTP request may be     *)
(* lost, delivered twice, or answered to a browser that has gone.           *)
(***************************************************************************)
EXTENDS Integers, FiniteSets

CONSTANTS
  MaxUploads,
  Gateways,                   \* number of gateways the browser is configured with
  Retries,                    \* DEFAULT_RETRIEVAL_RETRIES
  MaxPlaintext, Tag,          \* PROOF_MAX_PLAINTEXT_BYTES, AES_GCM_TAG_BYTES
  PhotoSizes,
  SessionTtl,                 \* UPLOAD_SESSION_TTL_MS
  Deadline, MaxTime,          \* bound on the clock
  MaxTroubles,                \* bound: lost and doubled requests, restarts, bad gateway answers
  MaxReviews,                 \* bound: rejections and withdrawals
  MaxLoads                    \* bound: loads of the viewer under way

ASSUME ProofAssumption ==
  /\ {MaxUploads, Gateways, Retries, MaxPlaintext, Tag, SessionTtl, Deadline, MaxTime,
      MaxTroubles, MaxReviews, MaxLoads} \subseteq Nat
  /\ PhotoSizes \subseteq Nat

Uploads == 1 .. MaxUploads
None == 0
Other == MaxUploads + 1
Milestones == 1 .. 2          \* in their execution order
NoUri == [cid |-> None, metadata |-> None]
MaxCiphertext == MaxPlaintext + Tag

VARIABLES
  now,
  active, milestones, reviews,   \* the contract: is the request active; status and proof
  uploads,                       \* the browser's uploads
  sessions,                      \* the server's Map: expiry of the session of an upload, or None
  calls,                         \* requests the server is working on
  pinned,                        \* what is on IPFS
  keys,                          \* proof_keys: <<milestone, cid>> and what the row holds
  viewer, loads, photos,         \* the proof viewer, its loads, the object URLs alive
  troubles

chainVars == <<active, milestones, reviews>>
viewerVars == <<viewer, loads, photos>>
serverVars == <<sessions, calls, keys>>
vars == <<now, chainVars, uploads, serverVars, pinned, viewerVars, troubles>>

NoUpload == [milestone |-> 1, size |-> 0, stage |-> "none", failure |-> "none"]
Running == {"encrypting", "authorizing", "uploading", "finalizing"}
ClosedViewer == [milestone |-> 1, proof |-> NoUri, image |-> None]

Init ==
  /\ now = 0
  /\ active = TRUE
  /\ milestones = [m \in Milestones |-> [status |-> "PendingProof", proof |-> NoUri]]
  /\ reviews = 0
  /\ uploads = [e \in Uploads |-> NoUpload]
  /\ sessions = [e \in Uploads |-> None]
  /\ calls = {}
  /\ pinned = {}
  /\ keys = {}
  /\ viewer = ClosedViewer
  /\ loads = {}
  /\ photos = {}
  /\ troubles = 0

Trouble == troubles < MaxTroubles /\ troubles' = troubles + 1

Tick ==
  /\ now < MaxTime
  /\ now' = now + 1
  /\ UNCHANGED <<chainVars, uploads, serverVars, pinned, viewerVars, troubles>>

-----------------------------------------------------------------------------
(* The contract, and what the server makes of it.                           *)

PreviousPaid(m) == m > 1 => milestones[m - 1].status = "Paid"
AcceptsProof(m) ==
  /\ active
  /\ now <= Deadline
  /\ milestones[m].status \in {"PendingProof", "Rejected"}
  /\ PreviousPaid(m)

(* What the server asks of the chain before an upload and before a key's    *)
(* release; the carrier uploads and the two participants look, as the page  *)
(* has it.                                                                  *)
AuthorizeProofUpload(m) == AcceptsProof(m)
IsProofUriForCid(uri, cid) == uri.cid = cid
AuthorizeProofKey(m, cid) == IsProofUriForCid(milestones[m].proof, cid)

Becoming(m, status, proof) ==
  /\ milestones[m].status = "Submitted"
  /\ milestones' = [milestones EXCEPT ![m] = [status |-> status, proof |-> proof]]
  /\ UNCHANGED <<now, active, uploads, serverVars, pinned, viewerVars, troubles>>

Review(m, approve) ==
  /\ Becoming(m, IF approve THEN "Paid" ELSE "Rejected", milestones[m].proof)
  /\ IF approve THEN UNCHANGED reviews ELSE reviews < MaxReviews /\ reviews' = reviews + 1

(* Rejected again, when it was a correction: that accepts a proof as well.  *)
WithdrawProof(m) ==
  /\ active /\ now <= Deadline
  /\ reviews < MaxReviews /\ reviews' = reviews + 1
  /\ Becoming(m, "PendingProof", NoUri)

RequestEnds ==
  /\ active
  /\ active' = FALSE
  /\ UNCHANGED <<now, milestones, reviews, uploads, serverVars, pinned, viewerVars, troubles>>

-----------------------------------------------------------------------------
(* The carrier's browser.                                                   *)

Idle == \A e \in Uploads : uploads[e].stage \notin Running \cup {"answered"}
NextUpload(e) ==
  uploads[e].stage = "none" /\ \A other \in 1 .. (e - 1) : uploads[other].stage # "none"

SetStage(e, stage) == uploads' = [uploads EXCEPT ![e].stage = stage]
FailUpload(e, failure) ==
  uploads' = [uploads EXCEPT ![e].stage = "failed", ![e].failure = failure]

ValidateProofFile(size) == size <= MaxPlaintext

ChoosePhoto(m, size) ==
  /\ Idle
  /\ ValidateProofFile(size)
  /\ \E e \in Uploads :
       /\ NextUpload(e)
       /\ uploads' = [uploads EXCEPT ![e] =
            [NoUpload EXCEPT !.milestone = m, !.size = size, !.stage = "encrypting"]]
  /\ UNCHANGED <<now, chainVars, serverVars, pinned, viewerVars, troubles>>

Call(op, e) == [op |-> op, upload |-> e, at |-> "arrived", attempt |-> 0, copy |-> 1]
InFlight(e) == \E call \in calls : call.upload = e

CiphertextSize(e) == uploads[e].size + Tag

EncryptProofFile(e) ==
  /\ uploads[e].stage = "encrypting"
  /\ IF uploads[e].size = 0 \/ CiphertextSize(e) > MaxCiphertext
     THEN FailUpload(e, "size") /\ UNCHANGED calls
     ELSE SetStage(e, "authorizing") /\ calls' = calls \cup {Call("session", e)}
  /\ UNCHANGED <<now, chainVars, sessions, keys, pinned, viewerVars, troubles>>

(* The provider may answer with a CID before its gateway has the content.   *)
UploadCiphertext(e) ==
  /\ uploads[e].stage = "uploading"
  /\ \/ pinned' = pinned \cup {e} /\ UNCHANGED troubles
     \/ UNCHANGED pinned /\ Trouble
  /\ \/ SetStage(e, "finalizing") /\ calls' = calls \cup {Call("finalize", e)}
     \/ troubles' # troubles /\ FailUpload(e, "provider") /\ UNCHANGED calls
  /\ UNCHANGED <<now, chainVars, sessions, keys, viewerVars>>

Waiting(e) == uploads[e].stage \in {"authorizing", "finalizing"}

(* The fetch rejects: the page was left, the connection dropped, or nobody  *)
(* is working on the request any more.                                      *)
FetchFails(e) ==
  /\ Waiting(e)
  /\ \/ ~InFlight(e) /\ UNCHANGED troubles
     \/ InFlight(e) /\ Trouble
  /\ FailUpload(e, "network")
  /\ UNCHANGED <<now, chainVars, serverVars, pinned, viewerVars>>

(* pinEncryptedProof has returned the URI, and the wallet has confirmed.    *)
BuildEncryptedProofUri(cid, metadata) == [cid |-> cid, metadata |-> metadata]

SubmitProof(e) ==
  LET m == uploads[e].milestone
  IN  /\ uploads[e].stage = "answered"
      /\ IF AcceptsProof(m)
         THEN /\ milestones' = [milestones EXCEPT ![m] = [status |-> "Submitted", proof |-> BuildEncryptedProofUri(e, e)]]
              /\ SetStage(e, "submitted")
         ELSE FailUpload(e, "reverted") /\ UNCHANGED milestones
      /\ UNCHANGED <<now, active, reviews, serverVars, pinned, viewerVars, troubles>>

-----------------------------------------------------------------------------
(* The server's handlers, one step between two awaits.                      *)

Becomes(call, next) == calls' = (calls \ {call}) \cup next
Proceeds(call, step) ==
  /\ Becomes(call, {[call EXCEPT !.at = step]})
  /\ UNCHANGED <<uploads, sessions, keys>>

(* The answer reaches the browser if it still waits for this request.       *)
Answer(call, waiting, stage) ==
  IF uploads[call.upload].stage = waiting THEN SetStage(call.upload, stage) ELSE UNCHANGED uploads
Refuse(call, failure) ==
  /\ IF Waiting(call.upload) THEN FailUpload(call.upload, failure) ELSE UNCHANGED uploads
  /\ Becomes(call, {})
  /\ UNCHANGED <<sessions, keys>>

(* validateUploadMetadata: its size checks.                                 *)
ValidMetadata(e) ==
  uploads[e].size \in 1 .. MaxPlaintext /\ CiphertextSize(e) \in (Tag + 1) .. MaxCiphertext

Authorize(call, next) ==
  IF AuthorizeProofUpload(uploads[call.upload].milestone)
  THEN Proceeds(call, next)
  ELSE Refuse(call, "authorization")

CheckSessionRequest(call) ==
  /\ call.op = "session" /\ call.at = "arrived"
  /\ IF ValidMetadata(call.upload) THEN Authorize(call, "sign") ELSE Refuse(call, "size")
  /\ UNCHANGED troubles

(* createSignedUploadUrl fails, or a session goes with the URL.             *)
NoSignedUrl(call) == Trouble /\ Refuse(call, "provider")

OpenSession(call) ==
  LET e == call.upload
  IN  /\ call.op = "session" /\ call.at = "sign"
      /\ \/ NoSignedUrl(call)
         \/ /\ sessions' = [sessions EXCEPT ![e] = now + SessionTtl]
            /\ Answer(call, "authorizing", "uploading")
            /\ Becomes(call, {})
            /\ UNCHANGED <<keys, troubles>>

SessionOpen(e) == sessions[e] # None /\ now < sessions[e]

CheckSession(call) ==
  /\ call.op = "finalize" /\ call.at = "arrived"
  /\ IF SessionOpen(call.upload)
     THEN Proceeds(call, "authorize")
     ELSE /\ sessions' = [sessions EXCEPT ![call.upload] = None]
          /\ IF Waiting(call.upload) THEN FailUpload(call.upload, "expired") ELSE UNCHANGED uploads
          /\ Becomes(call, {})
          /\ UNCHANGED <<keys>>
  /\ UNCHANGED troubles

AuthorizeFinalize(call) ==
  /\ call.op = "finalize" /\ call.at = "authorize"
  /\ Authorize(call, "retrieve")
  /\ UNCHANGED troubles

AttemptCount == LET n == IF Retries + 1 < 4 THEN Retries + 1 ELSE 4 IN IF n > 1 THEN n ELSE 1

(* Slip: the loop does not count.                                           *)
SameAttempt(call) == [call EXCEPT !.attempt = 0]
NextAttempt(call) == [call EXCEPT !.attempt = @ + 1]

(* What a gateway answers: the content of the CID, other content, or        *)
(* nothing within its time.                                                 *)
GatewayDelivers(cid, content) ==
  \/ content = cid /\ cid \in pinned /\ UNCHANGED troubles
  \/ content = Other /\ Trouble
GatewayFails(cid) ==
  \/ cid \notin pinned /\ UNCHANGED troubles
  \/ cid \in pinned /\ Trouble

(* One attempt of verifyCidRetrieval: wrong content ends the matter, any    *)
(* other failure is retried.                                                *)
Retrieve(call) ==
  LET e == call.upload
  IN  /\ call.op = "finalize" /\ call.at = "retrieve"
      /\ \/ \E content \in {e, Other} :
              /\ GatewayDelivers(e, content)
              /\ IF content = e THEN Proceeds(call, "store") ELSE Refuse(call, "integrity")
         \/ /\ GatewayFails(e)
            /\ IF call.attempt + 1 < AttemptCount
               THEN /\ Becomes(call, {NextAttempt(call)})
                    /\ UNCHANGED <<uploads, sessions, keys>>
               ELSE Refuse(call, "provider")

(* A data key is wrapped together with what it is for.                      *)
KeyAad(m, cid) == [milestone |-> m, cid |-> cid]
WrapDataKey(dataKey, aad) == [dataKey |-> dataKey, aad |-> aad]
Unwraps(wrapped, aad) == wrapped.aad = aad

(* The row a finalize call stores, and those a key request finds.           *)
Row(m, cid, e) ==
  [milestone |-> m, cid |-> cid, metadata |-> e, wrapped |-> WrapDataKey(e, KeyAad(m, cid))]
RowsFor(m, cid) == {row \in keys : row.milestone = m /\ row.cid = cid}

(* Slip: the error the database returns is not looked at.                   *)
StoreKeyUnchecked(call) ==
  LET m == uploads[call.upload].milestone
      e == call.upload
  IN  /\ call.op = "finalize" /\ call.at = "store"
      /\ \/ keys' = (keys \ RowsFor(m, e)) \cup {Row(m, e, e)} /\ UNCHANGED troubles
         \/ Trouble /\ UNCHANGED keys
      /\ Becomes(call, {[call EXCEPT !.at = "stored"]})
      /\ UNCHANGED <<uploads, sessions>>

StoreKey(call) ==
  LET m == uploads[call.upload].milestone
      e == call.upload
  IN  /\ call.op = "finalize" /\ call.at = "store"
      /\ \/ Trouble /\ Refuse(call, "database")
         \/ /\ keys' = (keys \ RowsFor(m, e)) \cup {Row(m, e, e)}
            /\ Becomes(call, {[call EXCEPT !.at = "stored"]})
            /\ UNCHANGED <<uploads, sessions, troubles>>

FinishFinalize(call) ==
  /\ call.op = "finalize" /\ call.at = "stored"
  /\ sessions' = [sessions EXCEPT ![call.upload] = None]
  /\ Answer(call, "finalizing", "answered")
  /\ Becomes(call, {})
  /\ UNCHANGED <<keys, troubles>>

HandlerStep(e) ==
  /\ \E call \in calls :
       /\ call.upload = e
       /\ \/ CheckSessionRequest(call) \/ OpenSession(call)
          \/ CheckSession(call) \/ AuthorizeFinalize(call) \/ Retrieve(call) \/ StoreKey(call)
          \/ FinishFinalize(call)
  /\ UNCHANGED <<now, chainVars, pinned, viewerVars>>

ForgetSessions ==
  /\ \E e \in Uploads : sessions[e] # None /\ ~SessionOpen(e)
  /\ sessions' = [e \in Uploads |-> IF SessionOpen(e) THEN sessions[e] ELSE None]
  /\ UNCHANGED <<now, chainVars, uploads, calls, keys, pinned, viewerVars, troubles>>

FinalizeArrivesTwice ==
  /\ Trouble
  /\ \E call \in calls :
       call.op = "finalize" /\ call.copy = 1
       /\ calls' = calls \cup {[call EXCEPT !.at = "arrived", !.copy = 2, !.attempt = 0]}
  /\ UNCHANGED <<now, chainVars, uploads, sessions, keys, pinned, viewerVars>>

(* Sessions live in memory only, proof keys in the database.                *)
ServerRestarts ==
  /\ Trouble
  /\ sessions' = [e \in Uploads |-> None]
  /\ calls' = {}
  /\ UNCHANGED <<now, chainVars, uploads, keys, pinned, viewerVars>>

-----------------------------------------------------------------------------
(* The proof viewer of the page.  It is opened with a copy of the milestone *)
(* and closed by the user, or because the wallet changed.                   *)

GatewayUrls == 1 .. Gateways

Load(m, proof) ==
  [milestone |-> m, proof |-> proof, at |-> "key", gateway |-> 1, current |-> TRUE]
Superseded == {[load EXCEPT !.current = FALSE] : load \in loads}

ViewProof(m) ==
  /\ viewer.proof = NoUri /\ milestones[m].proof # NoUri
  /\ Cardinality(loads) < MaxLoads
  /\ viewer' = [milestone |-> m, proof |-> milestones[m].proof, image |-> None]
  /\ loads' = loads \cup {Load(m, milestones[m].proof)}
  /\ UNCHANGED <<now, chainVars, uploads, serverVars, pinned, photos, troubles>>

(* The effect's cleanup.                                                    *)
CloseViewer ==
  /\ viewer.proof # NoUri
  /\ viewer' = [viewer EXCEPT !.proof = NoUri, !.image = None]
  /\ photos' = photos \ {viewer.image}
  /\ loads' = Superseded
  /\ UNCHANGED <<now, chainVars, uploads, serverVars, pinned, troubles>>

LoadBecomes(load, next) == loads' = (loads \ {load}) \cup next
LoadProceeds(load, step) == LoadBecomes(load, {[load EXCEPT !.at = step]}) /\ UNCHANGED <<viewer, photos>>
LoadFails(load) == LoadBecomes(load, {}) /\ UNCHANGED <<viewer, photos>>

(* The key in the row is the one for this proof, for server and browser.    *)
MatchesUri(row, proof) == row.metadata = proof.metadata
Opens(row, m, proof) == MatchesUri(row, proof) /\ Unwraps(row.wrapped, KeyAad(m, proof.cid))

(* GET .../key: the chain is asked first, then the table.                   *)
ReleaseKey(load) ==
  \/ /\ load.at = "key"
     /\ IF AuthorizeProofKey(load.milestone, load.proof.cid)
        THEN LoadProceeds(load, "find") ELSE LoadFails(load)
     /\ UNCHANGED troubles
  \/ /\ load.at = "find"
     /\ IF \E row \in RowsFor(load.milestone, load.proof.cid) : Opens(row, load.milestone, load.proof)
        THEN LoadProceeds(load, "fetch") ELSE LoadFails(load)
     /\ UNCHANGED troubles

(* fetchCiphertextFromGateways: one gateway after the other.                *)
FetchCiphertext(load) ==
  LET cid == load.proof.cid
  IN  /\ load.at = "fetch"
      /\ \/ GatewayDelivers(cid, cid) /\ LoadProceeds(load, "decrypt")
         \/ /\ GatewayDelivers(cid, Other) \/ GatewayFails(cid)
            /\ IF load.gateway + 1 \in GatewayUrls
               THEN LoadBecomes(load, {[load EXCEPT !.gateway = @ + 1]}) /\ UNCHANGED <<viewer, photos>>
               ELSE LoadFails(load)

DecryptedPhoto(load) == load.proof.metadata

(* decryptProof makes an object URL; a load that was superseded meanwhile   *)
(* revokes it on the spot.                                                  *)
(* Slip: the result of any load is shown.                                   *)
ShowLatecomer(load) ==
  /\ load.at = "decrypt"
  /\ LoadBecomes(load, {})
  /\ viewer' = [viewer EXCEPT !.image = DecryptedPhoto(load)]
  /\ photos' = photos \cup {DecryptedPhoto(load)}
  /\ UNCHANGED troubles

ShowPhoto(load) ==
  /\ load.at = "decrypt"
  /\ LoadBecomes(load, {})
  /\ IF load.current
     THEN viewer' = [viewer EXCEPT !.image = DecryptedPhoto(load)] /\ photos' = photos \cup {DecryptedPhoto(load)}
     ELSE UNCHANGED <<viewer, photos>>
  /\ UNCHANGED troubles

Abort(load) == ~load.current /\ LoadFails(load) /\ UNCHANGED troubles

ViewerStep ==
  /\ \E load \in loads : ReleaseKey(load) \/ FetchCiphertext(load) \/ ShowPhoto(load) \/ Abort(load)
  /\ UNCHANGED <<now, chainVars, uploads, serverVars, pinned>>

-----------------------------------------------------------------------------
BrowserStep(e) == EncryptProofFile(e) \/ UploadCiphertext(e) \/ FetchFails(e)

Next ==
  \/ Tick \/ RequestEnds
  \/ \E m \in Milestones : WithdrawProof(m) \/ \E approve \in BOOLEAN : Review(m, approve)
  \/ \E m \in Milestones, size \in PhotoSizes : ChoosePhoto(m, size)
  \/ \E e \in Uploads : BrowserStep(e) \/ SubmitProof(e) \/ HandlerStep(e)
  \/ ForgetSessions \/ FinalizeArrivesTwice \/ ServerRestarts
  \/ \E m \in Milestones : ViewProof(m)
  \/ CloseViewer \/ ViewerStep

Spec == Init /\ [][Next]_vars

(* A page that runs goes on, and so does a handler; a promise settles.      *)
FairSpec ==
  /\ Spec
  /\ \A e \in Uploads : WF_vars(BrowserStep(e)) /\ WF_vars(HandlerStep(e))

-----------------------------------------------------------------------------
Uris == [cid : Uploads, metadata : Uploads]

(* Properties.                                                              *)

(* A proof on chain can always be opened again: its ciphertext is on IPFS   *)
(* and its key is stored under the very milestone and CID the chain names,  *)
(* whatever was retried, refused or restarted on the way.                   *)
RecordedProofsOpen ==
  \A m \in Milestones :
    LET proof == milestones[m].proof
    IN  proof # NoUri =>
          /\ proof.cid \in pinned
          /\ \E row \in RowsFor(m, proof.cid) : Opens(row, m, proof)

(* The viewer shows the photo of the proof it was opened with, never that   *)
(* of a load begun for an earlier one, and a decrypted photo lives only as  *)
(* long as the viewer shows it (proofApiClient.js:290-293): no load,        *)
(* however late, leaves one behind.                                         *)
ViewerShowsOnlyThatPhoto ==
  /\ viewer.image \in {None, viewer.proof.metadata}
  /\ photos = {viewer.image} \ {None}

(* An upload that was started comes to its URI or to an error, so the page  *)
(* does not stay busy: after lost answers, restarts and refused retrievals. *)
EveryUploadEnds == \A e \in Uploads : uploads[e].stage \in Running ~> uploads[e].stage \notin Running

=============================================================================
