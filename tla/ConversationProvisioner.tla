----------------------- MODULE ConversationProvisioner -----------------------
(***************************************************************************)
(* The API server's provisioner of delivery chats                           *)
(* (server/services/acceptedConversationProvisioner.js with                 *)
(* conversationService.js): as soon as the chain confirms an accepted       *)
(* carrier the delivery gets its conversation.  The server may stop and     *)
(* start, the escrow may be deployed anew while it runs, and every read of  *)
(* the chain or the database is awaited and may fail.                       *)
(*                                                                          *)
(* A delivery is a request with its accepted carrier, <<r, c>>.  Several    *)
(* asynchronous calls are in flight at once: one per event, and one per     *)
(* reconciliation, which goes through the requests one after another.       *)
(***************************************************************************)
EXTENDS Integers, CargoSums

CONSTANTS
  Carriers, NoCarrier,
  MaxRequests,             \* bound: requests of all deployments together
  MaxDeployments,
  MaxTroubles              \* bound: new deployments, crashes and failures together

Requests == 1 .. MaxRequests
NoRequest == 0
Deployments == 1 .. MaxDeployments
Deliveries == Requests \X Carriers
NotListening == 0

ASSUME BoundAssumption ==
  /\ MaxDeployments \in Nat \ {0} /\ MaxTroubles \in Nat
  /\ MaxRequests \in Nat /\ NoCarrier \notin Carriers

VARIABLES
  deployment,              \* the escrow named by the build artifact
  created, proposed, accepted,   \* per deployment: number of requests, proposals, acceptances
  up,
  listening,               \* the deployment of listeningContract
  calls,                   \* asynchronous calls in flight
  conversations,           \* rows, unique by deployment, request and carrier
  failed,                  \* history: requests for which something failed, see Fail
  troubles                 \* how many there have been

chainVars == <<deployment, created, proposed, accepted>>
vars == <<chainVars, up, listening, calls, conversations, failed, troubles>>

NoCall ==
  [at |-> "ids", request |-> NoRequest, carrier |-> NoCarrier, address |-> NotListening,
   remaining |-> {}]

Init ==
  /\ deployment = 1
  /\ created = [d \in Deployments |-> 0]
  /\ proposed = [d \in Deployments |-> {}]
  /\ accepted = [d \in Deployments |-> {}]
  /\ up = FALSE
  /\ listening = NotListening
  /\ calls = {}
  /\ conversations = {}
  /\ failed = {}
  /\ troubles = 0

-----------------------------------------------------------------------------
(* The chain, as the server sees it.                                        *)

CreateRequest ==
  /\ SumOver(created) < MaxRequests
  /\ created' = [created EXCEPT ![deployment] = @ + 1]
  /\ UNCHANGED <<deployment, proposed, accepted, up, listening, calls, conversations,
                 failed, troubles>>

Propose(r, c) ==
  /\ r <= created[deployment]
  /\ <<r, c>> \notin proposed[deployment]
  /\ proposed' = [proposed EXCEPT ![deployment] = @ \cup {<<r, c>>}]
  /\ UNCHANGED <<deployment, created, accepted, up, listening, calls,
                 conversations, failed, troubles>>

(* Only a listener that is bound to this deployment is called with the      *)
(* MilestonePlanAccepted event.  Failures before it are no excuse.          *)
HandlerCall(r, c) == [NoCall EXCEPT !.at = "verify", !.request = r, !.carrier = c]

Accept(r, c) ==
  /\ <<r, c>> \in proposed[deployment]
  /\ \A other \in Carriers : <<r, other>> \notin accepted[deployment]
  /\ accepted' = [accepted EXCEPT ![deployment] = @ \cup {<<r, c>>}]
  /\ calls' = IF listening = deployment THEN calls \cup {HandlerCall(r, c)} ELSE calls
  /\ failed' = failed \ {r}
  /\ UNCHANGED <<deployment, created, proposed, up, listening, conversations, troubles>>

Trouble == troubles < MaxTroubles /\ troubles' = troubles + 1

Redeploy ==
  /\ deployment < MaxDeployments
  /\ Trouble
  /\ deployment' = deployment + 1
  /\ UNCHANGED <<created, proposed, accepted, up, listening, calls, conversations, failed>>

-----------------------------------------------------------------------------
(* Binding the listener.                                                    *)

Reconciliation == NoCall

(* The listener is bound, and recorded, before reconciliation is awaited.   *)
(* contract.on is asynchronous; its subscription is taken for made before   *)
(* the first of the reads that follow it.                                   *)
Bind ==
  /\ listening' = deployment
  /\ failed' = {}
  /\ calls' = calls \cup {Reconciliation}

Start ==
  /\ ~up
  /\ up' = TRUE
  /\ Bind
  /\ UNCHANGED <<chainVars, conversations, troubles>>

(* The refresh timer does something only when the deployment is another one.*)
Refresh ==
  /\ up
  /\ listening # deployment
  /\ Bind
  /\ UNCHANGED <<chainVars, up, conversations, troubles>>

Crash ==
  /\ up
  /\ Trouble
  /\ up' = FALSE
  /\ listening' = NotListening
  /\ calls' = {}
  /\ UNCHANGED <<chainVars, conversations, failed>>

-----------------------------------------------------------------------------
(* The calls.  Continued is what becomes of a call when one delivery is     *)
(* dealt with, or given up: an event's call ends, a reconciliation goes on. *)

Continued(call) ==
  IF call.remaining = {} THEN {}
  ELSE {[NoCall EXCEPT !.at = "scan", !.remaining = call.remaining]}

Becomes(call, next) == calls' = (calls \ {call}) \cup next

GetRequestIds(call) ==
  /\ call.at = "ids"
  /\ Becomes(call, Continued([call EXCEPT !.remaining = 1 .. created[deployment]]))
  /\ UNCHANGED conversations

(* The requests are gone through in the order of their numbers.             *)
Upcoming(call) == CHOOSE r \in call.remaining : \A other \in call.remaining : r <= other
WithoutUpcoming(call) == [call EXCEPT !.remaining = @ \ {Upcoming(call)}]

Scan(call) ==
  LET r == Upcoming(call)
      rest == WithoutUpcoming(call)
  IN  /\ call.at = "scan"
      /\ \/ \E c \in Carriers :
              /\ <<r, c>> \in accepted[deployment]
              /\ Becomes(call, {[rest EXCEPT !.at = "verify", !.request = r, !.carrier = c]})
         \/ /\ \A c \in Carriers : <<r, c>> \notin accepted[deployment]
            /\ Becomes(call, Continued(rest))
      /\ UNCHANGED conversations

(* provisionAcceptedConversation reads the state of the current deployment. *)
Verify(call) ==
  /\ call.at = "verify"
  /\ Becomes(call, IF <<call.request, call.carrier>> \in accepted[deployment]
                   THEN {[call EXCEPT !.at = "verified"]} ELSE Continued(call))
  /\ UNCHANGED conversations

(* When that read is back, ensureConversation takes the address of the      *)
(* escrow that is current by then, and reads that escrow's state.           *)
Ensure(call) ==
  /\ call.at = "verified"
  /\ Becomes(call, {[call EXCEPT !.at = "ensure", !.address = deployment]})
  /\ UNCHANGED conversations

HasSubmittedProposal(call) ==
  /\ call.at = "ensure"
  /\ Becomes(call, IF <<call.request, call.carrier>> \in proposed[call.address]
                   THEN {[call EXCEPT !.at = "store"]} ELSE Continued(call))
  /\ UNCHANGED conversations

(* Looked up, inserted unless it is there, and looked up again: the unique  *)
(* index leaves one row however many calls insert it.                       *)
Row(call) == <<call.address, call.request, call.carrier>>

Store(call) ==
  /\ call.at = "store"
  /\ conversations' = conversations \cup {Row(call)}
  /\ Becomes(call, Continued(call))

CallStep ==
  /\ \E call \in calls :
       \/ GetRequestIds(call) \/ Scan(call) \/ Verify(call) \/ Ensure(call)
       \/ HasSubmittedProposal(call) \/ Store(call)
  /\ UNCHANGED <<chainVars, up, listening, failed, troubles>>

(* What follows an error in a reconciliation: the loop goes on.             *)
(* Slip: the error ends the loop.                                           *)
GivenUpWhole(call) == {}

GivenUp(call) == Continued(call)

(* An awaited read or write fails.  A reconciliation that cannot read the   *)
(* ids is rejected as a whole; otherwise only the delivery at hand is given *)
(* up, with a warning.  The lookup after the insert may be what fails: the  *)
(* row is then there.                                                       *)
Fail(call) ==
  LET FailedFor(rs) == failed' = failed \cup rs
  IN  /\ Trouble
      /\ \/ call.at = "ids" /\ FailedFor(Requests) /\ Becomes(call, {})
         \/ /\ call.at = "scan" /\ FailedFor({Upcoming(call)})
            /\ Becomes(call, GivenUp(WithoutUpcoming(call)))
         \/ /\ call.at \in {"verify", "ensure", "store"} /\ FailedFor({call.request})
            /\ Becomes(call, GivenUp(call))
      /\ \/ UNCHANGED conversations
         \/ call.at = "store" /\ conversations' = conversations \cup {Row(call)}
      /\ UNCHANGED <<chainVars, up, listening>>

Next ==
  \/ CreateRequest
  \/ \E r \in Requests, c \in Carriers : Propose(r, c) \/ Accept(r, c)
  \/ Redeploy
  \/ Start \/ Refresh \/ Crash
  \/ CallStep
  \/ \E call \in calls : Fail(call)

(* The server is started again, its timer fires, its callbacks run.         *)
Fairness ==
  WF_vars(Start) /\ WF_vars(Refresh) /\ WF_vars(CallStep)

Spec == Init /\ [][Next]_vars /\ Fairness

-----------------------------------------------------------------------------
(* Properties.                                                              *)

Covered(d, r, c) == deployment # d \/ <<d, r, c>> \in conversations

(* "Reconciliation covers accepted deliveries that occurred while the       *)
(* server was offline": every accepted delivery of the current escrow gets  *)
(* its conversation, whenever it was accepted, unless the escrow is         *)
(* deployed anew before or something failed for it after it was accepted    *)
(* and after the listener was bound: a read of its own request, or the      *)
(* listing of all requests, which is never repeated.  The failure of one    *)
(* request never costs another one its conversation                         *)
(* (reconcileAcceptedConversations).                                        *)
FailuresStayWithTheirRequest ==
  \A d \in Deployments, r \in Requests, c \in Carriers :
    (deployment = d /\ <<r, c>> \in accepted[d]) ~> (Covered(d, r, c) \/ r \in failed)

=============================================================================
