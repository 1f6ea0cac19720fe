----------------------------- MODULE MarketPages -----------------------------
(***************************************************************************)
(* The pages around a request as functions of what one load of them read:   *)
(* the market (src/pages/Marketplace.jsx), the request in it                *)
(* (RequestDetail.jsx), the list of a wallet's shipments (MyShipments.jsx), *)
(* and the chat buttons on all of them and on the shipment page             *)
(* (components/chat/ChatButton.jsx).  NoUser: no button, or no carrier.     *)
(***************************************************************************)
EXTENDS NextAction, FiniteSets

-----------------------------------------------------------------------------
(* The market lists the open requests; a row leads to the wallet's own      *)
(* proposal or to the request, which leads on to the same place.            *)

MarketRow(u, r) ==
  [id |-> r, current |-> Cardinality(PaidOf(r)),
   hasOwnActiveProposal |->
     \E p \in ProposalsShown(r, "Active") : proposals[r][p].carrier = u]

MarketRows(u) == {MarketRow(u, openRequestIds[i]) : i \in DOMAIN openRequestIds}

OpenDetails(row) == IF row.hasOwnActiveProposal THEN "editor" ELSE "request"

(* What the request's page keeps of a request.                              *)
RequestRead(r) ==
  [shipper |-> requests[r].shipper, status |-> requests[r].status,
   proposals |-> {[carrier |-> proposals[r][p].carrier, status |-> ShownProposalStatus(r, p)] :
                    p \in DOMAIN proposals[r]}]

RequestProposal(u, request) == [carrier |-> u, status |-> "Active"] \in request.proposals

(* With the wallet's own active proposal it is left for the editor at once. *)
LeftForEditor(u, request) == request.status = "Open" /\ RequestProposal(u, request)

ShowProposalAction(u, request) ==
  request.status = "Open" /\ u # request.shipper /\ ~RequestProposal(u, request)

RequestDetailLeadsTo(u, request) ==
  {place \in {"editor", "shipment"} :
     \/ place = "editor" /\ (LeftForEditor(u, request) \/ ShowProposalAction(u, request))
     \/ place = "shipment" /\ (request.status # "Open" \/ u = request.shipper)}

-----------------------------------------------------------------------------
(* The list of a wallet's shipments.                                        *)

ShipmentRows(u) == {r \in RequestIds : RequestExists(r) /\ ListRelationship(u, r) # "not listed"}

(* The pills above the list: every status, what asks for something, all.    *)
Filtered(u, filter) ==
  {r \in ShipmentRows(u) :
     /\ filter = "needs-action" => ShipmentAttention(u, r) # "none"
     /\ filter \notin {"all", "needs-action"} => requests[r].status = filter}

(* The plans a carrier sent before, with a button to send a rejected one    *)
(* again; hidden while a proof of the carrier's is due.                     *)
HistoricalProposals(u, r) ==
  {p \in OwnProposals(u, r) : ShownProposalStatus(r, p) # "Active"}

ShowsProposalHistory(u, r) ==
  /\ HistoricalProposals(u, r) # {}
  /\ ShipmentAttention(u, r) \notin {"submit-proof", "resubmit-proof"}

ResubmitOffered(u, r, p) ==
  /\ ShowsProposalHistory(u, r)
  /\ requests[r].status = "Open" /\ ~HasOwnActiveProposal(u, r)
  /\ p \in HistoricalProposals(u, r) /\ ShownProposalStatus(r, p) = "Rejected"

-----------------------------------------------------------------------------
(* Chat buttons: the carrier whose conversation one opens.                  *)

ActiveProposalCarriers(r) == {proposals[r][p].carrier : p \in ProposalsShown(r, "Active")}

(* Slip: only the proposals are looked at, not the carrier who was chosen.  *)
ShipmentChatCarrierOfProposals(r) ==
  IF Cardinality(ProposalsShown(r, "Active")) = 1
  THEN CHOOSE u \in ActiveProposalCarriers(r) : TRUE ELSE NoUser

(* In a shipper's list: the carrier, or the only one with a proposal.       *)
ShipmentChatCarrier(r) ==
  IF requests[r].carrier # NoUser THEN requests[r].carrier
  ELSE IF Cardinality(ProposalsShown(r, "Active")) = 1
       THEN CHOOSE u \in ActiveProposalCarriers(r) : TRUE
       ELSE NoUser

ListChat(u, r) ==
  CASE u = requests[r].shipper -> ShipmentChatCarrier(r)
    [] u # requests[r].shipper /\ (u = requests[r].carrier \/ HasOwnActiveProposal(u, r)) -> u
    [] OTHER -> NoUser

RequestDetailChat(u, r) ==
  IF \E proposal \in RequestRead(r).proposals : proposal.carrier = u THEN u ELSE NoUser

(* On the shipment page: beside the state, and in each proposal.            *)
ShipmentChat(u, r) ==
  CASE requests[r].carrier = NoUser      -> NoUser
    [] u \in {requests[r].shipper, requests[r].carrier} /\ u # NoUser
         /\ requests[r].carrier # NoUser -> requests[r].carrier
    [] OTHER                             -> NoUser

ProposalChat(u, r, p) ==
  IF u \in {requests[r].shipper, proposals[r][p].carrier} THEN proposals[r][p].carrier ELSE NoUser

ChatsOffered(u, r) ==
  ({ListChat(u, r), RequestDetailChat(u, r), ShipmentChat(u, r)}
     \cup {ProposalChat(u, r, p) : p \in DOMAIN proposals[r]}) \ {NoUser}

-----------------------------------------------------------------------------
(* Properties.                                                              *)

(* Wherever a wallet looks, it is told the same.  The list and the page of  *)
(* a shipment name the same duty; from the market, a wallet that may        *)
(* propose or has proposed ends in the editor and the shipper at the        *)
(* shipment; an old plan is offered again only where the escrow takes one;  *)
(* every row stands under one status of the list.                           *)
PagesAgree ==
  /\ ListAndDetailAgree
  /\ \A u \in Users : \A row \in MarketRows(u) :
       LET leadsTo == RequestDetailLeadsTo(u, RequestRead(row.id))
       IN  /\ OpenDetails(row) = "editor" <=> ProposalButton(u, row.id) = "edit=active"
           /\ OpenDetails(row) = "editor" => leadsTo = {"editor"}
           /\ leadsTo = IF ProposalButton(u, row.id) = "none" THEN {"shipment"} ELSE {"editor"}
  /\ \A u \in Users, r \in RequestIds : RequestExists(r) =>
       \A p \in DOMAIN proposals[r] : ResubmitOffered(u, r, p) =>
         /\ activeProposal[r][u] = 0 /\ u # requests[r].shipper
         /\ requests[r].status = "Open"
  /\ \A u \in Users : UNION {Filtered(u, status) : status \in RequestStatus} = Filtered(u, "all")

(* Every chat button that is shown opens a conversation the server gives;   *)
(* and once there is a carrier, shipper and carrier are led to the same     *)
(* one from everywhere, in which both may write until the shipment is over. *)
ChatsMeet ==
  \A r \in RequestIds : RequestExists(r) =>
    /\ \A u \in Users, carrier \in Users :
         carrier \in ChatsOffered(u, r) => ConversationGiven(u, r, carrier)
    /\ requests[r].carrier # NoUser =>
         \A u \in {requests[r].shipper, requests[r].carrier} :
           /\ ListChat(u, r) = requests[r].carrier /\ ShipmentChat(u, r) = requests[r].carrier
           /\ Active(r) => Writable(u, r, requests[r].carrier)
    /\ requests[r].status = "Open" =>
         \A u \in Users : ListChat(u, r) # NoUser => Writable(u, r, ListChat(u, r))

=============================================================================
