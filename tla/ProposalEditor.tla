---------------------------- MODULE ProposalEditor ----------------------------
(***************************************************************************)
(* A carrier's milestone plan for one open request: the editor              *)
(* (ProposeMilestones.jsx), the registration it asks for first              *)
(* (UserProfileContext, RegistrationModal, UserRegistry.sol) and the way of *)
(* its transactions through the wallet (walletTransaction.js).              *)
(*                                                                          *)
(* A submitted plan is replaced with two transactions, revoke and propose.  *)
(* Between a click and its last answer the user may switch the account,     *)
(* leave the page and come back, refuse a transaction or never learn what   *)
(* became of it, and the shipper may reject the plan or close the request.  *)
(***************************************************************************)
EXTENDS Integers, Sequences, FiniteSets

CONSTANTS
  Wallets,        \* the carrier's accounts
  NoWallet,       \* no registration dialog
  Plans,          \* milestone plans the contract takes
  DefaultPlan,    \* DEFAULT_MILESTONES
  MaxOps,         \* bound: operations running at once
  MaxTurns        \* bound: clicks, page loads and account changes, taken together

ASSUME EditorAssumption ==
  /\ Wallets # {} /\ NoWallet \notin Wallets /\ DefaultPlan \in Plans
  /\ MaxOps \in Nat \ {0} /\ MaxTurns \in Nat

VARIABLES
  open,           \* the request accepts proposals
  proposals,      \* the request's proposals, oldest first
  registered,     \* UserRegistry: the registered wallets
  mined,          \* per wallet, its transactions on the chain
  mempool,        \* transactions sent and not mined
  account,        \* the account MetaMask shows to the page
  dialog,         \* the wallet the registration dialog is open for
  page,           \* the state of the editor
  ops,            \* submit, revokeProposal and registration handlers
  queue,          \* transactionQueues: per wallet, the handlers in line
  left            \* what is left of MaxTurns

marketVars == <<open, proposals, registered>>
chainVars == <<marketVars, mined, mempool>>
vars == <<chainVars, account, dialog, page, ops, queue, left>>

OpIds == 1 .. MaxOps
Calls == {"propose", "revoke", "register"}

NoOp == [kind |-> "none", step |-> "idle", call |-> "propose", wallet |-> NoWallet,
         plan |-> DefaultPlan, replacing |-> FALSE, confirmed |-> FALSE,
         attached |-> FALSE, nonce |-> 0, receipt |-> "none"]

OwnWith(w, status) ==
  {p \in DOMAIN proposals : proposals[p].carrier = w /\ proposals[p].status = status}
ActiveOf(w) == IF OwnWith(w, "Active") = {} THEN 0 ELSE CHOOSE p \in OwnWith(w, "Active") : TRUE

LastRejected(w) ==
  LET rejected == OwnWith(w, "Rejected")
  IN  IF rejected = {} THEN 0 ELSE CHOOSE p \in rejected : \A q \in rejected : q <= p

(* A new page: its address asks for nothing, for an edit of the active plan *)
(* or for a copy of a rejected one.  The last two fields are history that   *)
(* only the properties read.  It is quiet as long as nothing but its own    *)
(* handlers acts for the account it was opened with, and answered as long   *)
(* as it has learnt what became of every plan it meant to replace.          *)
Opened(intent) ==
  [intent |-> intent, source |-> IF intent = "resubmit" THEN LastRejected(account) ELSE 0,
   status |-> "unknown", load |-> "request", found |-> 0, own |-> 0,
   draft |-> DefaultPlan, copied |-> FALSE, revoked |-> FALSE, completed |-> FALSE,
   error |-> "none", toast |-> "none",
   quiet |-> mempool = {} /\ \A o \in OpIds : ops[o].step = "idle", answered |-> TRUE]

(* The wallets are alike, so it does not matter which one is connected      *)
(* first; a plan sent earlier is one the carrier has edited.                *)
Init ==
  /\ open = TRUE
  /\ proposals \in {<<>>} \cup
       {<<[carrier |-> w, status |-> s, plan |-> p]>> :
          w \in Wallets, s \in {"Active", "Rejected"}, p \in Plans \ {DefaultPlan}}
  /\ registered \in {ws \in SUBSET Wallets : \A p \in DOMAIN proposals : proposals[p].carrier \in ws}
  /\ mined = [w \in Wallets |-> 0] /\ mempool = {}
  /\ account = (CHOOSE w \in Wallets : TRUE) /\ dialog = NoWallet
  /\ ops = [o \in OpIds |-> NoOp] /\ queue = [w \in Wallets |-> <<>>]
  /\ \E intent \in {"propose", "edit", "resubmit"} : page = Opened(intent)
  /\ left = MaxTurns

TakeTurn == left > 0 /\ left' = left - 1

Running(kind) == \E o \in OpIds : ops[o].step # "idle" /\ ops[o].attached /\ ops[o].kind = kind
FreeOp == CHOOSE o \in OpIds : ops[o].step = "idle"
HasFreeOp == \E o \in OpIds : ops[o].step = "idle"

-----------------------------------------------------------------------------
(* The chain.                                                               *)

Accepts(call, w) ==
  CASE call = "register" -> w \notin registered
    [] call = "revoke"   -> open /\ w \in registered /\ ActiveOf(w) # 0
    [] call = "propose"  -> open /\ w \in registered /\ ActiveOf(w) = 0

Executed(tx) ==
  CASE tx.call = "register" ->
         registered' = registered \cup {tx.wallet} /\ UNCHANGED <<open, proposals>>
    [] tx.call = "revoke" ->
         /\ proposals' = [proposals EXCEPT ![ActiveOf(tx.wallet)].status = "Revoked"]
         /\ UNCHANGED <<open, registered>>
    [] tx.call = "propose" ->
         /\ proposals' = Append(proposals, [carrier |-> tx.wallet, status |-> "Active", plan |-> tx.plan])
         /\ UNCHANGED <<open, registered>>

(* A wallet's transactions are mined in the order of their nonces.          *)
Mine(tx) ==
  /\ tx \in mempool /\ tx.nonce = mined[tx.wallet]
  /\ mempool' = mempool \ {tx}
  /\ mined' = [mined EXCEPT ![tx.wallet] = @ + 1]
  /\ IF Accepts(tx.call, tx.wallet) THEN Executed(tx) ELSE UNCHANGED marketVars
  /\ LET waits == /\ ops[tx.op].step = "wait"
                  /\ ops[tx.op].wallet = tx.wallet /\ ops[tx.op].nonce = tx.nonce
     IN  ops' = IF waits
                THEN [ops EXCEPT ![tx.op].receipt =
                        IF Accepts(tx.call, tx.wallet) THEN "success" ELSE "reverted"]
                ELSE ops
  /\ UNCHANGED <<account, dialog, page, queue, left>>

(* The shipper rejects a plan, accepts one or cancels the request.          *)
ShipperActs ==
  /\ open
  /\ \/ \E p \in DOMAIN proposals :
          /\ proposals[p].status = "Active"
          /\ \/ proposals' = [proposals EXCEPT ![p].status = "Rejected"] /\ UNCHANGED open
             \/ proposals' = [proposals EXCEPT ![p].status = "Accepted"] /\ open' = FALSE
     \/ open' = FALSE /\ UNCHANGED proposals
  /\ UNCHANGED <<registered, mined, mempool, account, dialog, page, ops, queue, left>>

-----------------------------------------------------------------------------
(* What the page reads.  A later read makes an earlier one cancelled.       *)

LoadRequest ==
  /\ page.load = "request"
  /\ \/ page' = IF open THEN [page EXCEPT !.status = "Open", !.load = "proposals"]
                ELSE [page EXCEPT !.status = "Closed", !.load = "left"]
     \/ page' = [page EXCEPT !.status = "unknown", !.own = 0, !.load = "none"]
  /\ UNCHANGED <<chainVars, account, dialog, ops, queue, left>>

LoadProposals ==
  /\ page.load = "proposals"
  /\ LET p == ActiveOf(account)
     IN  \/ page' = IF p = 0 THEN [page EXCEPT !.own = 0, !.revoked = FALSE, !.load = "none"]
                    ELSE [page EXCEPT !.found = p, !.load = "plan"]
         \/ page' = [page EXCEPT !.own = 0, !.load = "none"]
  /\ UNCHANGED <<chainVars, account, dialog, ops, queue, left>>

LoadPlan ==
  /\ page.load = "plan"
  /\ \/ page' = [page EXCEPT !.own = page.found, !.draft = proposals[page.found].plan, !.load = "none"]
     \/ page' = [page EXCEPT !.own = 0, !.load = "none"]
  /\ UNCHANGED <<chainVars, account, dialog, ops, queue, left>>

(* The plan of a rejected proposal is copied into the editor once.          *)
CopyRejected ==
  /\ page.source # 0 /\ page.status = "Open" /\ ~page.copied
  /\ proposals[page.source].carrier = account
  /\ page' = [page EXCEPT !.draft = proposals[page.source].plan, !.copied = TRUE]
  /\ UNCHANGED <<chainVars, account, dialog, ops, queue, left>>

(* The handlers of an earlier page run on, but what they set is lost.       *)
OpenPage(intent) ==
  /\ TakeTurn
  /\ page' = Opened(intent)
  /\ ops' = [o \in OpIds |-> IF ops[o].kind = "register" THEN ops[o]
                             ELSE [ops[o] EXCEPT !.attached = FALSE]]
  /\ UNCHANGED <<chainVars, account, dialog, queue>>

DialogFor(w) == IF dialog = w THEN dialog ELSE NoWallet

(* Only the proposal is read again; everything else the page knows stays.   *)
AccountChanges(w) ==
  /\ TakeTurn /\ w # account
  /\ account' = w
  /\ dialog' = DialogFor(w)
  /\ ops' = [o \in OpIds |-> IF ops[o].kind = "register" THEN [ops[o] EXCEPT !.attached = FALSE]
                             ELSE ops[o]]
  /\ page' = [page EXCEPT !.quiet = FALSE,
                          !.load = IF page.status = "Open" /\ @ # "request" THEN "proposals" ELSE @]
  /\ UNCHANGED <<chainVars, queue>>

-----------------------------------------------------------------------------
(* The editor.                                                              *)

PresentationMode ==
  IF page.completed THEN "submitted"
  ELSE IF page.intent = "edit" /\ page.own # 0 THEN "edit-active"
  ELSE IF page.intent = "resubmit" THEN "resubmit-rejected"
  ELSE IF page.own # 0 THEN "submitted"
  ELSE "create"

Editable == PresentationMode \in {"create", "edit-active", "resubmit-rejected"}

CanSubmit ==
  /\ page.status = "Open" /\ page.load = "none"
  /\ Editable
  /\ page.intent = "edit" => page.own # 0
  /\ ~Running("submit")

EditPlan(plan) ==
  /\ page.load # "left" /\ Editable /\ plan # page.draft
  /\ page' = [page EXCEPT !.draft = plan]
  /\ UNCHANGED <<chainVars, account, dialog, ops, queue, left>>

Start(op) == ops' = [ops EXCEPT ![FreeOp] = op]

Submit ==
  /\ TakeTurn /\ HasFreeOp /\ CanSubmit
  /\ Start([NoOp EXCEPT !.kind = "submit", !.step = "check", !.wallet = account,
                        !.plan = page.draft, !.attached = TRUE,
                        !.replacing = PresentationMode = "edit-active",
                        !.confirmed = page.revoked])
  /\ page' = [page EXCEPT !.toast = "none"]
  /\ UNCHANGED <<chainVars, account, dialog, queue>>

RevokeProposal ==
  /\ TakeTurn /\ HasFreeOp
  /\ page.load # "left" /\ PresentationMode = "submitted" /\ page.own # 0
  /\ ~Running("revoke") /\ ~Running("submit")
  /\ Start([NoOp EXCEPT !.kind = "revoke", !.step = "check", !.wallet = account, !.attached = TRUE])
  /\ UNCHANGED <<chainVars, account, dialog, page, queue>>

(* Registration is asked for in a dialog of its own.                        *)
Register ==
  /\ TakeTurn /\ HasFreeOp /\ dialog = account /\ ~Running("register")
  /\ Start([NoOp EXCEPT !.kind = "register", !.call = "register", !.step = "queue",
                        !.wallet = account, !.attached = TRUE])
  /\ queue' = [queue EXCEPT ![account] = Append(@, FreeOp)]
  /\ UNCHANGED <<chainVars, account, dialog, page>>

CloseDialog ==
  /\ dialog # NoWallet /\ ~Running("register")
  /\ dialog' = NoWallet
  /\ UNCHANGED <<chainVars, account, page, ops, queue, left>>

-----------------------------------------------------------------------------
(* The ends of a handler.                                                   *)

End(o) == ops' = [ops EXCEPT ![o] = NoOp]

(* Slip: nothing is said once the first transaction is through.             *)
FailedSilently(o) ==
  IF ops[o].attached /\ ops[o].replacing /\ ~ops[o].confirmed
  THEN page' = [page EXCEPT !.error = "not revoked"]
  ELSE UNCHANGED page

(* The first half is on its way when its handler stops waiting.             *)
RevocationUnanswered(o) ==
  ops[o].step = "wait" /\ ops[o].call = "revoke" /\ ops[o].receipt # "reverted"

Failed(o) ==
  IF ops[o].attached /\ ops[o].replacing
  THEN page' = [page EXCEPT !.revoked = ops[o].confirmed,
                            !.error = IF ops[o].confirmed THEN "revoked" ELSE "not revoked",
                            !.answered = @ /\ ~RevocationUnanswered(o)]
  ELSE UNCHANGED page

Fail(o) == End(o) /\ Failed(o)

-----------------------------------------------------------------------------
(* The request's status and the wallet's registration are read before       *)
(* anything is sent.                                                        *)

Enqueue(o, op) ==
  /\ ops' = [ops EXCEPT ![o] = [op EXCEPT !.step = "queue", !.receipt = "none"]]
  /\ queue' = [queue EXCEPT ![op.wallet] = Append(@, o)]

FirstCall(op) ==
  IF op.kind = "revoke" \/ (op.replacing /\ ~op.confirmed) THEN "revoke" ELSE "propose"

Check(o) ==
  LET op == ops[o]
  IN  /\ op.step = "check"
      /\ \/ /\ op.kind = "submit"                       \* a failed read, or closed
            /\ Fail(o) /\ UNCHANGED <<dialog, queue>>
         \/ /\ End(o) /\ UNCHANGED <<dialog, page, queue>>  \* a failed registry read
         \/ /\ op.kind = "submit" => open
            /\ account # op.wallet
            /\ End(o) /\ UNCHANGED <<dialog, page, queue>>
         \/ /\ op.kind = "submit" => open
            /\ account = op.wallet /\ op.wallet \notin registered
            /\ dialog' = op.wallet
            /\ End(o) /\ UNCHANGED <<page, queue>>
         \/ /\ op.kind = "submit" => open
            /\ account = op.wallet /\ op.wallet \in registered
            /\ Enqueue(o, [op EXCEPT !.call = FirstCall(op)])
            /\ UNCHANGED <<dialog, page>>
      /\ UNCHANGED <<chainVars, account, left>>

-----------------------------------------------------------------------------
(* sendWalletContractTransaction: one send of a wallet at a time is         *)
(* prepared and signed.                                                     *)

(* Slip: a send does not wait for the one before it.                        *)
NextInLineAtOnce(o) == TRUE
NextInLine(o) == Head(queue[ops[o].wallet]) = o

(* The one in front leaves, and the next one's turn has come.               *)
(* Slip: the place in the line is kept.                                     *)
LeaveQueueNever(o) == UNCHANGED queue
LeaveQueue(o) == queue' = [queue EXCEPT ![ops[o].wallet] = Tail(@)]

PendingCount(w) == mined[w] + Cardinality({tx \in mempool : tx.wallet = w})

(* A gas estimate the contract refuses ends it; an already registered       *)
(* wallet counts as success.                                                *)
Prepare(o) ==
  LET op == ops[o]
  IN  /\ op.step = "queue" /\ NextInLine(o)
      /\ \/ /\ Accepts(op.call, op.wallet)
            /\ ops' = [ops EXCEPT ![o].step = "sign", ![o].nonce = PendingCount(op.wallet)]
            /\ UNCHANGED <<dialog, page, queue>>
         \/ /\ ~Accepts(op.call, op.wallet)
            /\ LeaveQueue(o) /\ Fail(o)
            /\ dialog' = IF op.kind = "register" /\ op.attached THEN NoWallet ELSE dialog
      /\ UNCHANGED <<chainVars, account, left>>

Confirm(o) ==
  LET op == ops[o]
  IN  /\ op.step = "sign"
      /\ mempool' = mempool \cup {[wallet |-> op.wallet, nonce |-> op.nonce, call |-> op.call,
                                   plan |-> op.plan, op |-> o]}
      /\ ops' = [ops EXCEPT ![o].step = "wait", ![o].receipt = "none"]
      /\ LeaveQueue(o)
      /\ UNCHANGED <<marketVars, mined, account, dialog, page, left>>

(* The user refuses, or the wallet has changed its account or network.      *)
Refuse(o) ==
  /\ ops[o].step = "sign"
  /\ UNCHANGED <<chainVars, account, dialog, left>>
  /\ LeaveQueue(o) /\ Fail(o)

(* RECEIPT_TIMEOUT_MS, or a failing read of the receipt.                    *)
ReceiptTimesOut(o) ==
  /\ ops[o].step = "wait"
  /\ Fail(o)
  /\ UNCHANGED <<chainVars, account, dialog, queue, left>>

(* Slip: a sent transaction is taken for a confirmed one.                   *)
GoesOnOnceSent(o) == ops[o].step = "wait"
GoesOn(o) == ops[o].step = "wait" /\ ops[o].receipt = "success"

RevocationConfirmed(o) ==
  /\ GoesOn(o) /\ ops[o].kind = "submit" /\ ops[o].call = "revoke"
  /\ Enqueue(o, [ops[o] EXCEPT !.confirmed = TRUE, !.call = "propose"])
  /\ page' = IF ops[o].attached THEN [page EXCEPT !.revoked = TRUE] ELSE page
  /\ UNCHANGED <<chainVars, account, dialog, left>>

(* After a replacement the address no longer asks for an edit, also when    *)
(* the user is on another page meanwhile.                                   *)
ProposalConfirmed(o) ==
  LET op == ops[o]
      there == IF page.load = "left" THEN Opened("propose") ELSE [page EXCEPT !.intent = "propose"]
  IN  /\ GoesOn(o) /\ op.kind = "submit" /\ op.call = "propose"
      /\ End(o)
      /\ page' = CASE op.attached /\ op.replacing ->
                        [page EXCEPT !.error = "none", !.revoked = FALSE, !.completed = TRUE,
                                     !.intent = "propose", !.load = "request"]
                   [] op.attached /\ ~op.replacing ->
                        [page EXCEPT !.error = "none", !.revoked = FALSE, !.load = "request"]
                   [] ~op.attached /\ op.replacing -> there
                   [] OTHER -> page
      /\ UNCHANGED <<chainVars, account, dialog, queue, left>>

RevokeConfirmed(o) ==
  /\ GoesOn(o) /\ ops[o].kind = "revoke"
  /\ End(o)
  /\ page' = IF ops[o].attached
             THEN [page EXCEPT !.own = 0, !.load = "request", !.toast = "revoked"] ELSE page
  /\ UNCHANGED <<chainVars, account, dialog, queue, left>>

(* The profile is read again before the dialog closes, here in one step.    *)
(* That the dialog stays when this read fails is left out.                  *)
RegistrationConfirmed(o) ==
  /\ GoesOn(o) /\ ops[o].kind = "register"
  /\ End(o)
  /\ dialog' = IF ops[o].attached THEN NoWallet ELSE dialog
  /\ UNCHANGED <<chainVars, account, page, queue, left>>

Reverted(o) ==
  /\ ops[o].step = "wait" /\ ops[o].receipt = "reverted"
  /\ Fail(o)
  /\ UNCHANGED <<chainVars, account, dialog, queue, left>>

Answered(o) ==
  RevocationConfirmed(o) \/ ProposalConfirmed(o) \/ RevokeConfirmed(o)
    \/ RegistrationConfirmed(o) \/ Reverted(o)

-----------------------------------------------------------------------------
Next ==
  \/ ShipperActs
  \/ \E tx \in mempool : Mine(tx)
  \/ LoadRequest \/ LoadProposals \/ LoadPlan \/ CopyRejected
  \/ \E intent \in {"propose", "edit", "resubmit"} : OpenPage(intent)
  \/ \E w \in Wallets : AccountChanges(w)
  \/ \E plan \in Plans : EditPlan(plan)
  \/ Submit \/ RevokeProposal \/ Register \/ CloseDialog
  \/ \E o \in OpIds : \/ Check(o) \/ Prepare(o) \/ Confirm(o) \/ Refuse(o)
                      \/ ReceiptTimesOut(o) \/ Answered(o)

Spec == Init /\ [][Next]_vars

(* Reads return or fail, MetaMask's question is answered one way or the     *)
(* other, and the wait for a receipt has a time limit.                      *)
Fairness ==
  \A o \in OpIds :
    WF_vars(Check(o)) /\ WF_vars(Prepare(o)) /\ WF_vars(Confirm(o) \/ Refuse(o))
      /\ WF_vars(ReceiptTimesOut(o) \/ Answered(o))

FairSpec == Spec /\ Fairness

-----------------------------------------------------------------------------
(* Properties.                                                              *)

(* The queue of a wallet: two transactions never take one nonce, one of     *)
(* them would be dropped and its page wait in vain.                         *)
OneNonceEach ==
  /\ \A s, t \in mempool : (s.wallet = t.wallet /\ s.nonce = t.nonce) => s = t
  /\ \A o \in OpIds : ops[o].step = "sign" => ops[o].nonce = PendingCount(ops[o].wallet)

(* Between the two halves of a replacement the page tells the truth.  "The  *)
(* current proposal was revoked, but the revised proposal was not           *)
(* submitted": as long as the page is quiet, the proposal it shows is then  *)
(* really gone.                                                             *)
RevokedMessageIsTrue ==
  (page.quiet /\ page.own # 0 /\ (page.revoked \/ page.error = "revoked"))
    => proposals[page.own].status # "Active"

(* Half a replacement has left the carrier without any plan, and nothing    *)
(* goes on by itself.                                                       *)
Interrupted ==
  /\ page.quiet /\ page.load = "none" /\ page.own # 0 /\ PresentationMode = "edit-active"
  /\ open /\ proposals[page.own].status = "Revoked" /\ ActiveOf(account) = 0
  /\ mempool = {} /\ \A o \in OpIds : ops[o].step = "idle"

(* The carrier is then told just that, and the retry leaves out the first   *)
(* half, which the contract would refuse.  The code keeps this only when it *)
(* learns what became of the revocation: one whose receipt did not come in  *)
(* time, and which is mined later, leaves an error, but a wrong one.        *)
InterruptedReplacementIsReported ==
  Interrupted => /\ page.error # "none"
                 /\ page.answered => page.error = "revoked" /\ page.revoked

HalfDoneReplacementIsTold == RevokedMessageIsTrue /\ InterruptedReplacementIsReported

(* The same without the exception, as DESIGN.md promises it of every half   *)
(* replacement: "explain that the original was revoked, and offer a retry   *)
(* that submits only the replacement".                                      *)
InterruptedReplacementIsExplained ==
  Interrupted => page.error = "revoked" /\ page.revoked

(* A submission, a revocation or a registration does not stay "Confirm in   *)
(* MetaMask" for ever, whichever others were in line before it.             *)
EverySubmissionEnds ==
  \A o \in OpIds : (ops[o].step # "idle") ~> (ops[o].step = "idle")

=============================================================================
