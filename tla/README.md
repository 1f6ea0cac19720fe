# CargoChain: TLA+ specifications, model checks and proofs

CargoChain is a delivery marketplace. A *shipper* publishes a delivery request,
*carriers* propose milestone plans for it, the shipper funds one plan with CARGO
tokens, and an escrow contract pays the carrier milestone by milestone for proofs
the shipper approves. A second contract lets the two parties negotiate changes. An
Express server keeps chats and encrypted proofs beside the chain, and a React
application drives everything.

This directory holds specifications of the parts of the system that carry its
logic, the TLC configurations that check them, and machine-checked proofs of the
properties that matter most. Every definition is translated from the code; the
table `map` of PROJECT.json gives the lines each one stands for, `hazards` the places
in the code the properties were written for.

Contents: [inventory](#1-inventory), [modules and code](#2-the-modules-and-the-code),
[runs](#3-what-the-runs-check), [disagreements](#4-disagreements-between-code-and-comments),
[proofs](#5-what-is-proved), [what is left out](#6-what-is-not-modelled),
[next steps](#7-next-steps).

## 1. Inventory

| Component | State it keeps | Operations | Modelled in |
|---|---|---|---|
| `contracts/DeliveryEscrow.sol` | requests, proposals, milestones with their execution order and version, open-request list and index, `totalEscrowed`, locked totals per shipper, tips | create, propose, revoke, reject, cancel, approve-and-fund, submit/withdraw proof, verify, refund, top-up, tip, and two hooks for the manager | `DeliveryEscrow`; promise: `EscrowPromise` |
| `contracts/LifecycleManager.sol` | one negotiation slot per shipment, amendments with staged CARGO, cancellations | request, accept, reject, withdraw, expire for both kinds; direct deadline extension | `LifecycleManager` |
| `contracts/CargoToken.sol`, `utils/cargoFunding.js` | balances, allowances, ETH reserve | transfer, approve, deposit, redeem; quotes | `DeliveryEscrow`, `FundingDesk`, `FundingForms` |
| `contracts/ReputationRegistry.sol` | one rating per completed request, totals per carrier | rate | `EscrowRecords` |
| `contracts/UserRegistry.sol` | registrations | register | `ProposalEditor` (where it is asked for) |
| `pages/Track.jsx` | the shipment as last loaded, open dialogs | review, arrange, negotiate, settle, fund | `ShipperReview`, `ShipmentPage`, `AmendmentForm`, `NextAction`, `FundingForms`, `FundingDesk` (partly) |
| `pages/Marketplace.jsx`, `RequestDetail.jsx`, `MyShipments.jsx`, `Account.jsx`, `CreateRequestModal.jsx` | lists as last loaded, forms | list, filter, route, create, convert | `MarketPages`, `FundingForms`, `FundingDesk`, `EscrowRecords` (partly) |
| `pages/ProposeMilestones.jsx`, `utils/walletTransaction.js` | the draft of a plan, what became of a replacement; the queue of each wallet | load, submit, replace, revoke; queue, revalidate, send | `ProposalEditor` |
| `context/Web3Context.jsx`, `ChatAuthContext.jsx`, `server/routes/auth.js` and services | account, signer, chat session, nonces, tokens | connect, switch, sign in, restore, verify | `WalletSession` |
| `server/routes/proofs.js` and services, `lib/proofApiClient.js`, proof viewer | upload sessions, wrapped keys, loads of the viewer | begin, finalize, release key, view | `ProofUpload` |
| `pages/Messages.jsx`, `components/chat/*`, `server/routes/chat.js` | bubbles, timeline, access; messages | select, load, send, push | `ChatRoom` |
| `server/services/acceptedConversationProvisioner.js`, `conversationService.js` | the contract listened to, calls in flight; conversations | start, stop, refresh, event, reconcile, ensure | `ConversationProvisioner` |
| `server/services/chainReader.js`, `writabilityService.js` | none | gates for uploads, conversations, messages | `ServerGates` |
| `utils/paymentHistory.js`, `chatTimeline.js`, `services/reputationService.js`, `utils/shipmentPresentation.js` | none; functions of the log and of the escrow's views | | `EscrowRecords`, `NextAction` |
| rate limiters, bootstrap, deployment, tooling, static pages | – | – | not modelled |

**How they interact.** The contracts call each other inside one transaction: the
manager calls `finalizeAmendment` and `finalizeMutualCancellation`, the escrow moves
CARGO through the token. The browser reads the chain with view calls, shows what it
read and later sends a transaction built from it; between the two anything may happen
on chain. The server reads the chain with awaited RPC calls and listens to one event,
`MilestonePlanAccepted`; its database is written after awaits and pushes new rows to
the browser. Browser, server and MetaMask exchange messages nothing orders.

**Which behaviours are hard.**

- One pooled token balance stands behind all requests. Every path that moves CARGO
  updates the balance, `totalEscrowed`, the request and the shipper's locked total; a
  missed update would be noticed only in some *other* request.
- Amendments insert milestones into an order that is being worked through, several at
  a time, and are applied long after they were validated. The escrow does not validate
  again: it relies on a version number pinned by the manager.
- Two ways of deciding that a request is over (CARGO left, milestones paid) must agree.
- A carrier may withdraw and replace a proof while the shipper looks at the old one;
  withdraw-and-resubmit repeats a reimbursed action.
- Negotiations are pending while the shipment beneath them proceeds, is settled, or
  runs past its deadline.
- The same question is answered in several places by different code: who has to act
  (list, page), what a form lets through (page, contract), what something costs (quote,
  contract), who may upload (server, contract), in which order milestones are done
  (cards, dialog, contract).
- A dialog names an amount; gas price, request and connected account change until it is
  confirmed. Funding and replacing a plan are two transactions each, of which the second
  may fail.
- Accounts change while sign-ins, restores, uploads, loads and sends are awaited; an
  answer for the account, conversation or milestone before last must not be used.
- Messages reach the page as an answer, as a pushed row and in a load, in any order.
- The provisioner loses events while it is down or bound to an older deployment, and
  every read it awaits may fail.

**What correct means**, per component: the escrow is always backed and pays each
milestone exactly what it is worth, in order, and every funded shipment is settled;
the manager holds exactly what it owes, applies only what is still valid, and always
frees its slot; nobody pays an amount that was not confirmed, nor a proof that was not
shown; pages offer what the contracts accept and tell whoever has to act; the history
accounts for every CARGO; a recorded proof can be opened; a session is that of the
account shown; nothing sent is shown twice or in the wrong chat; every accepted delivery
gets its conversation.

## 2. The modules and the code

    CargoSums ── DeliveryEscrow ─┬─ LifecycleManager ─┬─ ShipmentPage ── FundingForms ── MCShipmentPage
                     │           │                    └─ EscrowRecords ────────────┬─── MCEscrowRecords
                     │           ├─ ServerGates ── NextAction ─┬─ MarketPages ─────┘
                     │           │                             └───────┬─── MCShipperReview
                     │           ├─ ShipperReview, AmendmentForm ──────┘
                     │           └─ FundingDesk ── MCFundingDesk
                     └─ INSTANCE EscrowPromise WITH ...
    DeliveryEscrow_proof ── ShipmentMoney_proof ─┬─ LifecycleManager_proof ── EscrowRecords_proof
                                                 └─ ShipmentPages_proof

    ConversationProvisioner   ProofUpload   WalletSession   ProposalEditor   ChatRoom
    (each with its MC module; ProofUpload_proof, WalletSession_proof and ProposalEditor_proof
    stand beside the module they are about)

**DeliveryEscrow.** One action per transaction, named like the function. The guard
collects the function's checks (a revert is an action that is not enabled), the primed
variables its assignments, including those of the internal functions it calls.
Storage variables keep their names; `activeProposal` and `acceptedProposal` are
`activeProposalIndexPlusOne` and `acceptedProposalIdPlusOne`; `cargo` is the token's
balances, `now` is `block.timestamp`. Abstracted: texts, items and locations (except the
proof URI, which is what a shipper reviews), registration, allowances. The gas readings
and the gas price that decide a reimbursement are arbitrary members of two sets. On its
own the module has the manager as an environment, `ManagerAmends` and
`ManagerCancels`, that may call the hooks whenever it has the CARGO and the allocations
are valid *now*. What is checked and proved of the escrow therefore does not depend on
how the manager negotiates. That the real manager stays inside what the environment may
do is checked by the run `negotiation` and proved in `LifecycleManager_proof`
(`AgreementChangesByValidAcceptance`, `EscrowStaysSound`).

**EscrowPromise** is the abstract specification: per request a phase, two parties, a
promised compensation, a reserve, and wallets; no pooled balance, milestone, proof or
list. The refinement mapping at the end of `DeliveryEscrow` reads the phase off status
and tip, the compensation and the reserve off the two balances of a request, and the
wallets off the token. `KeepsPromise` is the abstract specification under that mapping;
submissions, rejections, withdrawals and proposals map to stuttering steps. Its
definitions translate no code of their own, so `map` does not list them.

**LifecycleManager** extends the escrow with `activeNegotiation`, `amendmentRequests`
(with the existing funding and new milestones stored beside them) and
`cancellationRequests`. A manager action that calls the escrow has the escrow's action
as a conjunct: one transaction, one step.

**ShipperReview** adds what the page shows, `shown`. `LoadShipment` copies the chain;
`VerifyMilestone` offers its buttons for a milestone *shown* as submitted and sends the
number *shown*, whatever the chain holds by then.

**ShipmentPage, NextAction, MarketPages, ServerGates, AmendmentForm, FundingForms** are
operators over the chain's state: a page that has just loaded keeps nothing the chain
does not hold, so what it offers, lets through, quotes or names as the next duty is a
function of that state, and so is what the server authorises. The modules follow the
branches of the code, and the properties compare them with each other and with the
contract's actions (often with `ENABLED`). `AmendmentForm` has the three computations of
one order: cards per checkpoint, sorted additions, repeated insertion.

**FundingDesk** puts the browser's dialog (`desk`), the token's allowances, ETH and the
reserve beside the escrow: quote, confirm, approve, send, with `SwitchAccount` and every
step of the escrow in between.

**EscrowRecords** runs escrow, manager and registry with a `log`: each transaction
appends a block with the events it emits, in order. Payment history, chat notices and
reputation are functions of the log, written after the code that filters it.

**ProofUpload** follows a photo through encryption, session, upload, finalize (four
awaits, each a step), the chain's record, and the viewer with its loads. An upload stands
for its photo, key, metadata, ciphertext and CID.

**WalletSession** has MetaMask, the two React contexts (what a handler sets reaches the
others at the next `Commit`), sessionStorage, and the server's nonces and tokens.

**ProposalEditor** has the page of a carrier, its handlers as operations at the await
they are suspended in, the queue of each wallet, the mempool, and the request as other
people change it.

**ChatRoom** has the timeline of the open conversation, the send under way, the access
read, and the API with its check before the insert.

**ConversationProvisioner** has the listener and a set of asynchronous calls, each at the
await it is suspended in; the contract a read uses is the one of the build artifact at
the moment of the call. The subscription `contract.on` is taken as effective before the
reads of the reconciliation that follows it. `Crash` loses all calls, `Fail` is a failing read or write.

`CargoSums` defines the sum of a family of amounts as the number of its unit elements.
That makes sums computable for TLC and provable without a recursive definition.

## 3. What the runs check

Deadlock checking is off in the runs whose model stops when the bounds on time and
counters are used up; a marketplace may rest anyway. Wallets are interchangeable and form
a symmetry set in the runs without liveness.

| Run | Distinct states | Question |
|---|---|---|
| `shipment` | 835,000 | One shipment and what its pages make of it, in every order of proofs, reviews, withdrawals, top-ups, amendments, cancellation and refund. Escrow, reserve and releases follow the milestones to the cent (`MoneyFollowsTheWork`); order and records of finished work stay (`MilestonesDoneInOrder`, `ExecutionOrderIsComplete`, `SettledWorkIsFinal`); nothing an amendment was quoted on changes without the version (`QuotedTermsAreVersioned`); a replaced proof is not paid for unseen (`OnlyShownProofsArePaid`); an arrangement comes out as confirmed (`ArrangementIsTheResult`); whoever holds the delivery up is told (`WhoeverMustActIsTold`); the server takes exactly the photos the escrow would take (`UploadsMatchEscrow`); and the escrow implements its promise (`KeepsPromise`). |
| `pool` | 2,030,000 | Two requests in one balance and one browser that pays for both wallets. The escrow is backed, totals are per shipper, open list and proposal index are exact, and no wallet pays or converts anything but what its dialog named (`MoneyMovesAsConfirmed`). |
| `negotiation` | 304,000 | Manager and escrow together, with what either participant is offered, lets through and is quoted in each state. Stakes and slot agree (`PendingKeepsStakeAndSlot`), the agreement changes by a still valid acceptance or a direct extension only, a button that is shown is accepted and what is due is offered (`OfferedIffAccepted`), forms and quotes say what the contracts do (`FormsAndQuotesAgree`). |
| `records` | 212,000 | What the log tells of one request between a shipper and two carriers: the history accounts for the money, each chat for its own story, reputation counts once; lists, pages and chats agree; and, with fairness, every shipment is settled and every negotiation ends (`EverythingSettles`). |
| `provisioning` | 54,000 | Restarts, a new deployment and failing reads: a delivery misses its conversation only when, after it was accepted, its own reads or the listing failed. |
| `proofs` | 350,000 | Lost, doubled, failed steps and restarts anywhere: a recorded proof can be opened, the viewer shows that photo and leaves none behind, every upload ends. |
| `signin` | 596,000 | Accounts change, pages reload, messages arrive twice, the server restarts: the stored session is that of the account, one nonce buys one token, every sign-in ends. |
| `editor` | 1,014,000 | Two accounts, replaced plans, transactions refused, lost, reverted or overtaken: one nonce each, 'revoked' is said only of a plan that is gone, half a replacement is explained when the page learnt what became of its first half, no button stays busy. |
| `chat` | 6,527,000 | Two chats of a request, answers, pushes and loads in any order: nothing twice, nothing in the wrong chat, nothing sending for ever, failed messages stay. |

Three more runs, `editor_unanswered`, `signin_signer` and `chat_vanishing`, are
expected to find a violation; section 4 explains them.

**Bounds and why they are enough.** They stand in guards only.

- *Contracts.* `MaxRequests`, `MaxProposals` (per request), `MaxNegotiations` (per kind
  and request), `MaxVersion` and `MaxTime` cap what could grow for ever. Requests
  interact through the pool, the shippers' totals and the open list; two requests with
  two wallets give every combination of same and different shipper and the removal of
  the last and of another entry. Two initial milestones and an inserted third give every
  relation of an insertion to paid, submitted and pending ones. Amount 3 over the plan
  50/50 floors a share; gas prices lie on both sides of the cap. `MaxTime` is past both
  deadlines. `MinLeadTime` is 1 in `negotiation` and 0 in `records`, so that a response
  deadline can coincide with the shipment's. `MaxVersion` lets a shipment run to its end
  with withdrawals and rejections on the way.
- *Pages.* `MaxCards` is 2: additions to the same and to different places. Forms are
  tried with every value on both sides of each limit, the rows of the request form with
  every pair, payouts with six plans and all totals up to 13. `MaxProposals` is 1 in
  `negotiation`; with two it finds the same, more slowly.
- *Payments.* The reserve is quoted at one reference gas price in the run `pool`; that
  nothing but what was named is paid when the price moves between quote and funding is the
  theorem `MoneyAlwaysMovesAsConfirmed`, for any set of prices. `MaxEth` bounds what is redeemed; gas is left out of ETH. One conversion
  rate of 2 makes odd amounts inconvertible. A top-up of a form leaves the form, which
  is then opened anew.
- *Records.* A wallet has one role. `MaxBlocks` (7) limits every emission but
  refunds and expiries, so that each path still comes to its end.
- *Services.* One or two of each thing that can be confused with another (uploads,
  milestones, accounts, chats, plans, deployments), and `MaxTroubles` or `MaxTurns` for
  losses, restarts, clicks and account changes together. In `ProposalEditor` the first
  account is fixed by symmetry and an earlier plan differs from the default one. In
  `ChatRoom` the workspace stays open and there is one tab with one composer.
- *Clocks.* In the properties of the page the browser's clock is right; for claiming a refund it may
  also be behind; the server's
  is the chain's in `UploadsMatchEscrow`. The reads of one load, or of one
  authorisation, see one block.

The counters that a Solidity build would check for underflow are natural numbers in
`TypeOK`, so an underflow would be a violation of the type invariant. Overflow of
`uint256` is out of reach of the amounts CARGO can have and is not modelled.

What the boundary cases show: an amendment accepted in the very second of the deadline
it proposes passes the manager's checks and is refused by the escrow (the new deadline
must lie in the future). It stays pending until it expires, so `EverythingSettles` holds
and `OfferedIffAccepted` excepts it, with the acceptances offered although the agreement
moved on: every other answer that is offered is taken. The
request form refuses a row with something in it and no positive quantity; the filter in
front of the transaction would leave some of these out, but never gets them.
The withdrawal of a proof emits an event the chat does not read, so a withdrawn proof
stays told; `EveryChatTellsItsStory` therefore says of proofs only that a submitted one is
the last word on its milestone, not the converse.

**Fairness.** The runs without liveness assume none. `records` assumes that time passes,
that `RefundRemaining` is eventually called once it stays possible, and that somebody
expires an overdue negotiation. The first is an assumption on the *shipper*, the only
wallet the function admits, the second on any wallet. What the run shows is that the
contracts never close these ways out. Nobody is assumed to submit, review, accept or
answer. In `proofs`, `signin` and `editor` a page or a handler that runs goes on and a
promise settles, as their runtime has it: MetaMask and the RPC answer or fail, a receipt
arrives or times out, fetch returns or fails. No click, expiry, reload or restart need
happen.

## 4. Disagreements between code and comments

- **A revocation that comes late is denied** (`editor_unanswered`). `DESIGN.md:92` says
  of a half-done replacement: "keep the draft, explain that the original was revoked, and
  offer a retry that submits only the replacement". The page knows the revocation only
  from its receipt. When none comes within two minutes (`walletTransaction.js:92-96`), the
  handler fails with `revocationConfirmed` still false and says "The current proposal was
  not revoked" (`ProposeMilestones.jsx:524-531`), although the transaction is only late.
  Once it is mined, the carrier has no plan left, the message is false, and the retry sends
  the revocation again, which the contract refuses, until the page is opened anew.
  `HalfDoneReplacementIsTold` says what holds without this case:
  when the page learnt what became of its revocation, it explains it. The page of the
  model remembers in `answered` whether it did, which nothing but the properties reads.
- **A failed first reconciliation is never repeated** (no run of its own). The
  comment at `server/services/acceptedConversationProvisioner.js:87-89` says
  reconciliation covers deliveries accepted while the server was offline.
  `listeningContract` is set at line 81, before reconciliation is awaited; if the
  listing of requests fails, the error is logged and the 5-second refresh returns at
  line 75 for ever after, because the listener is bound. Deliveries accepted earlier
  stay without a conversation until a restart or a new deployment, unless a participant
  asks for one through the chat API. This is the exception `FailuresStayWithTheirRequest`
  makes: a listing that failed after a delivery was accepted excuses that delivery, and
  nothing else does but its own reads.
- **Account and signer may be two wallets** (`signin_signer`). `Web3Context.jsx` sets a
  signer only after comparing it with the account (64-68) and refuses one of another
  account (119-121). `connect()` sets both without looking at `accountRevision`; when
  the account changes while it awaits its signer, it puts the old account back, and the
  handler of the change, which looks at its own revision only, adds the new one's
  signer. The chat sign-in notices the difference; transactions are sent by the signer.
- **A message that was shown may vanish** (`chat_vanishing`). The composer publishes its
  bubble first so that a slow connection "never makes the composer feel like it
  swallowed a message" (`MessageComposer.jsx:47-49`). A load reads the rows, then waits
  for all chain notices and at least 220 ms, then replaces the whole list
  (`MessageTimeline.jsx:90-114`). What was sent and answered, or pushed, in between is
  neither remembered as optimistic nor among the rows, and is gone until the next load.
- **A refunded shipment may still name a duty** (no run of its own).
  `shipmentPresentation.js:280` gives such a page the next step "No further shipment
  action is required", and `shipmentPresentation.test.js:150-166` expects
  that no terminal state asks for anything. The test has no milestones. With an open one,
  `requiredActionFor` (346-362) asks the carrier for a proof, and with a submitted one the
  shipper for a review, whatever the status; the list of shipments does the same.
  `PagesAgree` says only that list and page name the same duty, and here both do.

## 5. What is proved

`tlapm` checks every proof; nothing is assumed except the named assumptions on the
constants. In `DeliveryEscrow`: `AccountAssumption`, `NumberAssumption` and
`InputAssumption` (the accounts differ, quantities are natural numbers, caps and rates
are positive, funding amounts are positive, plans are sequences of numbers); in
`FundingDesk`, `DeskAssumption` (finitely many wallets, so that all CARGO has a sum). In
`LifecycleManager`: `NegotiationAssumption` (a response has a price cap, the manager
starts without CARGO). In the services: the sets of wallets, uploads and milestones are
sets of the right kind, there is a wallet to edit with, and bounds are natural numbers.
The theorems hold for any number of users, requests, proposals, milestones, negotiations,
uploads, sign-ins and handlers, any plans, amounts, prices and deadlines, and for any
value of the bounds.

**About the escrow** (`DeliveryEscrow_proof`). The invariant

    IInv == ClockOK /\ MarketOK /\ RequestsOK /\ WorkOK /\ PoolOK

is inductive; there is a lemma per action, and each uses only the parts it needs.
From `IInvariant` follow `TypeCorrect`, `EscrowAlwaysBacked`,
`LockedTotalsAlwaysMatch`, `OpenListAlwaysMatches` and `OrderAlwaysComplete`. Why the
properties are not inductive by themselves:

- That the pool stays backed when a request is paid needs that the request's own pot
  does not exceed the pool (`PoolCoversPot`): a term of a sum of naturals is at most
  the sum. This needs `Solvent`, that no request has paid out more than was put in,
  and that unused request ids and unfunded requests have empty pots (`Unfunded`).
- That a payout computed on funding is a natural number (the last milestone takes
  what is left) needs that the accepted plan is valid. It was validated when
  *proposed*, so the invariant carries `PlansOK` for all stored proposals, and
  `PayoutIsNat` shows that floored shares never exceed the total.
- `OpenListMatches` says that the index points at the entry. Swap-and-pop also needs
  the converse, that every entry is pointed at by its index (`OpenListOK`).
- `ExecutionOrderIsComplete` after an amendment needs what repeated insertion does to
  a sequence. `WithInsertions` gives the result of the loop in closed form, and
  `InsertionsKeepEverything` shows it is a sequence of
  exactly the old and new milestones.

The module begins with the facts about sums all this rests on: `SumIsNat`, `SumUpdate`,
`TermBelowSum`, `SumOfTwo`, `SumScaled`, `SumExtended`, `SumPadded`, `SumRenamed`.

**About the order of work** (`ShipmentMoney_proof`, Part I). `WorkAlwaysInOrder`,
`SettledWorkStaysFinal` and `QuotesAreAlwaysVersioned`, from `OrderInv`: per request,
what lies before a paid or submitted milestone is paid, an unfunded request has version 0,
a completed one has only paid milestones and a refunded one nothing in escrow (this is
why a late review of a refunded shipment can never pay). An amendment inserts by the
place its target has when it is *applied*; since a target is never paid or submitted,
everything begun lies before every insertion and stays where it is (`AdditionsGoBehind`,
`FrontStays`). That the order lists nothing twice follows from its length and its
completeness (`EachOnce`).

**About the money of a shipment** (`ShipmentMoney_proof`, Parts II and III).
`EscrowAlwaysMatchesMilestones`, and on top of it `MoneyAlwaysFollowsTheWork`.

- `WorthInv`: what was released is the sum of the paid milestones, and a running
  request's escrow the sum of the others. An approval moves one term from one sum to the
  other; funding needs that the floored shares and the remainder add up to the amount
  exactly (`PayoutsSumUp`), whatever ids the milestones get (`SumRenamed`).
- `HeldInv`: a request that does not run is empty; one that runs has an open last
  milestone that is worth something (`LastPayoutIsPositive`: floored shares of less than
  the whole amount leave something), so the escrow never runs dry before the work is
  done. The reserve covers every proof to come at the request's own gas price cap, and
  what was spent is limited by the milestones that were reimbursed: both counts are taken
  by id (`CountById`), and they survive insertions, the cap a top-up raises
  (`CapIsCovered`, `LimitGrows`) and reimbursements that are themselves limited by what
  must be kept for later (`ReimbursementIsLimited`).

**That the escrow keeps its promise** (`ShipmentMoney_proof`, Parts IV and V). `EscrowKeepsItsPromise`:
`DeliveryEscrow` implements `EscrowPromise` under the mapping in `DeliveryEscrow`, for any
number of requests. The argument has three layers: what each action does to its request's
figures (`SubmitFigures`, `ApproveFigures`, ...), what a change of one request's figures
and of the wallets is in terms of the mapped variables (`OneRequest`, `WalletsPaid`), and
one lemma per step of the promise (`PayStep`, `DeliverStep`, ...). Two facts need
invariants of their own: that the last approval pays exactly what is left (`HeldInv`: once
every milestone is paid nothing is held), and that a carrier is never the shipper
(`DealInv`: no stored proposal is from its request's shipper). `DealInv` also gives
`ProposalsAlwaysMatch`. `ActiveCountsAlwaysMatch`: the count of a shipper's active
requests goes down when the last CARGO leaves and the status changes when the last
milestone is paid, and these are always the same approval.

**About the review page** (`ShipmentPages_proof`, Part I). `NumberAlwaysIdentifies` and
`PaidProofsWereShown`: however often a carrier replaces proofs, a shipper pays only for
the one on the page. The escrow's steps are first shown to be kind to submission numbers
(`Kept`: the number never decreases, and a milestone submitted after a step either has a
higher number or is submitted as it was). The invariant `ReviewInv` adds to `IInv` that
milestones yet to be created have number 0 (`FreshOK`) and that no shown number is ahead
of the contract's (`ShownOK`): without it a future submission could reuse a shown number.

**About paying** (`ShipmentPages_proof`, Parts II and III). `MoneyAlwaysMovesAsConfirmed`
has an invariant (`DeskInv`) with two sides.

- *At the escrow*: no step a wallet did not confirm takes CARGO from it, and every step
  of the escrow keeps the sum of all CARGO (a step names who pays whom, and `SumOfTwo`
  does the rest). With the token's own steps beside it, CARGO and the token's ETH change
  together: nothing is minted without a deposit.
- *At the dialog*: while one is open, what it names is what its step will cost. The price
  of a request is set when it is created and never changes; a funding takes the reserve the
  dialog named, whatever the minimum is by then; the two fields of a conversion stay
  multiples of each other. Whoever is connected when a dialog is confirmed pays what it
  names, and a step under way keeps its signer.

`EscrowStaysBackedBesideTheToken` transfers the escrow's own results to this system.

**About what the pages tell** (`ShipmentPages_proof`, Part IV). These three compare pieces
of code that were written apart, in every state of the escrow, and so rest on its
invariants: `WhoeverMustActIsAlwaysTold` needs that milestones are done in order and that a
running shipment has an open one; `PagesAlwaysAgree` that the market's list is exact and
that index and stored proposals agree; `ChatsAlwaysMeet` that a funded request has exactly
one accepted proposal, which is its carrier's.

**About the negotiations** (`LifecycleManager_proof`). The escrow does not validate an
amendment again when the manager applies it, and on its own module it is proved safe only
under hooks that are called with valid allocations. Three invariants of the composition
close the gap.

- *The escrow stays sound* (`EscrowSoundUnderTheManager`, `ChainTypeCorrect`). Every
  manager action is to the escrow one of its own steps, CARGO moving beside it, or an
  amendment with valid allocations (`EscrowStepOK`, `BesideOK`, `PaidAmendmentOK`).
- *Why the allocations are still valid* (`NegotiationInv`). While an amendment is pending
  under the version pinned with it, everything it was validated against is as it was:
  `ProceedsMoves` shows for each action of the escrow that statuses, order, deadline and
  added payouts either stay or the version goes up. An acceptance looks at the version, so
  what it applies is valid: `AgreementAlwaysChangesByAcceptance`.
- *The stakes* (`PendingAlwaysKeepsItsStake`). What the manager holds is a sum over
  shipments of sums over their amendments. Each answer moves one stake out of both sums; the
  slot of a shipment and its pending record determine each other (`SlotOK`). The assumption
  that the manager starts without CARGO is needed here: CARGO sent to it by anybody for no
  amendment would stay there.

**About signing in** (`WalletSession_proof`).

- `EveryNonceBuysOneToken`: a nonce is active for one wallet, once, and never again after
  a token was issued for it. The handler of POST /verify looks the nonce up, awaits the
  check of the signature and only then consumes it; two copies may both have looked it up,
  and the proof rests on the second half alone.
- `SessionIsAlwaysTheAccounts`: whatever starts a sign-in outdates a restore under way,
  and the other way round, so only one of them can write the store. The message button
  signs in with an account React has not rendered; the property therefore excepts a
  sign-in that will still replace or clear the session. Without this exception the property
  holds only as long as the bound on account changes cuts the behaviour off in time, which
  the attempt to prove it brought to light.

**About proofs of delivery** (`ProofUpload_proof`). `RecordedProofsAlwaysOpen` follows a
proof backwards (`ProofInv`): the chain names an upload whose finalization was answered;
the answer came after the row with the key was stored, that after the ciphertext was
retrieved and its hash compared; rows and pins are never lost. Each step survives doubled
calls, lost answers and restarts, since what it established is on disk or on IPFS.
`ViewerAlwaysShowsOnlyThatPhoto` (`ViewerInv`): a load is current only while the viewer is
open with the very proof the load is for, and only a current load may leave a photo.

**About the editor** (`ProposalEditor_proof`).

- `EveryTransactionHasItsNonce`, from `QueueInv`: the handlers of a wallet stand in one
  line, without repetition; only the first of them signs or waits, the nonce it read is the
  wallet's pending count, and the nonces in the mempool are exactly those between the mined
  count and that one.
- `HalfDoneReplacementIsAlwaysTold`, from `EditorInv`: a page that was left alone is in one
  of three situations. Before it has found its plan (`Loading`) nothing but registrations
  is under way; while it shows an active plan (`Replacing`) every other handler is a
  replacement, and the old plan is revoked only after a handler knows that the first half
  went through, or will know; otherwise (`NotEditing`) nothing is being replaced. It needs
  that a carrier has one active proposal (`OneActive`) and that a receipt is only given for a
  nonce that was mined (`OpInv`). A handler that fails without having learnt the fate of its
  revocation leaves `answered` false; of such a page the theorem says only that it shows an
  error, which is all the code keeps (section 4).

**About the history** (`EscrowRecords_proof`, Parts I to V). The escrow decides by its
figures, the payment history is read from events, and no code relates the two.
`HistoryAlwaysExplainsTheMoney` rests on an invariant of the log, the `Ledger`: for each
request and each kind of money event, what the log adds up to is what the escrow's figures
say (funded, released, refunded, tipped, reserve paid in, reimbursed, returned). A block
adds to each sum what is booked in it (`AmountGrows`), so a step keeps the ledger when its
block says exactly what the step does to the figures (`Recorded`); that is one lemma per
transaction, hardest where one transaction moves money several ways (the last approval, an
accepted amendment, a mutual cancellation). `RecordsInv` is the ledger with the invariants
of escrow and manager.

**About the chats** (`EscrowRecords_proof`, Parts VI to XI). `ChatsAlwaysTellTheStory` is
about what was said, how often, and what was said last. The invariant is a `Story` per
request: who was awarded it, its outcome, each milestone, the talks, and the offers of
every other carrier, each a statement about a class of events in the log (`Mentioned`,
`Once`, `LastWord`). A block that says nothing of a class leaves it (`MuteKeeps`), one
that mentions it once has the last word (`OneWord`); so for each part of the story a
transaction either leaves it alone and says nothing of it, or tells it anew
(`StoryByParts`). Part XI shows that what the chat filters out of the log are these
classes; that the latest event of a class exists at all is the well-founded order of the
natural numbers again (`LatestOfFound`).

**About reputation and records** (`EscrowRecords_proof`, Parts XII to XIV).
`RecordsAlwaysCountOnceAndStay` is an action property: it says of every step what is
counted after it, and that nothing on record before it is lost. `CountedInv` relates log
and manager: at most one cancellation of a request was accepted, and only if it was
refunded; a completion is told once; an expiry is told exactly of a funded request that was
refunded without an agreement, and to its carrier; a request with a payment in the log was
funded. So the requests of a carrier that are over fall into four disjoint parts
(`OutcomesRead`; `FourParts` of `LifecycleManager_proof`), the fourth being the
cancellations the shipper asked for, which the page does not count for the carrier.
`RatingsInv` says that the registry's counts are those of the rated requests of each
carrier, each of which is completed; a completed request does not change any more
(`OverStays`), which is what keeps a rating with its carrier and a delivery on time
(`OnTimeStays`). A payment stays with the wallets it concerned (`PaymentsKeepTheirOwners`),
since a request with a payment has its carrier for good; that
is why the account page may read on from its last block (`HistoryReadOn`).

**Only model-checked.**

- The liveness properties (`EverythingSettles`, `EveryUploadEnds`, `SigningInEnds`,
  `EverySubmissionEnds`, `FailuresStayWithTheirRequest`, which is a leads-to) and those
  that compare a page with `ENABLED` (`OfferedIffAccepted`, `FormsAndQuotesAgree`,
  `UploadsMatchEscrow`): fairness and ENABLED are outside what this version of the proof
  system does.
- What a fold over a sequence computes for every input, since the library's induction
  rules cannot be instantiated: the timelines of `ChatRoom` (`EveryBubbleEndsOnce`,
  `EveryMessageIsWhereItBelongs`, `FailedBubblesStay`) and the insertion of rows in
  `AmendmentForm` (`ArrangementIsTheResult`). Where the code finds a least or greatest number, the proofs
  use the well-founded order of the natural numbers instead (`LeastExists`, `Topmost`).

## 6. What is not modelled

- Reentrancy: the contracts use OpenZeppelin's `nonReentrant` and a token without
  callbacks, so a transaction is one step.
- Rate limiters (`middleware/rateLimit.js`, `walletRateLimit.js`): a refused call is a
  failed call, which the models allow at any time.
- The account page's polling lanes, the profile context beyond `requireRegistration`,
  the contract context: single reads that are repeated.
- Searching, sorting, paging, maps, wording and layout of the pages; the static pages
  `Carrier.jsx` and `Shipper.jsx`; gas settings and the wording of transaction errors.
- Server bootstrap, deployment, seeds, launchers, generated bundles: no state whose
  evolution could go wrong, or third party.
- That a request found accepted by the provisioner stays accepted is used
  (`accepted` only grows); in the escrow it follows from `carrier` never being reset.
- A new deployment of the contracts between the provisioner's check and its write files
  the conversation under the new escrow (`conversationService.js:43`); the model has the
  step, and no promise of the code covers it.
- The confirmation of an approval names the payout of the last load (`Track.jsx:1168`),
  which an amendment may have changed; `verifyMilestone` takes no amount, so there is
  nothing the code promises. Likewise a request status shown beside a row of the history
  is as old as the row (`Account.jsx:210`).

## 7. Next steps

Every safety property of the runs that the proof system can reach is proved. What is left
to grow is the model: the account page's polling lanes and the profile context, which are
single reads today, and the pages' own drafts.
