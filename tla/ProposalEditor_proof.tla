------------------------- MODULE ProposalEditor_proof -------------------------
(***************************************************************************)
(* The theorems about the editor of milestone plans (ProposalEditor).  Part *)
(* I: two transactions of a wallet never take one nonce, for the handlers   *)
(* of a wallet stand in one line and only the first of them signs.  Part    *)
(* II: what the page says of a replacement that came to an end half way is  *)
(* true, as far as it learns what became of the first half.  Both hold for  *)
(* any number of accounts, plans, handlers and turns.                       *)
(***************************************************************************)
EXTENDS ProposalEditor, FiniteSetTheorems, WellFoundedInduction, TLAPS

-----------------------------------------------------------------------------
(* Types.                                                                   *)

Steps == {"idle", "check", "queue", "sign", "wait"}
Ops == [kind : {"none", "submit", "revoke", "register"}, step : Steps, call : Calls,
        wallet : Wallets \cup {NoWallet}, plan : Plans, replacing : BOOLEAN, confirmed : BOOLEAN,
        attached : BOOLEAN, nonce : Nat, receipt : {"none", "success", "reverted"}]
Txs == [wallet : Wallets, nonce : Nat, call : Calls, plan : Plans, op : OpIds]
Proposals ==
  [carrier : Wallets, status : {"Active", "Rejected", "Revoked", "Accepted"}, plan : Plans]
Pages ==
  [intent : {"propose", "edit", "resubmit"}, source : Nat, status : {"unknown", "Open", "Closed"},
   load : {"request", "proposals", "plan", "none", "left"}, found : Nat, own : Nat,
   draft : Plans, copied : BOOLEAN, revoked : BOOLEAN, completed : BOOLEAN,
   error : {"none", "revoked", "not revoked"}, toast : {"none", "revoked"}, quiet : BOOLEAN,
   answered : BOOLEAN]

ChainTypes ==
  /\ open \in BOOLEAN /\ proposals \in Seq(Proposals) /\ registered \subseteq Wallets
  /\ mined \in [Wallets -> Nat] /\ mempool \subseteq Txs /\ IsFiniteSet(mempool)

PageTypes ==
  /\ account \in Wallets /\ page \in Pages
  /\ page.source \in {0} \cup DOMAIN proposals
  /\ page.load = "plan" => page.found \in DOMAIN proposals

OpTypes ==
  /\ ops \in [OpIds -> Ops] /\ queue \in [Wallets -> Seq(OpIds)]
  /\ \A o \in OpIds : ops[o].step # "idle" => ops[o].wallet \in Wallets

-----------------------------------------------------------------------------
(* The line of a wallet.                                                    *)

InLine(o) == ops[o].step \in {"queue", "sign"}

LineInv ==
  \A w \in Wallets :
    /\ \A k \in DOMAIN queue[w] :
         /\ InLine(queue[w][k]) /\ ops[queue[w][k]].wallet = w
         /\ ops[queue[w][k]].step = "sign" => k = 1
    /\ \A k, l \in DOMAIN queue[w] : queue[w][k] = queue[w][l] => k = l
    /\ \A o \in OpIds : InLine(o) /\ ops[o].wallet = w =>
         \E k \in DOMAIN queue[w] : queue[w][k] = o

NonceInv ==
  /\ \A tx \in mempool : tx.nonce \in mined[tx.wallet] .. PendingCount(tx.wallet) - 1
  /\ OneNonceEach

QueueInv == ChainTypes /\ PageTypes /\ OpTypes /\ LineInv /\ NonceInv

-----------------------------------------------------------------------------
(* What a quiet page knows.                                                 *)

Busy(o) == ops[o].step # "idle"

(* The page asks for the current plan to be replaced.                       *)
Editing == page.intent = "edit" /\ ~page.completed

(* The first half of the replacement is through, and the handler that is    *)
(* at the second knows or will know.                                        *)
HalfDone(o) == \/ ops[o].confirmed
               \/ ops[o].step = "wait" /\ ops[o].call = "revoke" /\ ops[o].receipt = "success"

OpInv ==
  \A o \in OpIds : Busy(o) =>
    /\ ops[o].kind = "register" <=> ops[o].call = "register"
    /\ ops[o].kind = "submit" /\ ops[o].call = "revoke" => ops[o].replacing
    /\ ops[o].replacing => ops[o].kind = "submit"
    /\ ops[o].kind # "submit" \/ ops[o].call = "revoke" => ~ops[o].confirmed
    /\ ops[o].step = "check" => ops[o].kind # "register"
    /\ ops[o].step = "wait" /\ ops[o].receipt # "none" => ops[o].nonce < mined[ops[o].wallet]

WaitsFor(o, tx) ==
  ops[o].step = "wait" /\ ops[o].wallet = tx.wallet /\ ops[o].nonce = tx.nonce

TxInv == \A tx \in mempool : WaitsFor(tx.op, tx) => ops[tx.op].call = tx.call

OneActive ==
  \A p, q \in DOMAIN proposals :
    /\ proposals[p].status = "Active" /\ proposals[q].status = "Active"
    /\ proposals[p].carrier = proposals[q].carrier
    => p = q

(* Only the page's own handlers act.                                        *)
OnlyOwn ==
  /\ \A o \in OpIds : Busy(o) => ops[o].attached /\ ops[o].wallet = account
  /\ \A tx \in mempool : tx.wallet = account
  /\ \A o, p \in OpIds : Busy(o) /\ Busy(p) /\ ops[o].kind = "submit" /\ ops[p].kind = "submit" => o = p
  /\ page.own # 0 => page.own \in DOMAIN proposals /\ proposals[page.own].carrier = account
  /\ page.load = "plan" => proposals[page.found].carrier = account

NotEditing ==
  /\ ~page.revoked /\ page.error # "revoked"
  /\ \A o \in OpIds : Busy(o) => ~ops[o].replacing

EditorLoads == page.load # "none" \/ page.own = 0

Loading ==
  /\ ~page.revoked /\ page.error = "none" /\ page.answered
  /\ \A o \in OpIds : Busy(o) => ops[o].kind = "register"
  /\ \A tx \in mempool : tx.call = "register"
  /\ page.load = "plan" => proposals[page.found].status # "Revoked"

Replacing ==
  /\ \A o \in OpIds : Busy(o) /\ ops[o].kind # "register" => ops[o].replacing
  /\ page.revoked \/ page.error = "revoked" \/ (\E o \in OpIds : Busy(o) /\ ops[o].replacing /\ HalfDone(o))
       => proposals[page.own].status # "Active"
  /\ page.revoked => \A o \in OpIds : Busy(o) /\ ops[o].replacing => ops[o].confirmed
  /\ page.error = "none" => page.answered
  /\ proposals[page.own].status = "Revoked" /\ page.answered =>
       \/ page.error = "revoked" /\ page.revoked
       \/ \E o \in OpIds : Busy(o) /\ ops[o].replacing /\ HalfDone(o) /\ ops[o].step # "check"
  /\ \A tx \in mempool : tx.call = "revoke" /\ page.answered =>
       WaitsFor(tx.op, tx) /\ ops[tx.op].replacing

PageInv ==
  page.quiet =>
    /\ OnlyOwn
    /\ ~Editing => NotEditing
    /\ Editing /\ EditorLoads => Loading
    /\ Editing /\ ~EditorLoads => Replacing

EditorInv == OpInv /\ TxInv /\ OneActive /\ PageInv

-----------------------------------------------------------------------------
(* Least and greatest numbers.                                              *)

LEMMA LeastExists ==
  ASSUME NEW T \in SUBSET Nat, T # {}
  PROVE  \E x \in T : \A y \in T : x <= y
<1> DEFINE R == {pair \in Nat \X Nat : pair[1] < pair[2]}
<1>1. IsWellFoundedOn(R, Nat)
  BY NatLessThanWellFounded DEF OpToRel
<1>2. \A x, y \in Nat : <<x, y>> \in R <=> x < y
  OBVIOUS
<1> HIDE DEF R
<1>3. PICK x \in T : \A y \in T : <<y, x>> \notin R
  BY <1>1, WFMin
<1>4. \A y \in T : x \in Nat /\ y \in Nat /\ ~(y < x)
  BY <1>2, <1>3
<1>5. QED BY <1>4

LEMMA GreatestExists ==
  ASSUME NEW n \in Nat, NEW T \in SUBSET (1 .. n), T # {}
  PROVE  \E x \in T : \A y \in T : y <= x
<1> DEFINE Bounds == {b \in Nat : \A y \in T : y <= b}
<1>1. Bounds \in SUBSET Nat /\ n \in Bounds
  OBVIOUS
<1>2. PICK b \in Bounds : \A c \in Bounds : b <= c
  BY <1>1, LeastExists
<1>3. b \in T
  <2>1. PICK y \in T : TRUE
    OBVIOUS
  <2>2. ASSUME b \notin T PROVE FALSE
    <3>1. \A z \in T : z \in Nat /\ z <= b /\ z # b
      BY <2>2
    <3>2. b - 1 \in Nat /\ \A z \in T : z <= b - 1
      BY <2>1, <3>1
    <3>3. b - 1 \in Bounds
      BY <3>2
    <3>4. QED BY <1>2, <3>3
  <2>3. QED BY <2>2
<1>4. QED BY <1>2, <1>3

LEMMA LastRejectedFacts ==
  ASSUME ChainTypes, NEW w \in Wallets
  PROVE  LastRejected(w) \in {0} \cup DOMAIN proposals
<1> DEFINE rejected == OwnWith(w, "Rejected")
<1>1. CASE rejected = {}
  BY <1>1 DEF LastRejected
<1>2. CASE rejected # {}
  <2>1. DOMAIN proposals = 1 .. Len(proposals) /\ Len(proposals) \in Nat
    BY DEF ChainTypes
  <2>2. rejected \in SUBSET (1 .. Len(proposals))
    BY <2>1 DEF OwnWith
  <2> HIDE DEF rejected
  <2>3. \E p \in rejected : \A q \in rejected : q <= p
    BY <1>2, <2>1, <2>2, GreatestExists
  <2>4. LastRejected(w) \in rejected
    BY <1>2, <2>3 DEF LastRejected, rejected
  <2>5. QED BY <2>1, <2>2, <2>4
<1>3. QED BY <1>1, <1>2

LEMMA ActiveFacts ==
  ASSUME ChainTypes, NEW w \in Wallets
  PROVE  /\ ActiveOf(w) \in {0} \cup DOMAIN proposals
         /\ ActiveOf(w) # 0 => /\ proposals[ActiveOf(w)].carrier = w
                               /\ proposals[ActiveOf(w)].status = "Active"
         /\ ActiveOf(w) = 0 => \A p \in DOMAIN proposals :
              ~(proposals[p].carrier = w /\ proposals[p].status = "Active")
<1>1. 0 \notin DOMAIN proposals
  BY DEF ChainTypes
<1>2. QED BY <1>1 DEF ActiveOf, OwnWith

-----------------------------------------------------------------------------
(* Types of records.                                                        *)

LEMMA OpenedType ==
  ASSUME ChainTypes, account \in Wallets, NEW intent \in {"propose", "edit", "resubmit"}
  PROVE  /\ Opened(intent) \in Pages /\ Opened(intent).source \in {0} \cup DOMAIN proposals
         /\ Opened(intent).load = "request" /\ Opened(intent).own = 0
         /\ Opened(intent).error = "none" /\ ~Opened(intent).revoked /\ Opened(intent).answered
         /\ Opened(intent).quiet => mempool = {} /\ \A o \in OpIds : ops[o].step = "idle"
<1>1. LastRejected(account) \in {0} \cup DOMAIN proposals
  BY LastRejectedFacts
<1>2. DOMAIN proposals \subseteq Nat
  BY DEF ChainTypes
<1>3. LastRejected(account) \in Nat
  BY <1>1, <1>2
<1>4. DefaultPlan \in Plans
  BY EditorAssumption
<1>5. QED BY <1>1, <1>3, <1>4 DEF Opened, Pages

LEMMA NoOpType == NoOp \in Ops /\ NoOp.step = "idle"
BY EditorAssumption DEF NoOp, Ops, Steps, Calls

(* The handlers a click starts.                                             *)
SubmitOp ==
  [NoOp EXCEPT !.kind = "submit", !.step = "check", !.wallet = account,
               !.plan = page.draft, !.attached = TRUE,
               !.replacing = PresentationMode = "edit-active", !.confirmed = page.revoked]
RevokeOp == [NoOp EXCEPT !.kind = "revoke", !.step = "check", !.wallet = account, !.attached = TRUE]
RegisterOp == [NoOp EXCEPT !.kind = "register", !.call = "register", !.step = "queue",
                           !.wallet = account, !.attached = TRUE]

LEMMA StartedOps ==
  ASSUME PageTypes
  PROVE  /\ SubmitOp \in Ops /\ RevokeOp \in Ops /\ RegisterOp \in Ops
         /\ SubmitOp.kind = "submit" /\ SubmitOp.step = "check" /\ SubmitOp.call = "propose"
         /\ SubmitOp.wallet = account /\ SubmitOp.attached
         /\ SubmitOp.replacing = (PresentationMode = "edit-active")
         /\ SubmitOp.confirmed = page.revoked
         /\ RevokeOp.kind = "revoke" /\ RevokeOp.step = "check" /\ RevokeOp.call = "propose"
         /\ RevokeOp.wallet = account /\ RevokeOp.attached
         /\ ~RevokeOp.replacing /\ ~RevokeOp.confirmed
         /\ RegisterOp.kind = "register" /\ RegisterOp.step = "queue" /\ RegisterOp.call = "register"
         /\ RegisterOp.wallet = account /\ RegisterOp.attached
         /\ ~RegisterOp.replacing /\ ~RegisterOp.confirmed
<1> DEFINE mode == PresentationMode = "edit-active"
<1>1. account \in Wallets /\ page.draft \in Plans /\ page.revoked \in BOOLEAN /\ mode \in BOOLEAN
  BY DEF PageTypes, Pages
<1> HIDE DEF mode
<1>2. NoOp \in Ops /\ NoOp.call = "propose" /\ NoOp.replacing = FALSE /\ NoOp.confirmed = FALSE
  BY NoOpType DEF NoOp
<1>3. /\ RevokeOp \in Ops
      /\ RevokeOp.kind = "revoke" /\ RevokeOp.step = "check" /\ RevokeOp.call = "propose"
      /\ RevokeOp.wallet = account /\ RevokeOp.attached
      /\ ~RevokeOp.replacing /\ ~RevokeOp.confirmed
  BY <1>1, <1>2 DEF RevokeOp, Ops, Steps
<1>4. /\ RegisterOp \in Ops
      /\ RegisterOp.kind = "register" /\ RegisterOp.step = "queue" /\ RegisterOp.call = "register"
      /\ RegisterOp.wallet = account /\ RegisterOp.attached
      /\ ~RegisterOp.replacing /\ ~RegisterOp.confirmed
  BY <1>1, <1>2 DEF RegisterOp, Ops, Steps, Calls
<1>5. /\ SubmitOp \in Ops
      /\ SubmitOp.kind = "submit" /\ SubmitOp.step = "check" /\ SubmitOp.call = "propose"
      /\ SubmitOp.wallet = account /\ SubmitOp.attached
      /\ SubmitOp.replacing = mode /\ SubmitOp.confirmed = page.revoked
  BY <1>1, <1>2 DEF SubmitOp, Ops, Steps, mode
<1>6. QED BY <1>3, <1>4, <1>5 DEF mode

LEMMA FreeOpFacts ==
  ASSUME HasFreeOp
  PROVE  FreeOp \in OpIds /\ ops[FreeOp].step = "idle"
BY DEF HasFreeOp, FreeOp

-----------------------------------------------------------------------------
(* How a wallet's line changes.                                             *)

InLineNext(o) == ops'[o].step \in {"queue", "sign"}

LEMMA LineRead ==
  ASSUME \A w \in Wallets :
           /\ \A k \in DOMAIN queue'[w] :
                /\ InLineNext(queue'[w][k]) /\ ops'[queue'[w][k]].wallet = w
                /\ ops'[queue'[w][k]].step = "sign" => k = 1
           /\ \A k, l \in DOMAIN queue'[w] : queue'[w][k] = queue'[w][l] => k = l
           /\ \A o \in OpIds : InLineNext(o) /\ ops'[o].wallet = w =>
                \E k \in DOMAIN queue'[w] : queue'[w][k] = o
  PROVE  LineInv'
BY DEF LineInv, InLineNext, InLine

LEMMA LineKept ==
  ASSUME OpTypes, LineInv, UNCHANGED queue,
         \A o \in OpIds : /\ InLine(o) <=> InLineNext(o)
                          /\ InLine(o) => ops'[o].wallet = ops[o].wallet /\ ops'[o].step = ops[o].step
  PROVE  LineInv'
<1>1. ASSUME NEW w \in Wallets
      PROVE  /\ \A k \in DOMAIN queue'[w] :
                  /\ InLineNext(queue'[w][k]) /\ ops'[queue'[w][k]].wallet = w
                  /\ ops'[queue'[w][k]].step = "sign" => k = 1
             /\ \A k, l \in DOMAIN queue'[w] : queue'[w][k] = queue'[w][l] => k = l
             /\ \A o \in OpIds : InLineNext(o) /\ ops'[o].wallet = w =>
                  \E k \in DOMAIN queue'[w] : queue'[w][k] = o
  <2>1. \A k \in DOMAIN queue[w] : queue[w][k] \in OpIds
    BY DEF OpTypes
  <2>2. QED BY <2>1 DEF LineInv
<1>2. QED BY <1>1, LineRead

LEMMA LineJoins ==
  ASSUME OpTypes, LineInv, NEW o \in OpIds, NEW w \in Wallets, ~InLine(o),
         ops'[o].step = "queue", ops'[o].wallet = w,
         \A p \in OpIds : p # o => ops'[p] = ops[p],
         queue' = [queue EXCEPT ![w] = Append(queue[w], o)]
  PROVE  LineInv' /\ queue' \in [Wallets -> Seq(OpIds)]
<1>1. queue \in [Wallets -> Seq(OpIds)]
  BY DEF OpTypes
<1>2. /\ queue' \in [Wallets -> Seq(OpIds)] /\ queue'[w] = Append(queue[w], o)
      /\ \A u \in Wallets : u # w => queue'[u] = queue[u]
  BY <1>1
<1>3. \A u \in Wallets : \A k \in DOMAIN queue[u] :
        /\ queue[u][k] \in OpIds /\ queue[u][k] # o /\ InLine(queue[u][k])
        /\ ops'[queue[u][k]] = ops[queue[u][k]]
  BY <1>1 DEF LineInv
<1>4. /\ DOMAIN queue'[w] = DOMAIN queue[w] \cup {Len(queue[w]) + 1}
      /\ Len(queue[w]) + 1 \notin DOMAIN queue[w] /\ queue'[w][Len(queue[w]) + 1] = o
      /\ \A k \in DOMAIN queue[w] : queue'[w][k] = queue[w][k]
  BY <1>1, <1>2
<1>5. InLineNext(o) /\ ops'[o].step # "sign"
  BY DEF InLineNext
<1>6. ASSUME NEW u \in Wallets
      PROVE  /\ \A k \in DOMAIN queue'[u] :
                  /\ InLineNext(queue'[u][k]) /\ ops'[queue'[u][k]].wallet = u
                  /\ ops'[queue'[u][k]].step = "sign" => k = 1
             /\ \A k, l \in DOMAIN queue'[u] : queue'[u][k] = queue'[u][l] => k = l
             /\ \A p \in OpIds : InLineNext(p) /\ ops'[p].wallet = u =>
                  \E k \in DOMAIN queue'[u] : queue'[u][k] = p
  <2>1. CASE u = w
    <3>1. \A k \in DOMAIN queue'[w] :
            /\ InLineNext(queue'[w][k]) /\ ops'[queue'[w][k]].wallet = w
            /\ ops'[queue'[w][k]].step = "sign" => k = 1
      BY <1>3, <1>4, <1>5 DEF LineInv, InLine, InLineNext
    <3>2. \A k, l \in DOMAIN queue'[w] : queue'[w][k] = queue'[w][l] => k = l
      BY <1>3, <1>4 DEF LineInv
    <3>3. ASSUME NEW p \in OpIds, InLineNext(p), ops'[p].wallet = w
          PROVE  \E k \in DOMAIN queue'[w] : queue'[w][k] = p
      <4>1. CASE p = o
        BY <1>4, <4>1
      <4>2. CASE p # o
        <5>1. \E k \in DOMAIN queue[w] : queue[w][k] = p
          BY <3>3, <4>2 DEF LineInv, InLine, InLineNext
        <5>2. QED BY <1>4, <5>1
      <4>3. QED BY <4>1, <4>2
    <3>4. QED BY <2>1, <3>1, <3>2, <3>3
  <2>2. CASE u # w
    <3>1. queue'[u] = queue[u]
      BY <1>2, <2>2
    <3>2. \A p \in OpIds : InLineNext(p) /\ ops'[p].wallet = u => p # o
      BY <2>2
    <3>3. QED BY <1>3, <3>1, <3>2 DEF LineInv, InLine, InLineNext
  <2>3. QED BY <2>1, <2>2
<1>7. QED BY <1>2, <1>6, LineRead

LEMMA InFront ==
  ASSUME OpTypes, LineInv, NEW o \in OpIds,
         ops[o].step = "sign" \/ (ops[o].step = "queue" /\ NextInLine(o))
  PROVE  /\ ops[o].wallet \in Wallets /\ queue[ops[o].wallet] \in Seq(OpIds)
         /\ 1 \in DOMAIN queue[ops[o].wallet] /\ queue[ops[o].wallet][1] = o
<1>1. PICK w \in Wallets : w = ops[o].wallet
  BY DEF OpTypes
<1>2. queue[w] \in Seq(OpIds)
  BY DEF OpTypes
<1>3. PICK k \in DOMAIN queue[w] : queue[w][k] = o
  BY <1>1 DEF LineInv, InLine
<1>4. 1 \in DOMAIN queue[w] /\ Head(queue[w]) = queue[w][1]
  BY <1>2, <1>3
<1>5. queue[w][1] = o
  BY <1>1, <1>3, <1>4 DEF LineInv, NextInLine
<1>6. QED BY <1>1, <1>2, <1>4, <1>5

LEMMA LineSigns ==
  ASSUME OpTypes, LineInv, NEW o \in OpIds, ops[o].step = "queue", NextInLine(o), UNCHANGED queue,
         ops'[o].step = "sign", ops'[o].wallet = ops[o].wallet,
         \A p \in OpIds : p # o => ops'[p] = ops[p]
  PROVE  /\ LineInv'
         /\ \A p \in OpIds : p # o /\ ops[p].step = "sign" => ops[p].wallet # ops[o].wallet
<1>1. PICK w \in Wallets : w = ops[o].wallet
  BY DEF OpTypes
<1>2. 1 \in DOMAIN queue[w] /\ queue[w][1] = o
  BY <1>1, InFront
<1>3. \A u \in Wallets : \A k \in DOMAIN queue[u] : queue[u][k] \in OpIds
  BY DEF OpTypes
<1>4. \A u \in Wallets : \A k \in DOMAIN queue[u] : queue[u][k] = o => k = 1
  BY <1>1, <1>2 DEF LineInv
<1>5. ASSUME NEW u \in Wallets
      PROVE  /\ \A k \in DOMAIN queue'[u] :
                  /\ InLineNext(queue'[u][k]) /\ ops'[queue'[u][k]].wallet = u
                  /\ ops'[queue'[u][k]].step = "sign" => k = 1
             /\ \A k, l \in DOMAIN queue'[u] : queue'[u][k] = queue'[u][l] => k = l
             /\ \A p \in OpIds : InLineNext(p) /\ ops'[p].wallet = u =>
                  \E k \in DOMAIN queue'[u] : queue'[u][k] = p
  <2>1. \A k \in DOMAIN queue[u] :
          /\ InLineNext(queue[u][k]) /\ ops'[queue[u][k]].wallet = u
          /\ ops'[queue[u][k]].step = "sign" => k = 1
    BY <1>3, <1>4 DEF LineInv, InLine, InLineNext
  <2>2. \A p \in OpIds : InLineNext(p) /\ ops'[p].wallet = u =>
          \E k \in DOMAIN queue[u] : queue[u][k] = p
    BY DEF LineInv, InLine, InLineNext
  <2>3. QED BY <2>1, <2>2 DEF LineInv
<1>6. ASSUME NEW p \in OpIds, p # o, ops[p].step = "sign", ops[p].wallet = w PROVE FALSE
  BY <1>2, <1>6, InFront
<1>7. QED BY <1>1, <1>5, <1>6, LineRead

LEMMA LineLeaves ==
  ASSUME OpTypes, LineInv, NEW o \in OpIds,
         ops[o].step = "sign" \/ (ops[o].step = "queue" /\ NextInLine(o)), ~InLineNext(o),
         \A p \in OpIds : p # o => ops'[p] = ops[p], LeaveQueue(o)
  PROVE  /\ LineInv' /\ queue' \in [Wallets -> Seq(OpIds)]
         /\ \A p \in OpIds : p # o /\ ops[p].step = "sign" => ops[p].wallet # ops[o].wallet
<1>1. PICK w \in Wallets : w = ops[o].wallet
  BY DEF OpTypes
<1>2. /\ queue \in [Wallets -> Seq(OpIds)] /\ queue[w] \in Seq(OpIds)
      /\ 1 \in DOMAIN queue[w] /\ queue[w][1] = o
  BY <1>1, InFront DEF OpTypes
<1>3. queue' = [queue EXCEPT ![w] = Tail(queue[w])] /\ queue[w] # <<>>
  BY <1>1, <1>2 DEF LeaveQueue
<1>4. /\ queue' \in [Wallets -> Seq(OpIds)] /\ queue'[w] = Tail(queue[w])
      /\ \A u \in Wallets : u # w => queue'[u] = queue[u]
  BY <1>2, <1>3
<1>5. /\ \A k \in DOMAIN queue'[w] : /\ k \in Nat /\ k # 0 /\ k + 1 \in DOMAIN queue[w]
                                     /\ queue'[w][k] = queue[w][k + 1]
      /\ \A k \in DOMAIN queue[w] : k # 1 => k - 1 \in DOMAIN queue'[w] /\ k = (k - 1) + 1
  BY <1>2, <1>3, <1>4
<1>6. \A u \in Wallets : \A k \in DOMAIN queue[u] : queue[u][k] \in OpIds
  BY DEF OpTypes
<1>7. ASSUME NEW u \in Wallets
      PROVE  /\ \A k \in DOMAIN queue'[u] :
                  /\ InLineNext(queue'[u][k]) /\ ops'[queue'[u][k]].wallet = u
                  /\ ops'[queue'[u][k]].step = "sign" => k = 1
             /\ \A k, l \in DOMAIN queue'[u] : queue'[u][k] = queue'[u][l] => k = l
             /\ \A p \in OpIds : InLineNext(p) /\ ops'[p].wallet = u =>
                  \E k \in DOMAIN queue'[u] : queue'[u][k] = p
  <2>1. CASE u = w
    <3>1. ASSUME NEW k \in DOMAIN queue'[w]
          PROVE  /\ InLineNext(queue'[w][k]) /\ ops'[queue'[w][k]].wallet = w
                 /\ ops'[queue'[w][k]].step # "sign"
      <4>1. /\ k + 1 \in DOMAIN queue[w] /\ k + 1 # 1 /\ queue'[w][k] = queue[w][k + 1]
            /\ queue[w][k + 1] \in OpIds
        BY <1>5, <1>6
      <4>2. PICK p \in OpIds : p = queue[w][k + 1]
        BY <4>1
      <4>3. p # o /\ InLine(p) /\ ops[p].wallet = w /\ ops[p].step # "sign"
        BY <1>2, <4>1, <4>2 DEF LineInv
      <4>4. QED BY <4>1, <4>2, <4>3 DEF InLine, InLineNext
    <3>2. ASSUME NEW k \in DOMAIN queue'[w], NEW l \in DOMAIN queue'[w], queue'[w][k] = queue'[w][l]
          PROVE  k = l
      <4>1. k + 1 = l + 1
        BY <1>5, <3>2 DEF LineInv
      <4>2. QED BY <1>5, <4>1
    <3>3. ASSUME NEW p \in OpIds, InLineNext(p), ops'[p].wallet = w
          PROVE  \E k \in DOMAIN queue'[w] : queue'[w][k] = p
      <4>1. p # o /\ InLine(p) /\ ops[p].wallet = w
        BY <3>3 DEF InLine, InLineNext
      <4>2. PICK k \in DOMAIN queue[w] : queue[w][k] = p
        BY <4>1 DEF LineInv
      <4>3. k # 1
        BY <1>2, <4>1, <4>2
      <4>4. k - 1 \in DOMAIN queue'[w] /\ queue'[w][k - 1] = p
        BY <1>5, <4>2, <4>3
      <4>5. QED BY <4>4
    <3>4. QED BY <2>1, <3>1, <3>2, <3>3
  <2>2. CASE u # w
    <3>1. queue'[u] = queue[u]
      BY <1>4, <2>2
    <3>2. \A k \in DOMAIN queue[u] : queue[u][k] # o
      BY <1>1, <2>2 DEF LineInv
    <3>3. \A p \in OpIds : InLineNext(p) => p # o
      OBVIOUS
    <3>4. QED BY <1>6, <3>1, <3>2, <3>3 DEF LineInv, InLine, InLineNext
  <2>3. QED BY <2>1, <2>2
<1>8. ASSUME NEW p \in OpIds, p # o, ops[p].step = "sign", ops[p].wallet = w PROVE FALSE
  BY <1>2, <1>8, InFront
<1>9. QED BY <1>1, <1>4, <1>7, <1>8, LineRead

-----------------------------------------------------------------------------
(* How the nonces change.                                                   *)

PendingNext(w) == mined'[w] + Cardinality({tx \in mempool' : tx.wallet = w})

LEMMA NoncesRead ==
  ASSUME \A tx \in mempool' : tx.nonce \in mined'[tx.wallet] .. PendingNext(tx.wallet) - 1,
         \A s, t \in mempool' : (s.wallet = t.wallet /\ s.nonce = t.nonce) => s = t,
         \A o \in OpIds : ops'[o].step = "sign" => ops'[o].nonce = PendingNext(ops'[o].wallet)
  PROVE  NonceInv'
BY DEF NonceInv, OneNonceEach, PendingNext, PendingCount

LEMMA PendingFacts ==
  ASSUME ChainTypes, NEW w \in Wallets
  PROVE  /\ mined[w] \in Nat /\ PendingCount(w) \in Nat
         /\ IsFiniteSet({tx \in mempool : tx.wallet = w})
         /\ Cardinality({tx \in mempool : tx.wallet = w}) \in Nat
<1>1. IsFiniteSet({tx \in mempool : tx.wallet = w})
  <2>1. {tx \in mempool : tx.wallet = w} \subseteq mempool
    OBVIOUS
  <2>2. QED BY <2>1, FS_Subset DEF ChainTypes
<1>2. Cardinality({tx \in mempool : tx.wallet = w}) \in Nat
  BY <1>1, FS_CardinalityType
<1>3. QED BY <1>1, <1>2 DEF PendingCount, ChainTypes

LEMMA NoncesKept ==
  ASSUME NonceInv, UNCHANGED <<mined, mempool>>,
         \A o \in OpIds : ops'[o].step = "sign" =>
           \/ /\ ops[o].step = "sign" /\ ops'[o].nonce = ops[o].nonce
              /\ ops'[o].wallet = ops[o].wallet
           \/ ops'[o].nonce = PendingCount(ops'[o].wallet)
  PROVE  NonceInv'
BY DEF NonceInv, OneNonceEach, PendingCount

LEMMA NonceSent ==
  ASSUME ChainTypes, NonceInv, NEW w \in Wallets, NEW tx \in Txs, tx.wallet = w,
         tx.nonce = PendingCount(w), mempool' = mempool \cup {tx}, UNCHANGED mined,
         \A o \in OpIds : ops'[o].step = "sign" =>
           /\ ops[o].step = "sign" /\ ops'[o].nonce = ops[o].nonce
           /\ ops'[o].wallet = ops[o].wallet /\ ops[o].wallet # w /\ ops[o].wallet \in Wallets
  PROVE  NonceInv' /\ IsFiniteSet(mempool') /\ mempool' \subseteq Txs
<1>1. /\ \A t \in mempool : t \in Txs /\ t.wallet \in Wallets /\ t.nonce \in Nat
      /\ \A u \in Wallets : mined[u] \in Nat /\ PendingCount(u) \in Nat
  BY PendingFacts DEF ChainTypes, Txs
<1>2. \A t \in mempool : t.wallet = w => t.nonce < tx.nonce
  BY <1>1 DEF NonceInv
<1>3. tx \notin mempool
  BY <1>1, <1>2
<1>4. PendingNext(w) = PendingCount(w) + 1
  <2> DEFINE mine == {t \in mempool : t.wallet = w}
  <2>1. {t \in mempool' : t.wallet = w} = mine \cup {tx}
    OBVIOUS
  <2>2. IsFiniteSet(mine) /\ tx \notin mine /\ Cardinality(mine) \in Nat
    BY <1>3, PendingFacts
  <2>3. PendingCount(w) = mined[w] + Cardinality(mine)
    BY DEF PendingCount
  <2> HIDE DEF mine
  <2>4. Cardinality(mine \cup {tx}) = Cardinality(mine) + 1
    BY <2>2, FS_AddElement
  <2>5. QED BY <1>1, <2>1, <2>2, <2>3, <2>4 DEF PendingNext
<1>5. ASSUME NEW u \in Wallets, u # w PROVE PendingNext(u) = PendingCount(u)
  <2>1. {t \in mempool' : t.wallet = u} = {t \in mempool : t.wallet = u}
    BY <1>5
  <2>2. QED BY <2>1 DEF PendingNext, PendingCount
<1>6. ASSUME NEW t \in mempool' PROVE t.nonce \in mined'[t.wallet] .. PendingNext(t.wallet) - 1
  <2>1. CASE t = tx
    <3>1. mined[w] <= PendingCount(w)
      BY PendingFacts DEF PendingCount
    <3>2. QED BY <1>1, <1>4, <2>1, <3>1
  <2>2. CASE t \in mempool
    <3>1. t.nonce \in mined[t.wallet] .. PendingCount(t.wallet) - 1 /\ t.wallet \in Wallets
      BY <1>1, <2>2 DEF NonceInv
    <3>2. PendingCount(t.wallet) \in Nat /\ PendingNext(t.wallet) \in {PendingCount(t.wallet), PendingCount(t.wallet) + 1}
      BY <1>1, <1>4, <1>5, <3>1
    <3>3. QED BY <1>1, <3>1, <3>2
  <2>3. QED BY <2>1, <2>2
<1>7. \A s, t \in mempool' : (s.wallet = t.wallet /\ s.nonce = t.nonce) => s = t
  <2>1. \A s, t \in mempool : (s.wallet = t.wallet /\ s.nonce = t.nonce) => s = t
    BY DEF NonceInv, OneNonceEach
  <2>2. \A t \in mempool : ~(t.wallet = tx.wallet /\ t.nonce = tx.nonce)
    BY <1>1, <1>2
  <2>3. QED BY <2>1, <2>2
<1>8. \A o \in OpIds : ops'[o].step = "sign" => ops'[o].nonce = PendingNext(ops'[o].wallet)
  BY <1>5 DEF NonceInv, OneNonceEach
<1>9. IsFiniteSet(mempool')
  BY <1>3, FS_AddElement DEF ChainTypes
<1>10. mempool' \subseteq Txs
  BY DEF ChainTypes
<1>11. QED BY <1>6, <1>7, <1>8, <1>9, <1>10, NoncesRead

LEMMA NonceMined ==
  ASSUME ChainTypes, NonceInv, NEW tx \in mempool, tx.nonce = mined[tx.wallet],
         mempool' = mempool \ {tx}, mined' = [mined EXCEPT ![tx.wallet] = mined[tx.wallet] + 1],
         \A o \in OpIds : ops'[o].step = "sign" =>
           /\ ops[o].step = "sign" /\ ops'[o].nonce = ops[o].nonce
           /\ ops'[o].wallet = ops[o].wallet /\ ops[o].wallet \in Wallets
  PROVE  /\ NonceInv' /\ IsFiniteSet(mempool') /\ mempool' \subseteq Txs
         /\ mined' \in [Wallets -> Nat]
<1>1. PICK w \in Wallets : w = tx.wallet
  BY DEF ChainTypes, Txs
<1>2. /\ \A t \in mempool : t \in Txs /\ t.wallet \in Wallets /\ t.nonce \in Nat
      /\ \A u \in Wallets : mined[u] \in Nat /\ PendingCount(u) \in Nat
  BY PendingFacts DEF ChainTypes, Txs
<1>3. /\ mined' \in [Wallets -> Nat] /\ mined'[w] = mined[w] + 1
      /\ \A u \in Wallets : u # w => mined'[u] = mined[u]
  BY <1>1, <1>2 DEF ChainTypes
<1>4. PendingNext(w) = PendingCount(w)
  <2> DEFINE mine == {t \in mempool : t.wallet = w}
  <2>1. {t \in mempool' : t.wallet = w} = mine \ {tx} /\ tx \in mine
    BY <1>1
  <2>2. IsFiniteSet(mine) /\ Cardinality(mine) \in Nat
    BY PendingFacts
  <2>3. PendingCount(w) = mined[w] + Cardinality(mine)
    BY DEF PendingCount
  <2> HIDE DEF mine
  <2>4. Cardinality(mine \ {tx}) = Cardinality(mine) - 1
    BY <2>1, <2>2, FS_RemoveElement
  <2>5. PendingNext(w) = mined'[w] + Cardinality(mine \ {tx})
    BY <2>1 DEF PendingNext
  <2>6. QED BY <1>2, <1>3, <2>2, <2>3, <2>4, <2>5
<1>5. ASSUME NEW u \in Wallets, u # w PROVE PendingNext(u) = PendingCount(u)
  <2>1. {t \in mempool' : t.wallet = u} = {t \in mempool : t.wallet = u}
    BY <1>1, <1>5
  <2>2. QED BY <1>3, <1>5, <2>1 DEF PendingNext, PendingCount
<1>6. ASSUME NEW t \in mempool' PROVE t.nonce \in mined'[t.wallet] .. PendingNext(t.wallet) - 1
  <2>1. /\ t \in mempool /\ t # tx /\ t.wallet \in Wallets
        /\ t.nonce \in mined[t.wallet] .. PendingCount(t.wallet) - 1
    BY <1>2, <1>6 DEF NonceInv
  <2>2. PendingNext(t.wallet) = PendingCount(t.wallet)
    BY <1>4, <1>5, <2>1
  <2>3. CASE t.wallet = w
    <3>1. t.nonce # tx.nonce
      BY <1>1, <2>1, <2>3 DEF NonceInv, OneNonceEach
    <3>2. QED BY <1>1, <1>2, <1>3, <2>1, <2>2, <2>3, <3>1
  <2>4. CASE t.wallet # w
    BY <1>3, <2>1, <2>2, <2>4
  <2>5. QED BY <2>3, <2>4
<1>7. \A s, t \in mempool' : (s.wallet = t.wallet /\ s.nonce = t.nonce) => s = t
  BY DEF NonceInv, OneNonceEach
<1>8. \A o \in OpIds : ops'[o].step = "sign" => ops'[o].nonce = PendingNext(ops'[o].wallet)
  BY <1>4, <1>5 DEF NonceInv, OneNonceEach
<1>9. IsFiniteSet(mempool') /\ mempool' \subseteq Txs
  BY FS_RemoveElement DEF ChainTypes
<1>10. QED BY <1>3, <1>6, <1>7, <1>8, <1>9, NoncesRead

-----------------------------------------------------------------------------
(* What the pieces of the actions do to the types.                          *)

LEMMA OpSet ==
  ASSUME OpTypes, NEW o \in OpIds, NEW op \in Ops, op.step # "idle" => op.wallet \in Wallets,
         ops' = [ops EXCEPT ![o] = op]
  PROVE  /\ ops'[o] = op /\ \A p \in OpIds : p # o => ops'[p] = ops[p]
         /\ ops' \in [OpIds -> Ops]
         /\ \A p \in OpIds : ops'[p].step # "idle" => ops'[p].wallet \in Wallets
<1>1. ops'[o] = op /\ (\A p \in OpIds : p # o => ops'[p] = ops[p]) /\ ops' \in [OpIds -> Ops]
  BY DEF OpTypes
<1>2. ASSUME NEW p \in OpIds, ops'[p].step # "idle" PROVE ops'[p].wallet \in Wallets
  <2>1. CASE p = o
    BY <1>1, <1>2, <2>1
  <2>2. CASE p # o
    BY <1>1, <1>2, <2>2 DEF OpTypes
  <2>3. QED BY <2>1, <2>2
<1>3. QED BY <1>1, <1>2

LEMMA Ended ==
  ASSUME OpTypes, NEW o \in OpIds, End(o)
  PROVE  /\ ops'[o] = NoOp /\ ops'[o].step = "idle" /\ \A p \in OpIds : p # o => ops'[p] = ops[p]
         /\ ops' \in [OpIds -> Ops]
         /\ \A p \in OpIds : ops'[p].step # "idle" => ops'[p].wallet \in Wallets
<1>1. NoOp \in Ops /\ NoOp.step = "idle"
  BY NoOpType
<1>2. ops' = [ops EXCEPT ![o] = NoOp]
  BY DEF End
<1>3. QED BY <1>1, <1>2, OpSet

LEMMA FailedPage ==
  ASSUME PageTypes, OpTypes, NEW o \in OpIds, Failed(o), UNCHANGED <<account, proposals>>
  PROVE  /\ PageTypes'
         /\ page'.intent = page.intent /\ page'.completed = page.completed
         /\ page'.own = page.own /\ page'.load = page.load /\ page'.found = page.found
         /\ page'.quiet = page.quiet
         /\ ~(ops[o].attached /\ ops[o].replacing) => page' = page
         /\ ops[o].attached /\ ops[o].replacing =>
              /\ page'.revoked = ops[o].confirmed
              /\ page'.error = IF ops[o].confirmed THEN "revoked" ELSE "not revoked"
              /\ page'.answered = (page.answered /\ ~RevocationUnanswered(o))
<1>1. page \in Pages /\ ops[o] \in Ops
  BY DEF PageTypes, OpTypes
<1>2. CASE ~(ops[o].attached /\ ops[o].replacing)
  BY <1>2 DEF Failed, PageTypes
<1>3. CASE ops[o].attached /\ ops[o].replacing
  <2> DEFINE error == IF ops[o].confirmed THEN "revoked" ELSE "not revoked"
             confirmed == ops[o].confirmed
             answered == page.answered /\ ~RevocationUnanswered(o)
  <2>1. confirmed \in BOOLEAN /\ error \in {"none", "revoked", "not revoked"} /\ answered \in BOOLEAN
    BY <1>1 DEF Ops
  <2>2. page' = [page EXCEPT !.revoked = confirmed, !.error = error, !.answered = answered]
    BY <1>3 DEF Failed
  <2> HIDE DEF error, confirmed, answered
  <2>3. /\ page' \in Pages
        /\ page'.intent = page.intent /\ page'.completed = page.completed
        /\ page'.own = page.own /\ page'.load = page.load /\ page'.found = page.found
        /\ page'.quiet = page.quiet /\ page'.source = page.source
        /\ page'.revoked = confirmed /\ page'.error = error /\ page'.answered = answered
    BY <1>1, <2>1, <2>2 DEF Pages
  <2>4. PageTypes'
    BY <2>3 DEF PageTypes
  <2>5. QED BY <1>3, <2>3, <2>4 DEF error, confirmed, answered
<1>4. QED BY <1>2, <1>3

LEMMA PageTypesKept ==
  ASSUME PageTypes, UNCHANGED <<account, page>>, DOMAIN proposals \subseteq DOMAIN proposals'
  PROVE  PageTypes'
BY DEF PageTypes

(* A handler that ends was not in line, or leaves it.                       *)
LEMMA EndedOutsideTheLine ==
  ASSUME QueueInv, NEW o \in OpIds, End(o), ~InLine(o), UNCHANGED <<queue, mined, mempool>>
  PROVE  OpTypes' /\ LineInv' /\ NonceInv'
<1>1. OpTypes /\ LineInv /\ NonceInv
  BY DEF QueueInv
<1>2. /\ ops'[o].step = "idle" /\ \A p \in OpIds : p # o => ops'[p] = ops[p]
      /\ ops' \in [OpIds -> Ops]
      /\ \A p \in OpIds : ops'[p].step # "idle" => ops'[p].wallet \in Wallets
  BY <1>1, Ended
<1>3. OpTypes'
  BY <1>1, <1>2 DEF OpTypes
<1>4. \A p \in OpIds : /\ InLine(p) <=> InLineNext(p)
                       /\ InLine(p) => ops'[p].wallet = ops[p].wallet /\ ops'[p].step = ops[p].step
  BY <1>2 DEF InLine, InLineNext
<1>5. LineInv'
  BY <1>1, <1>4, LineKept
<1>6. NonceInv'
  <2>1. \A p \in OpIds : ops'[p].step = "sign" =>
          ops[p].step = "sign" /\ ops'[p].nonce = ops[p].nonce /\ ops'[p].wallet = ops[p].wallet
    BY <1>2
  <2>2. QED BY <1>1, <2>1, NoncesKept
<1>7. QED BY <1>3, <1>5, <1>6

LEMMA EndedInFront ==
  ASSUME QueueInv, NEW o \in OpIds, End(o), LeaveQueue(o), UNCHANGED <<mined, mempool>>,
         ops[o].step = "sign" \/ (ops[o].step = "queue" /\ NextInLine(o))
  PROVE  OpTypes' /\ LineInv' /\ NonceInv'
<1>1. OpTypes /\ LineInv /\ NonceInv
  BY DEF QueueInv
<1>2. /\ ops'[o].step = "idle" /\ \A p \in OpIds : p # o => ops'[p] = ops[p]
      /\ ops' \in [OpIds -> Ops]
      /\ \A p \in OpIds : ops'[p].step # "idle" => ops'[p].wallet \in Wallets
  BY <1>1, Ended
<1>3. ~InLineNext(o)
  BY <1>2 DEF InLineNext
<1>4. LineInv' /\ queue' \in [Wallets -> Seq(OpIds)]
  BY <1>1, <1>2, <1>3, LineLeaves
<1>5. OpTypes'
  BY <1>2, <1>4 DEF OpTypes
<1>6. NonceInv'
  <2>1. \A p \in OpIds : ops'[p].step = "sign" =>
          ops[p].step = "sign" /\ ops'[p].nonce = ops[p].nonce /\ ops'[p].wallet = ops[p].wallet
    BY <1>2
  <2>2. QED BY <1>1, <2>1, NoncesKept
<1>7. QED BY <1>4, <1>5, <1>6

(* A handler changes without entering or leaving the line.                  *)
LEMMA ChangedOutsideTheLine ==
  ASSUME QueueInv, NEW o \in OpIds, ops[o].step \in {"idle", "wait"}, NEW op \in Ops,
         op.step \notin {"queue", "sign"}, op.step # "idle" => op.wallet \in Wallets,
         ops' = [ops EXCEPT ![o] = op], UNCHANGED queue
  PROVE  /\ OpTypes' /\ LineInv'
         /\ \A p \in OpIds : ops'[p].step = "sign" =>
              /\ ops[p].step = "sign" /\ ops'[p].nonce = ops[p].nonce
              /\ ops'[p].wallet = ops[p].wallet /\ ops[p].wallet \in Wallets
<1>1. OpTypes /\ LineInv
  BY DEF QueueInv
<1>2. /\ ops'[o] = op /\ \A p \in OpIds : p # o => ops'[p] = ops[p]
      /\ ops' \in [OpIds -> Ops]
      /\ \A p \in OpIds : ops'[p].step # "idle" => ops'[p].wallet \in Wallets
  BY <1>1, OpSet
<1>3. OpTypes'
  BY <1>1, <1>2 DEF OpTypes
<1>4. \A p \in OpIds : /\ InLine(p) <=> InLineNext(p)
                       /\ InLine(p) => ops'[p].wallet = ops[p].wallet /\ ops'[p].step = ops[p].step
  BY <1>2 DEF InLine, InLineNext
<1>5. LineInv'
  BY <1>1, <1>4, LineKept
<1>6. QED BY <1>1, <1>2, <1>3, <1>5 DEF OpTypes

-----------------------------------------------------------------------------
(* The chain.                                                               *)

LEMMA ExecutedFacts ==
  ASSUME ChainTypes, NEW tx \in mempool, Accepts(tx.call, tx.wallet), Executed(tx)
  PROVE  /\ open' = open /\ proposals' \in Seq(Proposals) /\ registered' \subseteq Wallets
         /\ DOMAIN proposals \subseteq DOMAIN proposals'
         /\ tx.call = "register" => proposals' = proposals
         /\ tx.call = "revoke" =>
              /\ ActiveOf(tx.wallet) \in DOMAIN proposals
              /\ DOMAIN proposals' = DOMAIN proposals
              /\ proposals'[ActiveOf(tx.wallet)].status = "Revoked"
              /\ \A p \in DOMAIN proposals : proposals'[p].carrier = proposals[p].carrier
              /\ \A p \in DOMAIN proposals : p # ActiveOf(tx.wallet) => proposals'[p] = proposals[p]
         /\ tx.call = "propose" =>
              /\ ActiveOf(tx.wallet) = 0
              /\ DOMAIN proposals' = DOMAIN proposals \cup {Len(proposals) + 1}
              /\ Len(proposals) + 1 \notin DOMAIN proposals
              /\ \A p \in DOMAIN proposals : proposals'[p] = proposals[p]
              /\ proposals'[Len(proposals) + 1].carrier = tx.wallet
<1>1. /\ tx.wallet \in Wallets /\ tx.plan \in Plans /\ tx.call \in Calls
      /\ proposals \in Seq(Proposals) /\ registered \subseteq Wallets
  BY DEF ChainTypes, Txs
<1>2. CASE tx.call = "register"
  BY <1>1, <1>2 DEF Executed
<1>3. CASE tx.call = "revoke"
  <2>1. PICK a \in DOMAIN proposals : a = ActiveOf(tx.wallet)
    BY <1>1, <1>3, ActiveFacts DEF Accepts
  <2>2. open' = open /\ registered' = registered /\ proposals' = [proposals EXCEPT ![a].status = "Revoked"]
    BY <1>3, <2>1 DEF Executed
  <2> DEFINE gone == [proposals[a] EXCEPT !.status = "Revoked"]
  <2>3. proposals[a] \in Proposals
    BY <1>1, <2>1
  <2>4. gone \in Proposals /\ gone.status = "Revoked" /\ gone.carrier = proposals[a].carrier
    BY <2>3 DEF Proposals
  <2>5. proposals' = [proposals EXCEPT ![a] = gone]
    BY <2>2
  <2> HIDE DEF gone
  <2>6. /\ proposals' \in Seq(Proposals) /\ DOMAIN proposals' = DOMAIN proposals
        /\ proposals'[a] = gone /\ \A p \in DOMAIN proposals : p # a => proposals'[p] = proposals[p]
    BY <1>1, <2>1, <2>4, <2>5
  <2>7. QED BY <1>1, <1>3, <2>1, <2>2, <2>4, <2>6
<1>4. CASE tx.call = "propose"
  <2> DEFINE new == [carrier |-> tx.wallet, status |-> "Active", plan |-> tx.plan]
  <2>1. open' = open /\ registered' = registered /\ proposals' = Append(proposals, new)
    BY <1>4 DEF Executed
  <2>2. new \in Proposals /\ new.carrier = tx.wallet
    BY <1>1 DEF Proposals
  <2>3. ActiveOf(tx.wallet) = 0
    BY <1>4 DEF Accepts
  <2> HIDE DEF new
  <2>4. /\ proposals' \in Seq(Proposals) /\ DOMAIN proposals' = DOMAIN proposals \cup {Len(proposals) + 1}
        /\ Len(proposals) + 1 \notin DOMAIN proposals /\ proposals'[Len(proposals) + 1] = new
        /\ \A p \in DOMAIN proposals : proposals'[p] = proposals[p]
    BY <1>1, <2>1, <2>2
  <2>5. QED BY <1>1, <1>4, <2>1, <2>2, <2>3, <2>4
<1>5. QED BY <1>1, <1>2, <1>3, <1>4 DEF Calls

LEMMA MineKeepsQueue ==
  ASSUME QueueInv, NEW tx \in mempool, Mine(tx)
  PROVE  QueueInv'
<1>1. ChainTypes /\ PageTypes /\ OpTypes /\ LineInv /\ NonceInv
  BY DEF QueueInv
<1>2. /\ tx \in Txs /\ tx.wallet \in Wallets /\ tx.op \in OpIds
      /\ tx.nonce = mined[tx.wallet] /\ mempool' = mempool \ {tx}
      /\ mined' = [mined EXCEPT ![tx.wallet] = mined[tx.wallet] + 1]
      /\ UNCHANGED <<account, page, queue>>
  BY <1>1 DEF Mine, ChainTypes, Txs
<1>3. /\ open' \in BOOLEAN /\ proposals' \in Seq(Proposals) /\ registered' \subseteq Wallets
      /\ DOMAIN proposals \subseteq DOMAIN proposals'
  <2>1. CASE Accepts(tx.call, tx.wallet)
    <3>1. Executed(tx)
      BY <2>1 DEF Mine
    <3>2. QED BY <1>1, <2>1, <3>1, ExecutedFacts DEF ChainTypes
  <2>2. CASE ~Accepts(tx.call, tx.wallet)
    BY <1>1, <2>2 DEF Mine, marketVars, ChainTypes
  <2>3. QED BY <2>1, <2>2
<1>4. PageTypes'
  BY <1>1, <1>2, <1>3, PageTypesKept
<1>5. /\ OpTypes' /\ LineInv'
      /\ \A p \in OpIds : ops'[p].step = "sign" =>
           /\ ops[p].step = "sign" /\ ops'[p].nonce = ops[p].nonce
           /\ ops'[p].wallet = ops[p].wallet /\ ops[p].wallet \in Wallets
  <2> DEFINE waits == /\ ops[tx.op].step = "wait"
                      /\ ops[tx.op].wallet = tx.wallet /\ ops[tx.op].nonce = tx.nonce
             receipt == IF Accepts(tx.call, tx.wallet) THEN "success" ELSE "reverted"
  <2>1. CASE waits
    <3>1. receipt \in {"none", "success", "reverted"} /\ ops' = [ops EXCEPT ![tx.op].receipt = receipt]
      BY <2>1 DEF Mine
    <3> HIDE DEF receipt
    <3>2. PICK op \in Ops : op = [ops[tx.op] EXCEPT !.receipt = receipt]
      <4>1. ops[tx.op] \in Ops
        BY <1>1, <1>2 DEF OpTypes
      <4>2. [ops[tx.op] EXCEPT !.receipt = receipt] \in Ops
        BY <3>1, <4>1 DEF Ops
      <4>3. QED BY <4>2
    <3>3. ops' = [ops EXCEPT ![tx.op] = op] /\ ops[tx.op] \in Ops
      BY <1>1, <1>2, <3>1, <3>2 DEF OpTypes
    <3>4. op.step = "wait" /\ op.wallet \in Wallets
      BY <1>2, <2>1, <3>2, <3>3 DEF Ops
    <3>5. QED BY <1>2, <2>1, <3>3, <3>4, ChangedOutsideTheLine
  <2>2. CASE ~waits
    <3>1. ops' = ops
      BY <2>2 DEF Mine
    <3>2. LineInv'
      BY <1>1, <1>2, <3>1, LineKept DEF InLine, InLineNext
    <3>3. QED BY <1>1, <1>2, <3>1, <3>2 DEF OpTypes
  <2>3. QED BY <2>1, <2>2
<1>6. /\ NonceInv' /\ IsFiniteSet(mempool') /\ mempool' \subseteq Txs
      /\ mined' \in [Wallets -> Nat]
  BY <1>1, <1>2, <1>5, NonceMined
<1>7. ChainTypes'
  BY <1>3, <1>6 DEF ChainTypes
<1>8. QED BY <1>4, <1>5, <1>6, <1>7 DEF QueueInv

LEMMA ShipperActsFacts ==
  ASSUME ChainTypes, ShipperActs
  PROVE  /\ open' \in BOOLEAN /\ proposals' \in Seq(Proposals)
         /\ UNCHANGED <<registered, mined, mempool, account, dialog, page, ops, queue, left>>
         /\ DOMAIN proposals' = DOMAIN proposals
         /\ \A p \in DOMAIN proposals : /\ proposals'[p].carrier = proposals[p].carrier
                                        /\ proposals'[p] = proposals[p] \/ proposals'[p].status \in {"Rejected", "Accepted"}
<1>1. open \in BOOLEAN /\ proposals \in Seq(Proposals)
  BY DEF ChainTypes
<1>2. UNCHANGED <<registered, mined, mempool, account, dialog, page, ops, queue, left>>
  BY DEF ShipperActs
<1>3. CASE UNCHANGED proposals /\ open' = FALSE
  BY <1>1, <1>2, <1>3
<1>4. ASSUME NEW p \in DOMAIN proposals, NEW status \in {"Rejected", "Accepted"}, open' \in BOOLEAN,
             proposals' = [proposals EXCEPT ![p].status = status]
      PROVE  /\ open' \in BOOLEAN /\ proposals' \in Seq(Proposals)
             /\ DOMAIN proposals' = DOMAIN proposals
             /\ \A q \in DOMAIN proposals : /\ proposals'[q].carrier = proposals[q].carrier
                                            /\ proposals'[q] = proposals[q] \/ proposals'[q].status \in {"Rejected", "Accepted"}
  <2> DEFINE after == [proposals[p] EXCEPT !.status = status]
  <2>1. after \in Proposals /\ after.status = status /\ after.carrier = proposals[p].carrier
    <3>1. proposals[p] \in Proposals
      BY <1>1
    <3>2. QED BY <3>1 DEF Proposals
  <2>2. proposals' = [proposals EXCEPT ![p] = after]
    BY <1>4
  <2> HIDE DEF after
  <2>3. QED BY <1>1, <1>4, <2>1, <2>2
<1>5. \/ UNCHANGED proposals /\ open' = FALSE
      \/ \E p \in DOMAIN proposals, status \in {"Rejected", "Accepted"} :
           open' \in BOOLEAN /\ proposals' = [proposals EXCEPT ![p].status = status]
  BY <1>1 DEF ShipperActs
<1>6. QED BY <1>2, <1>3, <1>4, <1>5

LEMMA ShipperActsKeepsQueue ==
  ASSUME QueueInv, ShipperActs
  PROVE  QueueInv'
<1>1. ChainTypes /\ PageTypes /\ OpTypes /\ LineInv /\ NonceInv
  BY DEF QueueInv
<1>2. /\ open' \in BOOLEAN /\ proposals' \in Seq(Proposals)
      /\ UNCHANGED <<registered, mined, mempool, account, page, ops, queue>>
      /\ DOMAIN proposals' = DOMAIN proposals
  BY <1>1, ShipperActsFacts
<1>3. ChainTypes' /\ PageTypes' /\ OpTypes'
  BY <1>1, <1>2 DEF ChainTypes, PageTypes, OpTypes
<1>4. LineInv'
  BY <1>1, <1>2 DEF LineInv, InLine
<1>5. NonceInv'
  BY <1>1, <1>2 DEF NonceInv, OneNonceEach, PendingCount
<1>6. QED BY <1>3, <1>4, <1>5 DEF QueueInv

(* Everything but the page and the dialog is left alone.                    *)
LEMMA PageMoves ==
  ASSUME QueueInv, PageTypes', UNCHANGED <<chainVars, ops, queue>>
  PROVE  QueueInv'
<1>1. ChainTypes' /\ OpTypes'
  BY DEF QueueInv, ChainTypes, OpTypes, chainVars, marketVars
<1>2. LineInv'
  BY DEF QueueInv, LineInv, InLine
<1>3. NonceInv'
  BY DEF QueueInv, NonceInv, OneNonceEach, PendingCount, chainVars, marketVars
<1>4. QED BY <1>1, <1>2, <1>3 DEF QueueInv

-----------------------------------------------------------------------------
(* What the page reads.                                                     *)

(* The page goes on with what it was asked for and what it reports.         *)
Carries ==
  /\ page'.intent = page.intent /\ page'.completed = page.completed
  /\ page'.revoked = page.revoked /\ page'.error = page.error /\ page'.quiet = page.quiet
  /\ page'.answered = page.answered

LEMMA LoadRequestFacts ==
  ASSUME PageTypes, LoadRequest
  PROVE  /\ UNCHANGED <<chainVars, account, dialog, ops, queue, left>> /\ PageTypes'
         /\ page.load = "request" /\ Carries
         /\ \/ page'.load \in {"proposals", "left"} /\ page'.own = page.own
            \/ page'.load = "none" /\ page'.own = 0
<1>1. /\ page \in Pages /\ page.load = "request" /\ page.source \in {0} \cup DOMAIN proposals
      /\ UNCHANGED <<chainVars, account, dialog, ops, queue, left>>
  BY DEF PageTypes, LoadRequest
<1>2. CASE page' = [page EXCEPT !.status = "Open", !.load = "proposals"]
  <2>1. page' \in Pages /\ page'.source = page.source /\ page'.load = "proposals" /\ page'.own = page.own
        /\ Carries
    BY <1>1, <1>2 DEF Pages, Carries
  <2>2. QED BY <1>1, <2>1 DEF PageTypes, chainVars, marketVars
<1>3. CASE page' = [page EXCEPT !.status = "Closed", !.load = "left"]
  <2>1. page' \in Pages /\ page'.source = page.source /\ page'.load = "left" /\ page'.own = page.own
        /\ Carries
    BY <1>1, <1>3 DEF Pages, Carries
  <2>2. QED BY <1>1, <2>1 DEF PageTypes, chainVars, marketVars
<1>4. CASE page' = [page EXCEPT !.status = "unknown", !.own = 0, !.load = "none"]
  <2>1. page' \in Pages /\ page'.source = page.source /\ page'.load = "none" /\ page'.own = 0
        /\ Carries
    BY <1>1, <1>4 DEF Pages, Carries
  <2>2. QED BY <1>1, <2>1 DEF PageTypes, chainVars, marketVars
<1>5. QED BY <1>2, <1>3, <1>4 DEF LoadRequest

LEMMA LoadProposalsFacts ==
  ASSUME ChainTypes, PageTypes, LoadProposals
  PROVE  /\ UNCHANGED <<chainVars, account, dialog, ops, queue, left>> /\ PageTypes'
         /\ page.load = "proposals"
         /\ page'.intent = page.intent /\ page'.completed = page.completed
         /\ page'.error = page.error /\ page'.quiet = page.quiet /\ page'.answered = page.answered
         /\ \/ page'.load = "none" /\ page'.own = 0 /\ (page'.revoked = page.revoked \/ ~page'.revoked)
            \/ /\ page'.load = "plan" /\ page'.own = page.own /\ page'.revoked = page.revoked
               /\ page'.found = ActiveOf(account) /\ ActiveOf(account) # 0
<1>1. /\ page \in Pages /\ page.load = "proposals" /\ page.source \in {0} \cup DOMAIN proposals
      /\ UNCHANGED <<chainVars, account, dialog, ops, queue, left>> /\ account \in Wallets
  BY DEF PageTypes, LoadProposals
<1>2. CASE page' = [page EXCEPT !.own = 0, !.revoked = FALSE, !.load = "none"]
  <2>1. /\ page' \in Pages /\ page'.source = page.source /\ page'.load = "none" /\ page'.own = 0
        /\ page'.intent = page.intent /\ page'.completed = page.completed
        /\ page'.error = page.error /\ page'.quiet = page.quiet /\ ~page'.revoked
        /\ page'.answered = page.answered
    BY <1>1, <1>2 DEF Pages
  <2>2. QED BY <1>1, <2>1 DEF PageTypes, chainVars, marketVars
<1>3. CASE ActiveOf(account) # 0 /\ page' = [page EXCEPT !.found = ActiveOf(account), !.load = "plan"]
  <2>1. ActiveOf(account) \in DOMAIN proposals /\ DOMAIN proposals \subseteq Nat
    BY <1>1, <1>3, ActiveFacts DEF ChainTypes
  <2>2. PICK p \in Nat : p = ActiveOf(account)
    BY <2>1
  <2>3. /\ page' \in Pages /\ page'.source = page.source /\ page'.load = "plan" /\ page'.own = page.own
        /\ page'.found = p
        /\ page'.intent = page.intent /\ page'.completed = page.completed
        /\ page'.error = page.error /\ page'.quiet = page.quiet /\ page'.revoked = page.revoked
        /\ page'.answered = page.answered
    BY <1>1, <1>3, <2>2 DEF Pages
  <2>4. QED BY <1>1, <1>3, <2>1, <2>2, <2>3 DEF PageTypes, chainVars, marketVars
<1>4. CASE page' = [page EXCEPT !.own = 0, !.load = "none"]
  <2>1. /\ page' \in Pages /\ page'.source = page.source /\ page'.load = "none" /\ page'.own = 0
        /\ Carries
    BY <1>1, <1>4 DEF Pages, Carries
  <2>2. QED BY <1>1, <2>1 DEF PageTypes, Carries, chainVars, marketVars
<1>5. QED BY <1>2, <1>3, <1>4 DEF LoadProposals

LEMMA LoadPlanFacts ==
  ASSUME ChainTypes, PageTypes, LoadPlan
  PROVE  /\ UNCHANGED <<chainVars, account, dialog, ops, queue, left>> /\ PageTypes'
         /\ page.load = "plan" /\ page.found \in DOMAIN proposals
         /\ page'.load = "none" /\ page'.own \in {0, page.found} /\ Carries
<1>1. /\ page \in Pages /\ page.load = "plan" /\ page.source \in {0} \cup DOMAIN proposals
      /\ UNCHANGED <<chainVars, account, dialog, ops, queue, left>> /\ account \in Wallets
      /\ page.found \in DOMAIN proposals
  BY DEF PageTypes, LoadPlan
<1>2. CASE page' = [page EXCEPT !.own = page.found, !.draft = proposals[page.found].plan, !.load = "none"]
  <2>1. proposals[page.found] \in Proposals
    BY <1>1 DEF ChainTypes
  <2>2. PICK plan \in Plans : plan = proposals[page.found].plan
    BY <2>1 DEF Proposals
  <2>3. PICK found \in Nat : found = page.found
    BY <1>1 DEF Pages
  <2>4. page' \in Pages /\ page'.source = page.source /\ page'.load = "none" /\ page'.own = found /\ Carries
    BY <1>1, <1>2, <2>2, <2>3 DEF Pages, Carries
  <2>5. QED BY <1>1, <2>3, <2>4 DEF PageTypes, chainVars, marketVars
<1>3. CASE page' = [page EXCEPT !.own = 0, !.load = "none"]
  <2>1. page' \in Pages /\ page'.source = page.source /\ page'.load = "none" /\ page'.own = 0 /\ Carries
    BY <1>1, <1>3 DEF Pages, Carries
  <2>2. QED BY <1>1, <2>1 DEF PageTypes, chainVars, marketVars
<1>4. QED BY <1>2, <1>3 DEF LoadPlan

(* What only a page's draft and toast are about.                            *)
LEMMA DraftFacts ==
  ASSUME ChainTypes, PageTypes, CopyRejected \/ (\E plan \in Plans : EditPlan(plan))
  PROVE  /\ UNCHANGED <<chainVars, account, dialog, ops, queue, left>> /\ PageTypes' /\ Carries
         /\ page'.load = page.load /\ page'.own = page.own /\ page'.found = page.found
<1>1. page \in Pages /\ PageTypes
  BY DEF PageTypes
<1>2. UNCHANGED <<chainVars, account, dialog, ops, queue, left>>
  BY DEF CopyRejected, EditPlan
<1>3. CASE CopyRejected
  <2>1. page.source \in DOMAIN proposals
    BY <1>3 DEF CopyRejected, PageTypes
  <2>2. proposals[page.source] \in Proposals
    BY <2>1 DEF ChainTypes
  <2>3. PICK plan \in Plans : plan = proposals[page.source].plan
    BY <2>2 DEF Proposals
  <2>4. page' = [page EXCEPT !.draft = plan, !.copied = TRUE]
    BY <1>3, <2>3 DEF CopyRejected
  <2>5. /\ page' \in Pages /\ page'.source = page.source /\ page'.load = page.load
        /\ page'.own = page.own /\ page'.found = page.found /\ Carries
    BY <1>1, <2>4 DEF Pages, Carries
  <2>6. QED BY <1>1, <1>2, <2>5 DEF PageTypes, chainVars, marketVars
<1>4. CASE \E plan \in Plans : EditPlan(plan)
  <2>1. PICK plan \in Plans : page' = [page EXCEPT !.draft = plan]
    BY <1>4 DEF EditPlan
  <2>2. /\ page' \in Pages /\ page'.source = page.source /\ page'.load = page.load
        /\ page'.own = page.own /\ page'.found = page.found /\ Carries
    BY <1>1, <2>1 DEF Pages, Carries
  <2>3. QED BY <1>1, <1>2, <2>2 DEF PageTypes, chainVars, marketVars
<1>5. QED BY <1>3, <1>4

LEMMA ReadsKeepQueue ==
  ASSUME QueueInv,
         LoadRequest \/ LoadProposals \/ LoadPlan \/ CopyRejected \/ (\E plan \in Plans : EditPlan(plan))
  PROVE  QueueInv'
<1>1. ChainTypes /\ PageTypes
  BY DEF QueueInv
<1>2. UNCHANGED <<chainVars, ops, queue>> /\ PageTypes'
  BY <1>1, LoadRequestFacts, LoadProposalsFacts, LoadPlanFacts, DraftFacts
<1>3. QED BY <1>2, PageMoves

-----------------------------------------------------------------------------
(* The user opens a page, changes the account and starts a handler.         *)

(* Handlers lose no more than their page.                                   *)
LEMMA DetachedQueue ==
  ASSUME QueueInv, UNCHANGED <<chainVars, queue>>, PageTypes', ops' \in [OpIds -> Ops],
         \A o \in OpIds : /\ ops'[o].step = ops[o].step /\ ops'[o].wallet = ops[o].wallet
                          /\ ops'[o].nonce = ops[o].nonce
  PROVE  QueueInv'
<1>1. ChainTypes /\ OpTypes /\ LineInv /\ NonceInv
  BY DEF QueueInv
<1>2. ChainTypes' /\ UNCHANGED <<mined, mempool, queue>>
  BY <1>1 DEF ChainTypes, chainVars, marketVars
<1>3. OpTypes'
  BY <1>1 DEF OpTypes
<1>4. LineInv'
  BY <1>1, LineKept DEF InLine, InLineNext
<1>5. NonceInv'
  BY <1>1, <1>2, NoncesKept
<1>6. QED BY <1>2, <1>3, <1>4, <1>5 DEF QueueInv

LEMMA Detach ==
  ASSUME NEW op \in Ops, NEW after, after = [op EXCEPT !.attached = FALSE]
  PROVE  /\ after \in Ops /\ ~after.attached
         /\ after.kind = op.kind /\ after.step = op.step /\ after.call = op.call
         /\ after.wallet = op.wallet /\ after.replacing = op.replacing
         /\ after.confirmed = op.confirmed /\ after.nonce = op.nonce /\ after.receipt = op.receipt
BY DEF Ops

LEMMA OpenPageFacts ==
  ASSUME ChainTypes, PageTypes, OpTypes, NEW intent \in {"propose", "edit", "resubmit"},
         OpenPage(intent)
  PROVE  /\ UNCHANGED <<chainVars, account, dialog, queue>> /\ PageTypes' /\ page' = Opened(intent)
         /\ ops' \in [OpIds -> Ops]
         /\ \A o \in OpIds :
              /\ ops'[o].kind = ops[o].kind /\ ops'[o].step = ops[o].step /\ ops'[o].call = ops[o].call
              /\ ops'[o].wallet = ops[o].wallet /\ ops'[o].replacing = ops[o].replacing
              /\ ops'[o].confirmed = ops[o].confirmed
              /\ ops'[o].nonce = ops[o].nonce /\ ops'[o].receipt = ops[o].receipt
<1>1. /\ page' = Opened(intent) /\ UNCHANGED <<chainVars, account, dialog, queue>>
      /\ ops' = [o \in OpIds |-> IF ops[o].kind = "register" THEN ops[o]
                                 ELSE [ops[o] EXCEPT !.attached = FALSE]]
  BY DEF OpenPage
<1>2. PageTypes'
  <2>1. Opened(intent) \in Pages /\ Opened(intent).source \in {0} \cup DOMAIN proposals
        /\ Opened(intent).load = "request"
    BY OpenedType DEF PageTypes
  <2>2. QED BY <1>1, <2>1 DEF PageTypes, chainVars, marketVars
<1>3. ASSUME NEW o \in OpIds
      PROVE  /\ ops'[o] \in Ops
             /\ ops'[o].kind = ops[o].kind /\ ops'[o].step = ops[o].step /\ ops'[o].call = ops[o].call
             /\ ops'[o].wallet = ops[o].wallet /\ ops'[o].replacing = ops[o].replacing
             /\ ops'[o].confirmed = ops[o].confirmed
             /\ ops'[o].nonce = ops[o].nonce /\ ops'[o].receipt = ops[o].receipt
  <2>1. ops[o] \in Ops
    BY DEF OpTypes
  <2>2. PICK op \in Ops : op = ops[o]
    BY <2>1
  <2>3. ops'[o] = op \/ ops'[o] = [op EXCEPT !.attached = FALSE]
    BY <1>1, <2>2
  <2>4. QED BY <2>2, <2>3, Detach
<1>4. ops' \in [OpIds -> Ops]
  BY <1>1, <1>3
<1>5. QED BY <1>1, <1>2, <1>3, <1>4

LEMMA AccountChangesFacts ==
  ASSUME ChainTypes, PageTypes, OpTypes, NEW w \in Wallets, AccountChanges(w)
  PROVE  /\ UNCHANGED <<chainVars, queue>> /\ PageTypes' /\ ~page'.quiet
         /\ ops' \in [OpIds -> Ops]
         /\ \A o \in OpIds :
              /\ ops'[o].kind = ops[o].kind /\ ops'[o].step = ops[o].step /\ ops'[o].call = ops[o].call
              /\ ops'[o].wallet = ops[o].wallet /\ ops'[o].replacing = ops[o].replacing
              /\ ops'[o].confirmed = ops[o].confirmed
              /\ ops'[o].nonce = ops[o].nonce /\ ops'[o].receipt = ops[o].receipt
<1> DEFINE load == IF page.status = "Open" /\ page.load # "request" THEN "proposals" ELSE page.load
<1>1. /\ account' = w /\ UNCHANGED <<chainVars, queue>>
      /\ page' = [page EXCEPT !.quiet = FALSE, !.load = load]
      /\ ops' = [o \in OpIds |-> IF ops[o].kind = "register" THEN [ops[o] EXCEPT !.attached = FALSE]
                                 ELSE ops[o]]
  BY DEF AccountChanges
<1>2. page \in Pages /\ load \in {"request", "proposals", "plan", "none", "left"}
      /\ (load = "plan" => page.load = "plan")
  BY DEF PageTypes, Pages
<1> HIDE DEF load
<1>3. page' \in Pages /\ page'.load = load /\ page'.found = page.found /\ page'.source = page.source
      /\ ~page'.quiet
  BY <1>1, <1>2 DEF Pages
<1>4. PageTypes'
  BY <1>1, <1>2, <1>3 DEF PageTypes, chainVars, marketVars
<1>5. ASSUME NEW o \in OpIds
      PROVE  /\ ops'[o] \in Ops
             /\ ops'[o].kind = ops[o].kind /\ ops'[o].step = ops[o].step /\ ops'[o].call = ops[o].call
             /\ ops'[o].wallet = ops[o].wallet /\ ops'[o].replacing = ops[o].replacing
             /\ ops'[o].confirmed = ops[o].confirmed
             /\ ops'[o].nonce = ops[o].nonce /\ ops'[o].receipt = ops[o].receipt
  <2>1. ops[o] \in Ops
    BY DEF OpTypes
  <2>2. PICK op \in Ops : op = ops[o]
    BY <2>1
  <2>3. ops'[o] = op \/ ops'[o] = [op EXCEPT !.attached = FALSE]
    BY <1>1, <2>2
  <2>4. QED BY <2>2, <2>3, Detach
<1>6. ops' \in [OpIds -> Ops]
  BY <1>1, <1>5
<1>7. QED BY <1>1, <1>3, <1>4, <1>5, <1>6

LEMMA TurnsKeepQueue ==
  ASSUME QueueInv,
         \/ \E intent \in {"propose", "edit", "resubmit"} : OpenPage(intent)
         \/ \E w \in Wallets : AccountChanges(w)
  PROVE  QueueInv'
<1>1. ChainTypes /\ PageTypes /\ OpTypes
  BY DEF QueueInv
<1>2. /\ UNCHANGED <<chainVars, queue>> /\ PageTypes' /\ ops' \in [OpIds -> Ops]
      /\ \A o \in OpIds : /\ ops'[o].step = ops[o].step /\ ops'[o].wallet = ops[o].wallet
                          /\ ops'[o].nonce = ops[o].nonce
  BY <1>1, OpenPageFacts, AccountChangesFacts
<1>3. QED BY <1>2, DetachedQueue

LEMMA SubmitFacts ==
  ASSUME ChainTypes, PageTypes, OpTypes, Submit
  PROVE  /\ UNCHANGED <<chainVars, account, dialog, queue>> /\ PageTypes' /\ Carries
         /\ page'.load = page.load /\ page'.own = page.own /\ page'.found = page.found
         /\ FreeOp \in OpIds /\ ops[FreeOp].step = "idle"
         /\ ops' = [ops EXCEPT ![FreeOp] = SubmitOp] /\ CanSubmit
<1>1. page \in Pages /\ page' = [page EXCEPT !.toast = "none"]
  BY DEF Submit, PageTypes
<1>2. /\ page' \in Pages /\ page'.source = page.source /\ page'.load = page.load
      /\ page'.own = page.own /\ page'.found = page.found /\ Carries
  BY <1>1 DEF Pages, Carries
<1>3. UNCHANGED <<chainVars, account, dialog, queue>> /\ CanSubmit /\ HasFreeOp
      /\ ops' = [ops EXCEPT ![FreeOp] = SubmitOp]
  BY DEF Submit, Start, SubmitOp
<1>4. PageTypes'
  BY <1>2, <1>3 DEF PageTypes, chainVars, marketVars
<1>5. QED BY <1>2, <1>3, <1>4, FreeOpFacts

LEMMA RevokeProposalFacts ==
  ASSUME RevokeProposal
  PROVE  /\ UNCHANGED <<chainVars, account, dialog, page, queue>>
         /\ FreeOp \in OpIds /\ ops[FreeOp].step = "idle"
         /\ ops' = [ops EXCEPT ![FreeOp] = RevokeOp]
         /\ PresentationMode = "submitted" /\ page.own # 0
<1>1. HasFreeOp /\ ops' = [ops EXCEPT ![FreeOp] = RevokeOp]
      /\ UNCHANGED <<chainVars, account, dialog, page, queue>>
      /\ PresentationMode = "submitted" /\ page.own # 0
  BY DEF RevokeProposal, Start, RevokeOp
<1>2. QED BY <1>1, FreeOpFacts

LEMMA RegisterFacts ==
  ASSUME Register
  PROVE  /\ UNCHANGED <<chainVars, account, dialog, page>>
         /\ FreeOp \in OpIds /\ ops[FreeOp].step = "idle"
         /\ ops' = [ops EXCEPT ![FreeOp] = RegisterOp]
         /\ queue' = [queue EXCEPT ![account] = Append(queue[account], FreeOp)]
<1>1. /\ HasFreeOp /\ ops' = [ops EXCEPT ![FreeOp] = RegisterOp]
      /\ UNCHANGED <<chainVars, account, dialog, page>>
      /\ queue' = [queue EXCEPT ![account] = Append(queue[account], FreeOp)]
  BY DEF Register, Start, RegisterOp
<1>2. QED BY <1>1, FreeOpFacts

LEMMA ClicksKeepQueue ==
  ASSUME QueueInv, Submit \/ RevokeProposal \/ Register \/ CloseDialog
  PROVE  QueueInv'
<1>1. ChainTypes /\ PageTypes /\ OpTypes /\ LineInv /\ NonceInv
  BY DEF QueueInv
<1>2. account \in Wallets
  BY <1>1 DEF PageTypes
<1>3. CASE Submit \/ RevokeProposal
  <2>1. /\ UNCHANGED <<chainVars, queue>> /\ PageTypes'
        /\ FreeOp \in OpIds /\ ops[FreeOp].step = "idle"
    <3>1. CASE Submit
      BY <1>1, <3>1, SubmitFacts
    <3>2. CASE RevokeProposal
      BY <1>1, <3>2, RevokeProposalFacts DEF PageTypes, chainVars, marketVars
    <3>3. QED BY <1>3, <3>1, <3>2
  <2>2. PICK op \in Ops : /\ ops' = [ops EXCEPT ![FreeOp] = op]
                          /\ op.step = "check" /\ op.wallet = account
    BY <1>1, <1>3, SubmitFacts, RevokeProposalFacts, StartedOps
  <2>3. PICK o \in OpIds : o = FreeOp
    BY <2>1
  <2>4. /\ OpTypes' /\ LineInv'
        /\ \A p \in OpIds : ops'[p].step = "sign" =>
             /\ ops[p].step = "sign" /\ ops'[p].nonce = ops[p].nonce
             /\ ops'[p].wallet = ops[p].wallet /\ ops[p].wallet \in Wallets
    BY <1>2, <2>1, <2>2, <2>3, ChangedOutsideTheLine
  <2>5. UNCHANGED <<mined, mempool>> /\ ChainTypes'
    BY <1>1, <2>1 DEF ChainTypes, chainVars, marketVars
  <2>6. NonceInv'
    BY <1>1, <2>4, <2>5, NoncesKept
  <2>7. QED BY <2>1, <2>4, <2>5, <2>6 DEF QueueInv
<1>4. CASE Register
  <2>1. /\ UNCHANGED <<chainVars, account, page>>
        /\ FreeOp \in OpIds /\ ops[FreeOp].step = "idle"
        /\ ops' = [ops EXCEPT ![FreeOp] = RegisterOp]
        /\ queue' = [queue EXCEPT ![account] = Append(queue[account], FreeOp)]
    BY <1>4, RegisterFacts
  <2>2. PICK o \in OpIds : o = FreeOp
    BY <2>1
  <2>3. PICK op \in Ops : op = RegisterOp /\ op.step = "queue" /\ op.wallet = account
    BY <1>1, StartedOps
  <2>4. /\ ops'[o] = op /\ \A p \in OpIds : p # o => ops'[p] = ops[p]
        /\ ops' \in [OpIds -> Ops]
        /\ \A p \in OpIds : ops'[p].step # "idle" => ops'[p].wallet \in Wallets
    BY <1>1, <1>2, <2>1, <2>2, <2>3, OpSet
  <2>5. ~InLine(o)
    BY <2>1, <2>2 DEF InLine
  <2>6. LineInv' /\ queue' \in [Wallets -> Seq(OpIds)]
    <3>1. PICK w \in Wallets : w = account
      BY <1>2
    <3>2. QED BY <1>1, <2>1, <2>2, <2>3, <2>4, <2>5, <3>1, LineJoins
  <2>7. OpTypes'
    BY <2>4, <2>6 DEF OpTypes
  <2>8. ChainTypes' /\ PageTypes' /\ UNCHANGED <<mined, mempool>>
    BY <1>1, <2>1 DEF ChainTypes, PageTypes, chainVars, marketVars
  <2>9. NonceInv'
    <3>1. \A p \in OpIds : ops'[p].step = "sign" =>
            ops[p].step = "sign" /\ ops'[p].nonce = ops[p].nonce /\ ops'[p].wallet = ops[p].wallet
      BY <2>3, <2>4
    <3>2. QED BY <1>1, <2>8, <3>1, NoncesKept
  <2>10. QED BY <2>6, <2>7, <2>8, <2>9 DEF QueueInv
<1>5. CASE CloseDialog
  <2>1. UNCHANGED <<chainVars, account, page, ops, queue>>
    BY <1>5 DEF CloseDialog
  <2>2. PageTypes'
    BY <1>1, <2>1 DEF PageTypes, chainVars, marketVars
  <2>3. QED BY <2>1, <2>2, PageMoves
<1>6. QED BY <1>3, <1>4, <1>5

-----------------------------------------------------------------------------
(* The handlers.                                                            *)

LEMMA Enqueued ==
  ASSUME QueueInv, NEW o \in OpIds, NEW op \in Ops, op.wallet \in Wallets, ~InLine(o),
         Enqueue(o, op), UNCHANGED <<mined, mempool>>
  PROVE  /\ OpTypes' /\ LineInv' /\ NonceInv'
         /\ \A p \in OpIds : p # o => ops'[p] = ops[p]
         /\ ops'[o].step = "queue" /\ ops'[o].receipt = "none"
         /\ ops'[o].kind = op.kind /\ ops'[o].call = op.call /\ ops'[o].wallet = op.wallet
         /\ ops'[o].replacing = op.replacing /\ ops'[o].confirmed = op.confirmed
         /\ ops'[o].attached = op.attached
<1>1. OpTypes /\ LineInv /\ NonceInv
  BY DEF QueueInv
<1>2. PICK after \in Ops :
        /\ after = [op EXCEPT !.step = "queue", !.receipt = "none"]
        /\ after.step = "queue" /\ after.receipt = "none"
        /\ after.kind = op.kind /\ after.call = op.call /\ after.wallet = op.wallet
        /\ after.replacing = op.replacing /\ after.confirmed = op.confirmed
        /\ after.attached = op.attached
  <2>1. [op EXCEPT !.step = "queue", !.receipt = "none"] \in Ops
    BY DEF Ops, Steps
  <2>2. QED BY <2>1 DEF Ops
<1>3. ops' = [ops EXCEPT ![o] = after] /\ queue' = [queue EXCEPT ![op.wallet] = Append(queue[op.wallet], o)]
  BY <1>2 DEF Enqueue
<1>4. /\ ops'[o] = after /\ \A p \in OpIds : p # o => ops'[p] = ops[p]
      /\ ops' \in [OpIds -> Ops]
      /\ \A p \in OpIds : ops'[p].step # "idle" => ops'[p].wallet \in Wallets
  BY <1>1, <1>2, <1>3, OpSet
<1>5. LineInv' /\ queue' \in [Wallets -> Seq(OpIds)]
  BY <1>1, <1>2, <1>3, <1>4, LineJoins
<1>6. OpTypes'
  BY <1>4, <1>5 DEF OpTypes
<1>7. NonceInv'
  <2>1. \A p \in OpIds : ops'[p].step = "sign" =>
          ops[p].step = "sign" /\ ops'[p].nonce = ops[p].nonce /\ ops'[p].wallet = ops[p].wallet
    BY <1>2, <1>4
  <2>2. QED BY <1>1, <2>1, NoncesKept
<1>8. QED BY <1>2, <1>4, <1>5, <1>6, <1>7

(* The check ends the handler or puts it in line.                           *)
LEMMA CheckFacts ==
  ASSUME QueueInv, NEW o \in OpIds, Check(o)
  PROVE  /\ UNCHANGED <<chainVars, account, left>> /\ ops[o].step = "check"
         /\ PageTypes' /\ OpTypes' /\ LineInv' /\ NonceInv'
         /\ \A p \in OpIds : p # o => ops'[p] = ops[p]
         /\ \/ ops'[o].step = "idle" /\ ops[o].kind = "submit" /\ Failed(o)
            \/ ops'[o].step = "idle" /\ UNCHANGED page
            \/ /\ UNCHANGED page /\ ops'[o].step = "queue" /\ ops'[o].receipt = "none"
               /\ ops'[o].call = FirstCall(ops[o])
               /\ ops'[o].kind = ops[o].kind /\ ops'[o].wallet = ops[o].wallet
               /\ ops'[o].replacing = ops[o].replacing /\ ops'[o].confirmed = ops[o].confirmed
               /\ ops'[o].attached = ops[o].attached
<1>1. ChainTypes /\ PageTypes /\ OpTypes /\ LineInv /\ NonceInv
  BY DEF QueueInv
<1>2. UNCHANGED <<chainVars, account, left>> /\ ops[o].step = "check" /\ ~InLine(o)
      /\ UNCHANGED <<mined, mempool, proposals>>
  BY DEF Check, InLine, chainVars, marketVars
<1>3. CASE End(o) /\ UNCHANGED queue /\ (UNCHANGED page \/ (ops[o].kind = "submit" /\ Failed(o)))
  <2>1. OpTypes' /\ LineInv' /\ NonceInv'
    BY <1>2, <1>3, EndedOutsideTheLine
  <2>2. ops'[o].step = "idle" /\ \A p \in OpIds : p # o => ops'[p] = ops[p]
    BY <1>1, <1>3, Ended
  <2>3. PageTypes'
    BY <1>1, <1>2, <1>3, FailedPage, PageTypesKept
  <2>4. QED BY <1>2, <1>3, <2>1, <2>2, <2>3
<1>4. CASE UNCHANGED page /\ Enqueue(o, [ops[o] EXCEPT !.call = FirstCall(ops[o])])
  <2>1. FirstCall(ops[o]) \in Calls
    BY DEF FirstCall, Calls
  <2>2. ops[o] \in Ops /\ ops[o].wallet \in Wallets
    BY <1>1, <1>2 DEF OpTypes
  <2>3. PICK call \in Calls : call = FirstCall(ops[o])
    BY <2>1
  <2>4. PICK op \in Ops : op = [ops[o] EXCEPT !.call = call]
    <3>1. [ops[o] EXCEPT !.call = call] \in Ops
      BY <2>2 DEF Ops
    <3>2. QED BY <3>1
  <2>5. /\ op.call = call /\ op.kind = ops[o].kind /\ op.wallet = ops[o].wallet
        /\ op.replacing = ops[o].replacing /\ op.confirmed = ops[o].confirmed
        /\ op.attached = ops[o].attached
    BY <2>2, <2>4 DEF Ops
  <2>6. Enqueue(o, op)
    BY <1>4, <2>3, <2>4
  <2>7. /\ OpTypes' /\ LineInv' /\ NonceInv'
        /\ \A p \in OpIds : p # o => ops'[p] = ops[p]
        /\ ops'[o].step = "queue" /\ ops'[o].receipt = "none"
        /\ ops'[o].kind = op.kind /\ ops'[o].call = op.call /\ ops'[o].wallet = op.wallet
        /\ ops'[o].replacing = op.replacing /\ ops'[o].confirmed = op.confirmed
        /\ ops'[o].attached = op.attached
    BY <1>2, <2>2, <2>5, <2>6, Enqueued
  <2>8. PageTypes'
    BY <1>1, <1>2, <1>4, PageTypesKept
  <2>9. QED BY <1>2, <1>4, <2>3, <2>5, <2>7, <2>8
<1>5. QED BY <1>3, <1>4 DEF Check, Fail

LEMMA PrepareFacts ==
  ASSUME QueueInv, NEW o \in OpIds, Prepare(o)
  PROVE  /\ UNCHANGED <<chainVars, account, left>> /\ ops[o].step = "queue"
         /\ PageTypes' /\ OpTypes' /\ LineInv' /\ NonceInv'
         /\ \A p \in OpIds : p # o => ops'[p] = ops[p]
         /\ \/ ops'[o].step = "idle" /\ Failed(o) /\ ~Accepts(ops[o].call, ops[o].wallet)
            \/ /\ UNCHANGED page /\ ops'[o].step = "sign"
               /\ ops'[o].kind = ops[o].kind /\ ops'[o].wallet = ops[o].wallet
               /\ ops'[o].call = ops[o].call /\ ops'[o].receipt = ops[o].receipt
               /\ ops'[o].replacing = ops[o].replacing /\ ops'[o].confirmed = ops[o].confirmed
               /\ ops'[o].attached = ops[o].attached
<1>1. ChainTypes /\ PageTypes /\ OpTypes /\ LineInv /\ NonceInv
  BY DEF QueueInv
<1>2. UNCHANGED <<chainVars, account, left>> /\ ops[o].step = "queue" /\ NextInLine(o)
      /\ UNCHANGED <<mined, mempool, proposals>>
  BY DEF Prepare, chainVars, marketVars
<1>3. CASE ~Accepts(ops[o].call, ops[o].wallet) /\ LeaveQueue(o) /\ Fail(o)
  <2>1. End(o) /\ Failed(o)
    BY <1>3 DEF Fail
  <2>2. OpTypes' /\ LineInv' /\ NonceInv'
    BY <1>2, <1>3, <2>1, EndedInFront
  <2>3. ops'[o].step = "idle" /\ \A p \in OpIds : p # o => ops'[p] = ops[p]
    BY <1>1, <2>1, Ended
  <2>4. PageTypes'
    BY <1>1, <1>2, <2>1, FailedPage
  <2>5. QED BY <1>2, <1>3, <2>1, <2>2, <2>3, <2>4
<1>4. CASE /\ ops' = [ops EXCEPT ![o].step = "sign", ![o].nonce = PendingCount(ops[o].wallet)]
           /\ UNCHANGED <<dialog, page, queue>>
  <2>1. ops[o] \in Ops /\ ops[o].wallet \in Wallets
    BY <1>1, <1>2 DEF OpTypes
  <2>2. PICK n \in Nat : n = PendingCount(ops[o].wallet)
    BY <1>1, <2>1, PendingFacts
  <2>3. PICK op \in Ops : op = [ops[o] EXCEPT !.step = "sign", !.nonce = n]
    <3>1. [ops[o] EXCEPT !.step = "sign", !.nonce = n] \in Ops
      BY <2>1 DEF Ops, Steps
    <3>2. QED BY <3>1
  <2>4. /\ op.step = "sign" /\ op.nonce = n
        /\ op.kind = ops[o].kind /\ op.wallet = ops[o].wallet
        /\ op.call = ops[o].call /\ op.receipt = ops[o].receipt
        /\ op.replacing = ops[o].replacing /\ op.confirmed = ops[o].confirmed
        /\ op.attached = ops[o].attached
    BY <2>1, <2>3 DEF Ops
  <2>5. ops' = [ops EXCEPT ![o] = op]
    <3>1. ops \in [OpIds -> Ops]
      BY <1>1 DEF OpTypes
    <3>2. QED BY <1>4, <2>1, <2>2, <2>3, <3>1 DEF Ops
  <2>6. /\ ops'[o] = op /\ \A p \in OpIds : p # o => ops'[p] = ops[p]
        /\ ops' \in [OpIds -> Ops]
        /\ \A p \in OpIds : ops'[p].step # "idle" => ops'[p].wallet \in Wallets
    BY <1>1, <2>1, <2>4, <2>5, OpSet
  <2>7. OpTypes'
    BY <1>1, <1>4, <2>6 DEF OpTypes
  <2>8. LineInv'
    BY <1>1, <1>2, <1>4, <2>4, <2>6, LineSigns
  <2>9. NonceInv'
    <3>1. \A p \in OpIds : ops'[p].step = "sign" =>
            \/ /\ ops[p].step = "sign" /\ ops'[p].nonce = ops[p].nonce
               /\ ops'[p].wallet = ops[p].wallet
            \/ ops'[p].nonce = PendingCount(ops'[p].wallet)
      BY <2>2, <2>4, <2>6
    <3>2. QED BY <1>1, <1>2, <3>1, NoncesKept
  <2>10. PageTypes'
    BY <1>1, <1>2, <1>4, PageTypesKept
  <2>11. QED BY <1>2, <1>4, <2>4, <2>6, <2>7, <2>8, <2>9, <2>10
<1>5. QED BY <1>3, <1>4 DEF Prepare

LEMMA ConfirmFacts ==
  ASSUME QueueInv, NEW o \in OpIds, Confirm(o)
  PROVE  /\ UNCHANGED <<marketVars, mined, account, dialog, page, left>> /\ ops[o].step = "sign"
         /\ ChainTypes' /\ PageTypes' /\ OpTypes' /\ LineInv' /\ NonceInv'
         /\ \A p \in OpIds : p # o => ops'[p] = ops[p]
         /\ ops'[o].step = "wait" /\ ops'[o].receipt = "none"
         /\ ops'[o].kind = ops[o].kind /\ ops'[o].wallet = ops[o].wallet
         /\ ops'[o].call = ops[o].call /\ ops'[o].nonce = ops[o].nonce
         /\ ops'[o].replacing = ops[o].replacing /\ ops'[o].confirmed = ops[o].confirmed
         /\ ops'[o].attached = ops[o].attached
         /\ \E tx \in Txs : /\ mempool' = mempool \cup {tx} /\ tx.wallet = ops[o].wallet
                            /\ tx.nonce = ops[o].nonce /\ tx.call = ops[o].call /\ tx.op = o
                            /\ tx \notin mempool
<1>1. ChainTypes /\ PageTypes /\ OpTypes /\ LineInv /\ NonceInv
  BY DEF QueueInv
<1>2. UNCHANGED <<marketVars, mined, account, dialog, page, left>> /\ ops[o].step = "sign"
      /\ LeaveQueue(o) /\ ops' = [ops EXCEPT ![o].step = "wait", ![o].receipt = "none"]
  BY DEF Confirm
<1>3. ops[o] \in Ops /\ ops[o].wallet \in Wallets
  BY <1>1, <1>2 DEF OpTypes
<1>4. PICK op \in Ops : op = [ops[o] EXCEPT !.step = "wait", !.receipt = "none"]
  <2>1. [ops[o] EXCEPT !.step = "wait", !.receipt = "none"] \in Ops
    BY <1>3 DEF Ops, Steps
  <2>2. QED BY <2>1
<1>5. /\ op.step = "wait" /\ op.receipt = "none" /\ op.nonce = ops[o].nonce
      /\ op.kind = ops[o].kind /\ op.wallet = ops[o].wallet /\ op.call = ops[o].call
      /\ op.replacing = ops[o].replacing /\ op.confirmed = ops[o].confirmed
      /\ op.attached = ops[o].attached
  BY <1>3, <1>4 DEF Ops
<1>6. ops' = [ops EXCEPT ![o] = op]
  <2>1. ops \in [OpIds -> Ops]
    BY <1>1 DEF OpTypes
  <2>2. QED BY <1>2, <1>3, <1>4, <2>1 DEF Ops
<1>7. /\ ops'[o] = op /\ \A p \in OpIds : p # o => ops'[p] = ops[p]
      /\ ops' \in [OpIds -> Ops]
      /\ \A p \in OpIds : ops'[p].step # "idle" => ops'[p].wallet \in Wallets
  BY <1>1, <1>3, <1>5, <1>6, OpSet
<1>8. /\ LineInv' /\ queue' \in [Wallets -> Seq(OpIds)]
      /\ \A p \in OpIds : p # o /\ ops[p].step = "sign" => ops[p].wallet # ops[o].wallet
  <2>1. ~InLineNext(o)
    BY <1>5, <1>7 DEF InLineNext
  <2>2. QED BY <1>1, <1>2, <1>7, <2>1, LineLeaves
<1>9. OpTypes'
  BY <1>7, <1>8 DEF OpTypes
<1>10. PICK tx \in Txs : /\ mempool' = mempool \cup {tx} /\ tx.wallet = ops[o].wallet
                         /\ tx.nonce = ops[o].nonce /\ tx.call = ops[o].call /\ tx.op = o
  <2> DEFINE tx == [wallet |-> ops[o].wallet, nonce |-> ops[o].nonce, call |-> ops[o].call,
                    plan |-> ops[o].plan, op |-> o]
  <2>1. tx \in Txs
    BY <1>3 DEF Ops, Txs
  <2>2. mempool' = mempool \cup {tx}
    BY DEF Confirm
  <2>3. QED BY <2>1, <2>2
<1>11. tx.nonce = PendingCount(tx.wallet)
  BY <1>1, <1>2, <1>10 DEF NonceInv, OneNonceEach
<1>12. \A p \in OpIds : ops'[p].step = "sign" =>
         /\ ops[p].step = "sign" /\ ops'[p].nonce = ops[p].nonce
         /\ ops'[p].wallet = ops[p].wallet /\ ops[p].wallet # tx.wallet /\ ops[p].wallet \in Wallets
  BY <1>1, <1>5, <1>7, <1>8, <1>10 DEF OpTypes
<1>13. NonceInv' /\ IsFiniteSet(mempool') /\ mempool' \subseteq Txs
  <2>1. PICK w \in Wallets : w = tx.wallet
    BY <1>3, <1>10
  <2>2. QED BY <1>1, <1>2, <1>10, <1>11, <1>12, <2>1, NonceSent
<1>14. tx \notin mempool
  <2>1. \A t \in mempool : t.nonce \in mined[t.wallet] .. PendingCount(t.wallet) - 1
    BY <1>1 DEF NonceInv
  <2>2. mined[tx.wallet] \in Nat /\ PendingCount(tx.wallet) \in Nat
    BY <1>1, <1>3, <1>10, PendingFacts
  <2>3. QED BY <1>11, <2>1, <2>2
<1>15. ChainTypes'
  BY <1>1, <1>2, <1>13 DEF ChainTypes, marketVars
<1>16. PageTypes'
  BY <1>1, <1>2, PageTypesKept DEF marketVars
<1>17. QED BY <1>2, <1>5, <1>7, <1>8, <1>9, <1>10, <1>13, <1>14, <1>15, <1>16

LEMMA RefuseFacts ==
  ASSUME QueueInv, NEW o \in OpIds, Refuse(o)
  PROVE  /\ UNCHANGED <<chainVars, account, dialog, left>> /\ ops[o].step = "sign"
         /\ PageTypes' /\ OpTypes' /\ LineInv' /\ NonceInv'
         /\ \A p \in OpIds : p # o => ops'[p] = ops[p]
         /\ ops'[o].step = "idle" /\ Failed(o)
<1>1. ChainTypes /\ PageTypes /\ OpTypes /\ LineInv /\ NonceInv
  BY DEF QueueInv
<1>2. UNCHANGED <<chainVars, account, dialog, left>> /\ ops[o].step = "sign"
      /\ UNCHANGED <<mined, mempool, proposals>> /\ LeaveQueue(o) /\ End(o) /\ Failed(o)
  BY DEF Refuse, Fail, chainVars, marketVars
<1>3. OpTypes' /\ LineInv' /\ NonceInv'
  BY <1>2, EndedInFront
<1>4. ops'[o].step = "idle" /\ \A p \in OpIds : p # o => ops'[p] = ops[p]
  BY <1>1, <1>2, Ended
<1>5. PageTypes'
  BY <1>1, <1>2, FailedPage
<1>6. QED BY <1>2, <1>3, <1>4, <1>5

(* Every answer to a transaction but the first half of a replacement ends   *)
(* its handler.                                                             *)
LEMMA AnsweredEnds ==
  ASSUME QueueInv, NEW o \in OpIds,
         \/ ReceiptTimesOut(o) \/ Reverted(o) \/ RevokeConfirmed(o)
         \/ RegistrationConfirmed(o) \/ ProposalConfirmed(o)
  PROVE  /\ UNCHANGED <<chainVars, account, queue>> /\ ops[o].step = "wait"
         /\ OpTypes' /\ LineInv' /\ NonceInv'
         /\ ops'[o].step = "idle" /\ \A p \in OpIds : p # o => ops'[p] = ops[p]
<1>1. OpTypes
  BY DEF QueueInv
<1>2. /\ UNCHANGED <<chainVars, account, queue>> /\ ops[o].step = "wait" /\ End(o)
      /\ UNCHANGED <<mined, mempool>>
  BY DEF ReceiptTimesOut, Reverted, RevokeConfirmed, RegistrationConfirmed, ProposalConfirmed,
         Fail, GoesOn, chainVars, marketVars
<1>3. ~InLine(o)
  BY <1>2 DEF InLine
<1>4. OpTypes' /\ LineInv' /\ NonceInv'
  BY <1>2, <1>3, EndedOutsideTheLine
<1>5. QED BY <1>1, <1>2, <1>4, Ended

LEMMA RevokeConfirmedPage ==
  ASSUME PageTypes, OpTypes, NEW o \in OpIds, RevokeConfirmed(o)
  PROVE  /\ PageTypes' /\ Carries
         /\ ops[o].kind = "revoke"
         /\ \/ ops[o].attached /\ page'.load = "request" /\ page'.own = 0
            \/ ~ops[o].attached /\ page' = page
<1>1. page \in Pages /\ UNCHANGED <<chainVars, account>> /\ ops[o].kind = "revoke"
      /\ page' = IF ops[o].attached
                 THEN [page EXCEPT !.own = 0, !.load = "request", !.toast = "revoked"] ELSE page
  BY DEF RevokeConfirmed, PageTypes
<1>2. CASE ops[o].attached
  <2>1. page' = [page EXCEPT !.own = 0, !.load = "request", !.toast = "revoked"]
    BY <1>1, <1>2
  <2>2. page' \in Pages /\ page'.source = page.source /\ page'.load = "request" /\ page'.own = 0 /\ Carries
    <3>1. page \in Pages
      BY DEF PageTypes
    <3>2. QED BY <2>1, <3>1 DEF Pages, Carries
  <2>3. QED BY <1>1, <1>2, <2>2 DEF PageTypes, chainVars, marketVars
<1>3. CASE ~ops[o].attached
  BY <1>1, <1>3 DEF PageTypes, Carries, chainVars, marketVars
<1>4. QED BY <1>2, <1>3

LEMMA ProposalConfirmedPage ==
  ASSUME ChainTypes, PageTypes, OpTypes, NEW o \in OpIds, ProposalConfirmed(o)
  PROVE  /\ PageTypes' /\ ops[o].kind = "submit" /\ (page'.quiet => page.quiet)
         /\ ops[o].attached =>
              /\ page'.load = "request" /\ page'.error = "none" /\ ~page'.revoked
              /\ page'.own = page.own /\ page'.quiet = page.quiet
              /\ ops[o].replacing => page'.completed
              /\ ~ops[o].replacing => page'.intent = page.intent /\ page'.completed = page.completed
<1>1. /\ page \in Pages /\ UNCHANGED <<chainVars, account>> /\ ops[o].kind = "submit"
      /\ ops[o].step = "wait"
      /\ page' = CASE ops[o].attached /\ ops[o].replacing ->
                        [page EXCEPT !.error = "none", !.revoked = FALSE, !.completed = TRUE,
                                     !.intent = "propose", !.load = "request"]
                   [] ops[o].attached /\ ~ops[o].replacing ->
                        [page EXCEPT !.error = "none", !.revoked = FALSE, !.load = "request"]
                   [] ~ops[o].attached /\ ops[o].replacing ->
                        IF page.load = "left" THEN Opened("propose") ELSE [page EXCEPT !.intent = "propose"]
                   [] OTHER -> page
  BY DEF ProposalConfirmed, GoesOn, PageTypes
<1>2. ops[o].attached \in BOOLEAN /\ ops[o].replacing \in BOOLEAN
  <2>1. ops[o] \in Ops
    BY DEF OpTypes
  <2>2. QED BY <2>1 DEF Ops
<1>3. CASE ops[o].attached /\ ops[o].replacing
  <2>1. page' = [page EXCEPT !.error = "none", !.revoked = FALSE, !.completed = TRUE,
                             !.intent = "propose", !.load = "request"]
    BY <1>1, <1>3
  <2>2. /\ page' \in Pages /\ page'.source = page.source /\ page'.load = "request"
        /\ page'.error = "none" /\ ~page'.revoked /\ page'.own = page.own /\ page'.quiet = page.quiet
        /\ page'.completed
    BY <1>1, <2>1 DEF Pages
  <2>3. QED BY <1>1, <1>3, <2>2 DEF PageTypes, chainVars, marketVars
<1>4. CASE ops[o].attached /\ ~ops[o].replacing
  <2>1. page' = [page EXCEPT !.error = "none", !.revoked = FALSE, !.load = "request"]
    BY <1>1, <1>4
  <2>2. /\ page' \in Pages /\ page'.source = page.source /\ page'.load = "request"
        /\ page'.error = "none" /\ ~page'.revoked /\ page'.own = page.own /\ page'.quiet = page.quiet
        /\ page'.intent = page.intent /\ page'.completed = page.completed
    BY <1>1, <2>1 DEF Pages
  <2>3. QED BY <1>1, <1>4, <2>2 DEF PageTypes, chainVars, marketVars
<1>5. CASE ~ops[o].attached /\ ops[o].replacing
  <2>1. CASE page.load = "left"
    <3>1. page' = Opened("propose")
      BY <1>1, <1>5, <2>1
    <3>2. /\ Opened("propose") \in Pages /\ Opened("propose").source \in {0} \cup DOMAIN proposals
          /\ Opened("propose").load = "request" /\ ~Opened("propose").quiet
      BY <1>1, OpenedType DEF PageTypes
    <3>3. QED BY <1>1, <1>5, <3>1, <3>2 DEF PageTypes, chainVars, marketVars
  <2>2. CASE page.load # "left"
    <3>1. page' = [page EXCEPT !.intent = "propose"]
      BY <1>1, <1>5, <2>2
    <3>2. page' \in Pages /\ page'.source = page.source /\ page'.load = page.load /\ page'.found = page.found
          /\ page'.quiet = page.quiet
      BY <1>1, <3>1 DEF Pages
    <3>3. QED BY <1>1, <1>5, <3>2 DEF PageTypes, chainVars, marketVars
  <2>3. QED BY <2>1, <2>2
<1>6. CASE ~ops[o].attached /\ ~ops[o].replacing
  BY <1>1, <1>6 DEF PageTypes, chainVars, marketVars
<1>7. QED BY <1>2, <1>3, <1>4, <1>5, <1>6

LEMMA RevocationConfirmedFacts ==
  ASSUME QueueInv, NEW o \in OpIds, RevocationConfirmed(o)
  PROVE  /\ UNCHANGED <<chainVars, account, dialog, left>>
         /\ ops[o].step = "wait" /\ ops[o].receipt = "success"
         /\ ops[o].kind = "submit" /\ ops[o].call = "revoke"
         /\ PageTypes' /\ OpTypes' /\ LineInv' /\ NonceInv'
         /\ \A p \in OpIds : p # o => ops'[p] = ops[p]
         /\ ops'[o].step = "queue" /\ ops'[o].receipt = "none" /\ ops'[o].call = "propose"
         /\ ops'[o].kind = ops[o].kind /\ ops'[o].wallet = ops[o].wallet
         /\ ops'[o].replacing = ops[o].replacing /\ ops'[o].confirmed
         /\ ops'[o].attached = ops[o].attached
         /\ page'.intent = page.intent /\ page'.completed = page.completed
         /\ page'.error = page.error /\ page'.quiet = page.quiet /\ page'.answered = page.answered
         /\ page'.load = page.load /\ page'.own = page.own /\ page'.found = page.found
         /\ page'.revoked = page.revoked \/ (ops[o].attached /\ page'.revoked)
<1>1. ChainTypes /\ PageTypes /\ OpTypes
  BY DEF QueueInv
<1>2. /\ UNCHANGED <<chainVars, account, dialog, left>> /\ UNCHANGED <<mined, mempool>>
      /\ ops[o].step = "wait" /\ ops[o].receipt = "success"
      /\ ops[o].kind = "submit" /\ ops[o].call = "revoke"
      /\ Enqueue(o, [ops[o] EXCEPT !.confirmed = TRUE, !.call = "propose"])
      /\ page' = IF ops[o].attached THEN [page EXCEPT !.revoked = TRUE] ELSE page
  BY DEF RevocationConfirmed, GoesOn, chainVars, marketVars
<1>3. ops[o] \in Ops /\ ops[o].wallet \in Wallets /\ ~InLine(o)
  BY <1>1, <1>2 DEF OpTypes, InLine
<1>4. PICK op \in Ops : op = [ops[o] EXCEPT !.confirmed = TRUE, !.call = "propose"]
  <2>1. [ops[o] EXCEPT !.confirmed = TRUE, !.call = "propose"] \in Ops
    BY <1>3 DEF Ops, Calls
  <2>2. QED BY <2>1
<1>5. /\ op.confirmed /\ op.call = "propose" /\ op.kind = ops[o].kind /\ op.wallet = ops[o].wallet
      /\ op.replacing = ops[o].replacing /\ op.attached = ops[o].attached
  BY <1>3, <1>4 DEF Ops
<1>6. /\ OpTypes' /\ LineInv' /\ NonceInv'
      /\ \A p \in OpIds : p # o => ops'[p] = ops[p]
      /\ ops'[o].step = "queue" /\ ops'[o].receipt = "none"
      /\ ops'[o].kind = op.kind /\ ops'[o].call = op.call /\ ops'[o].wallet = op.wallet
      /\ ops'[o].replacing = op.replacing /\ ops'[o].confirmed = op.confirmed
      /\ ops'[o].attached = op.attached
  BY <1>2, <1>3, <1>4, <1>5, Enqueued
<1>7. /\ PageTypes'
      /\ page'.intent = page.intent /\ page'.completed = page.completed
      /\ page'.error = page.error /\ page'.quiet = page.quiet /\ page'.answered = page.answered
      /\ page'.load = page.load /\ page'.own = page.own /\ page'.found = page.found
      /\ page'.revoked = page.revoked \/ (ops[o].attached /\ page'.revoked)
  <2>1. page \in Pages
    BY <1>1 DEF PageTypes
  <2>2. CASE ops[o].attached
    <3>1. page' = [page EXCEPT !.revoked = TRUE]
      BY <1>2, <2>2
    <3>2. /\ page' \in Pages /\ page'.source = page.source
          /\ page'.intent = page.intent /\ page'.completed = page.completed
          /\ page'.error = page.error /\ page'.quiet = page.quiet /\ page'.answered = page.answered
          /\ page'.load = page.load /\ page'.own = page.own /\ page'.found = page.found
          /\ page'.revoked
      BY <2>1, <3>1 DEF Pages
    <3>3. QED BY <1>1, <1>2, <2>2, <3>2 DEF PageTypes, chainVars, marketVars
  <2>3. CASE ~ops[o].attached
    <3>1. page' = page
      BY <1>2, <2>3
    <3>2. QED BY <1>1, <1>2, <3>1 DEF PageTypes, chainVars, marketVars
  <2>4. QED BY <2>2, <2>3
<1>8. QED BY <1>2, <1>5, <1>6, <1>7

LEMMA HandlersKeepQueue ==
  ASSUME QueueInv, NEW o \in OpIds,
         Check(o) \/ Prepare(o) \/ Confirm(o) \/ Refuse(o) \/ ReceiptTimesOut(o) \/ Answered(o)
  PROVE  QueueInv'
<1>1. ChainTypes /\ PageTypes /\ OpTypes
  BY DEF QueueInv
<1>2. CASE Confirm(o)
  BY <1>2, ConfirmFacts DEF QueueInv
<1>3. ASSUME UNCHANGED chainVars, PageTypes', OpTypes', LineInv', NonceInv' PROVE QueueInv'
  <2>1. ChainTypes'
    BY <1>1, <1>3 DEF ChainTypes, chainVars, marketVars
  <2>2. QED BY <1>3, <2>1 DEF QueueInv
<1>4. CASE Check(o) \/ Prepare(o) \/ Refuse(o) \/ RevocationConfirmed(o)
  BY <1>3, <1>4, CheckFacts, PrepareFacts, RefuseFacts, RevocationConfirmedFacts
<1>5. CASE \/ ReceiptTimesOut(o) \/ Reverted(o) \/ RevokeConfirmed(o)
           \/ RegistrationConfirmed(o) \/ ProposalConfirmed(o)
  <2>1. UNCHANGED <<chainVars, account, queue>> /\ OpTypes' /\ LineInv' /\ NonceInv'
    BY <1>5, AnsweredEnds
  <2>2. UNCHANGED <<account, proposals>>
    BY <2>1 DEF chainVars, marketVars
  <2>3. PageTypes'
    <3>1. CASE ReceiptTimesOut(o) \/ Reverted(o)
      BY <1>1, <2>2, <3>1, FailedPage DEF ReceiptTimesOut, Reverted, Fail
    <3>2. CASE RevokeConfirmed(o)
      BY <1>1, <3>2, RevokeConfirmedPage
    <3>3. CASE RegistrationConfirmed(o)
      BY <1>1, <2>2, <3>3, PageTypesKept DEF RegistrationConfirmed
    <3>4. CASE ProposalConfirmed(o)
      BY <1>1, <3>4, ProposalConfirmedPage
    <3>5. QED BY <1>5, <3>1, <3>2, <3>3, <3>4
  <2>4. QED BY <1>3, <2>1, <2>3
<1>6. QED BY <1>2, <1>4, <1>5 DEF Answered

-----------------------------------------------------------------------------
(* Part I: one transaction for each nonce.                                  *)

LEMMA QueueStarts == Init => QueueInv
<1> SUFFICES ASSUME Init PROVE QueueInv
  OBVIOUS
<1>1. /\ open = TRUE /\ registered \subseteq Wallets /\ mined = [w \in Wallets |-> 0] /\ mempool = {}
      /\ ops = [o \in OpIds |-> NoOp] /\ queue = [w \in Wallets |-> <<>>]
  BY DEF Init
<1>2. account \in Wallets
  BY EditorAssumption DEF Init
<1>3. proposals \in Seq(Proposals)
  <2>1. CASE proposals = <<>>
    BY <2>1
  <2>2. CASE \E w \in Wallets, s \in {"Active", "Rejected"}, p \in Plans \ {DefaultPlan} :
               proposals = <<[carrier |-> w, status |-> s, plan |-> p]>>
    BY <2>2 DEF Proposals
  <2>3. QED BY <2>1, <2>2 DEF Init
<1>4. ChainTypes
  BY <1>1, <1>3, FS_EmptySet DEF ChainTypes
<1>5. PageTypes
  <2>1. PICK intent \in {"propose", "edit", "resubmit"} : page = Opened(intent)
    BY DEF Init
  <2>2. QED BY <1>2, <1>4, <2>1, OpenedType DEF PageTypes
<1>6. OpTypes
  BY <1>1, NoOpType DEF OpTypes
<1>7. LineInv
  BY <1>1, NoOpType DEF LineInv, InLine
<1>8. NonceInv
  BY <1>1, NoOpType DEF NonceInv, OneNonceEach
<1>9. QED BY <1>4, <1>5, <1>6, <1>7, <1>8 DEF QueueInv

LEMMA QueueKept == QueueInv /\ [Next]_vars => QueueInv'
<1> SUFFICES ASSUME QueueInv, [Next]_vars PROVE QueueInv'
  OBVIOUS
<1>1. CASE UNCHANGED vars
  <2>1. UNCHANGED <<chainVars, ops, queue>> /\ PageTypes'
    BY <1>1 DEF vars, QueueInv, PageTypes, chainVars, marketVars
  <2>2. QED BY <2>1, PageMoves
<1>2. CASE ShipperActs
  BY <1>2, ShipperActsKeepsQueue
<1>3. CASE \E tx \in mempool : Mine(tx)
  BY <1>3, MineKeepsQueue
<1>4. CASE \/ LoadRequest \/ LoadProposals \/ LoadPlan \/ CopyRejected
           \/ \E plan \in Plans : EditPlan(plan)
  BY <1>4, ReadsKeepQueue
<1>5. CASE \/ \E intent \in {"propose", "edit", "resubmit"} : OpenPage(intent)
           \/ \E w \in Wallets : AccountChanges(w)
  BY <1>5, TurnsKeepQueue
<1>6. CASE Submit \/ RevokeProposal \/ Register \/ CloseDialog
  BY <1>6, ClicksKeepQueue
<1>7. CASE \E o \in OpIds : \/ Check(o) \/ Prepare(o) \/ Confirm(o) \/ Refuse(o)
                            \/ ReceiptTimesOut(o) \/ Answered(o)
  BY <1>7, HandlersKeepQueue
<1>8. QED BY <1>1, <1>2, <1>3, <1>4, <1>5, <1>6, <1>7 DEF Next

LEMMA QueueInvariant == Spec => []QueueInv
BY QueueStarts, QueueKept, PTL DEF Spec

(* The queue of a wallet (transactionQueues in walletTransaction.js): two   *)
(* transactions of a wallet never carry one nonce, and the nonce a handler  *)
(* has read stays the next free one until it signs.                         *)
THEOREM EveryTransactionHasItsNonce == Spec => []OneNonceEach
<1>1. QueueInv => OneNonceEach
  BY DEF QueueInv, NonceInv
<1>2. QED BY <1>1, QueueInvariant, PTL

-----------------------------------------------------------------------------
(* Part II: the steps of a quiet page.                                      *)

LEMMA ModeWhileEditing ==
  /\ PresentationMode = "edit-active" <=> Editing /\ page.own # 0
  /\ PresentationMode = "submitted" /\ page.own # 0 => ~Editing
BY DEF PresentationMode, Editing

(* A handler starts, of the account and of the page.                        *)
LEMMA StartKeepsEditor ==
  ASSUME QueueInv, EditorInv, UNCHANGED <<chainVars, account>>, Carries,
         page'.load = page.load, page'.own = page.own, page'.found = page.found,
         NEW o \in OpIds, ~Busy(o), \A p \in OpIds : p # o => ops'[p] = ops[p],
         ops'[o].step \in {"check", "queue"}, ops'[o].attached, ops'[o].wallet = account,
         ops'[o].kind = "register" <=> ops'[o].call = "register",
         ops'[o].call # "revoke",
         ops'[o].replacing => ops'[o].kind = "submit",
         ops'[o].kind # "submit" => ~ops'[o].confirmed,
         ops'[o].step = "check" => ops'[o].kind # "register",
         ops'[o].kind = "submit" => ~Running("submit"),
         ~Editing => ~ops'[o].replacing,
         Editing /\ EditorLoads => ops'[o].kind = "register",
         Editing /\ ~EditorLoads /\ ops'[o].kind # "register" =>
           ops'[o].replacing /\ ops'[o].confirmed = page.revoked,
         ops'[o].kind = "register" => ~ops'[o].replacing
  PROVE  EditorInv'
<1>1. UNCHANGED <<proposals, mempool, mined>>
  BY DEF chainVars, marketVars
<1>2. OpInv'
  BY <1>1 DEF EditorInv, OpInv, Busy
<1>3. \A tx \in mempool : tx.op \in OpIds
  BY DEF QueueInv, ChainTypes, Txs
<1>4. TxInv'
  BY <1>1, <1>3 DEF EditorInv, TxInv, WaitsFor
<1>5. OneActive'
  BY <1>1 DEF EditorInv, OneActive
<1>6. ASSUME page'.quiet PROVE OnlyOwn' /\ (~Editing => NotEditing)'
                               /\ (Editing /\ EditorLoads => Loading)'
                               /\ (Editing /\ ~EditorLoads => Replacing)'
  <2>1. /\ OnlyOwn /\ (~Editing => NotEditing) /\ (Editing /\ EditorLoads => Loading)
        /\ (Editing /\ ~EditorLoads => Replacing) /\ Editing' = Editing /\ EditorLoads' = EditorLoads
    BY <1>6 DEF EditorInv, PageInv, Carries, Editing, EditorLoads
  <2>2. OnlyOwn'
    <3>1. \A p \in OpIds : Busy(p)' => ops'[p].attached /\ ops'[p].wallet = account'
      BY <2>1 DEF OnlyOwn, Busy
    <3>2. \A p, q \in OpIds : Busy(p)' /\ Busy(q)' /\ ops'[p].kind = "submit" /\ ops'[q].kind = "submit" => p = q
      <4>1. ops'[o].kind = "submit" => \A p \in OpIds : ~(Busy(p) /\ ops[p].kind = "submit")
        BY <2>1 DEF OnlyOwn, Busy, Running
      <4>2. QED BY <2>1, <4>1 DEF OnlyOwn, Busy
    <3>3. QED BY <1>1, <2>1, <3>1, <3>2 DEF OnlyOwn
  <2>3. ASSUME ~Editing PROVE NotEditing'
    BY <2>1, <2>3 DEF NotEditing, Busy, Carries
  <2>4. ASSUME Editing, EditorLoads PROVE Loading'
    BY <1>1, <2>1, <2>4 DEF Loading, Busy, Carries
  <2>5. ASSUME Editing, ~EditorLoads PROVE Replacing'
    <3>1. Replacing
      BY <2>1, <2>5
    <3>2. \A p \in OpIds : Busy(p)' /\ ops'[p].kind # "register" => ops'[p].replacing
      BY <2>5, <3>1 DEF Replacing, Busy
    <3>3. (\E p \in OpIds : Busy(p)' /\ ops'[p].replacing /\ HalfDone(p)') =>
             page.revoked \/ (\E p \in OpIds : Busy(p) /\ ops[p].replacing /\ HalfDone(p))
      BY <2>5 DEF Busy, HalfDone
    <3>4. (\E p \in OpIds : Busy(p) /\ ops[p].replacing /\ HalfDone(p) /\ ops[p].step # "check") =>
             \E p \in OpIds : Busy(p)' /\ ops'[p].replacing /\ HalfDone(p)' /\ ops'[p].step # "check"
      BY DEF Busy, HalfDone
    <3>5. \A tx \in mempool : WaitsFor(tx.op, tx) /\ ops[tx.op].replacing =>
             WaitsFor(tx.op, tx)' /\ ops'[tx.op].replacing
      BY <1>3 DEF WaitsFor, Busy
    <3>6. page.revoked => \A p \in OpIds : Busy(p)' /\ ops'[p].replacing => ops'[p].confirmed
      BY <2>5, <3>1 DEF Replacing, Busy
    <3>7. QED BY <1>1, <3>1, <3>2, <3>3, <3>4, <3>5, <3>6 DEF Replacing, Carries
  <2>6. QED BY <2>1, <2>2, <2>3, <2>4, <2>5
<1>7. PageInv'
  BY <1>6 DEF PageInv
<1>8. QED BY <1>2, <1>4, <1>5, <1>7 DEF EditorInv

(* A handler ends in a failure and reports how far it came.                 *)
LEMMA FailKeepsEditor ==
  ASSUME QueueInv, EditorInv, UNCHANGED <<chainVars, account>>,
         NEW o \in OpIds, Busy(o), \A p \in OpIds : p # o => ops'[p] = ops[p],
         ops'[o].step = "idle", Failed(o)
  PROVE  EditorInv'
<1>1. UNCHANGED <<proposals, mempool, mined>>
  BY DEF chainVars, marketVars
<1>2. OpInv'
  BY <1>1 DEF EditorInv, OpInv, Busy
<1>3. \A tx \in mempool : tx.op \in OpIds
  BY DEF QueueInv, ChainTypes, Txs
<1>4. TxInv'
  BY <1>1, <1>3 DEF EditorInv, TxInv, WaitsFor
<1>5. OneActive'
  BY <1>1 DEF EditorInv, OneActive
<1>6. /\ page'.intent = page.intent /\ page'.completed = page.completed
      /\ page'.own = page.own /\ page'.load = page.load /\ page'.found = page.found
      /\ page'.quiet = page.quiet
      /\ ~(ops[o].attached /\ ops[o].replacing) => page' = page
      /\ ops[o].attached /\ ops[o].replacing =>
           /\ page'.revoked = ops[o].confirmed
           /\ page'.error = IF ops[o].confirmed THEN "revoked" ELSE "not revoked"
           /\ page'.answered = (page.answered /\ ~RevocationUnanswered(o))
  BY <1>1, FailedPage DEF QueueInv
<1>7. ASSUME page'.quiet PROVE OnlyOwn' /\ (~Editing => NotEditing)'
                               /\ (Editing /\ EditorLoads => Loading)'
                               /\ (Editing /\ ~EditorLoads => Replacing)'
  <2>1. /\ OnlyOwn /\ (~Editing => NotEditing) /\ (Editing /\ EditorLoads => Loading)
        /\ (Editing /\ ~EditorLoads => Replacing) /\ Editing' = Editing /\ EditorLoads' = EditorLoads
    BY <1>6, <1>7 DEF EditorInv, PageInv, Editing, EditorLoads
  <2>2. OnlyOwn' /\ ops[o].attached
    <3>1. ops[o].attached
      BY <2>1 DEF OnlyOwn
    <3>2. \A p \in OpIds : Busy(p)' => Busy(p) /\ ops'[p] = ops[p]
      BY DEF Busy
    <3>3. \A p \in OpIds : Busy(p)' => ops'[p].attached /\ ops'[p].wallet = account'
      BY <2>1, <3>2 DEF OnlyOwn
    <3>4. QED BY <1>1, <1>6, <2>1, <3>1, <3>2, <3>3 DEF OnlyOwn
  <2>3. ASSUME ~Editing PROVE NotEditing'
    <3>1. NotEditing /\ page' = page
      BY <1>6, <2>1, <2>3 DEF NotEditing
    <3>2. QED BY <3>1 DEF NotEditing, Busy
  <2>4. ASSUME Editing, EditorLoads PROVE Loading'
    <3>1. Loading /\ page' = page
      BY <1>6, <2>1, <2>4 DEF Loading, EditorInv, OpInv
    <3>2. QED BY <1>1, <3>1 DEF Loading, Busy
  <2>5. ASSUME Editing, ~EditorLoads PROVE Replacing'
    <3>1. Replacing
      BY <2>1, <2>5
    <3>2. \A p \in OpIds : Busy(p)' /\ ops'[p].kind # "register" => ops'[p].replacing
      BY <3>1 DEF Replacing, Busy
    <3>3. (\E p \in OpIds : Busy(p)' /\ ops'[p].replacing /\ HalfDone(p)') =>
             \E p \in OpIds : Busy(p) /\ ops[p].replacing /\ HalfDone(p)
      BY DEF Busy, HalfDone
    <3>4. CASE ~ops[o].replacing
      <4>1. page' = page
        BY <1>6, <3>4
      <4>2. (\E p \in OpIds : Busy(p) /\ ops[p].replacing /\ HalfDone(p) /\ ops[p].step # "check") =>
               \E p \in OpIds : Busy(p)' /\ ops'[p].replacing /\ HalfDone(p)' /\ ops'[p].step # "check"
        BY <3>4 DEF Busy, HalfDone
      <4>3. \A tx \in mempool : WaitsFor(tx.op, tx) /\ ops[tx.op].replacing =>
               WaitsFor(tx.op, tx)' /\ ops'[tx.op].replacing
        BY <1>3, <3>4 DEF WaitsFor
      <4>4. \A p \in OpIds : Busy(p)' => Busy(p) /\ ops'[p] = ops[p]
        BY DEF Busy
      <4>5. QED BY <1>1, <3>1, <3>2, <3>3, <4>1, <4>2, <4>3, <4>4 DEF Replacing
    <3>5. CASE ops[o].replacing
      <4>1. /\ page'.revoked = ops[o].confirmed /\ page'.error # "none"
            /\ page'.error = "revoked" => ops[o].confirmed
        BY <1>6, <2>2, <3>5
      <4>2. ops[o].confirmed => \E p \in OpIds : Busy(p) /\ ops[p].replacing /\ HalfDone(p)
        BY <3>5 DEF HalfDone
      <4>3. /\ page'.answered => page.answered /\ ~RevocationUnanswered(o)
            /\ ops[o].confirmed => page'.error = "revoked"
        BY <1>6, <2>2, <3>5
      <4>4. \A p \in OpIds : ~(Busy(p)' /\ ops'[p].replacing)
        BY <2>1, <3>5 DEF OnlyOwn, EditorInv, OpInv, Busy
      <4>5. ASSUME proposals[page.own].status = "Revoked", page'.answered
            PROVE  page'.error = "revoked" /\ page'.revoked
        <5>1. CASE page.error = "revoked" /\ page.revoked
          BY <3>1, <3>5, <4>1, <4>3, <5>1 DEF Replacing
        <5>2. CASE \E p \in OpIds : Busy(p) /\ ops[p].replacing /\ HalfDone(p)
          <6>1. HalfDone(o)
            BY <2>1, <3>5, <5>2 DEF OnlyOwn, EditorInv, OpInv
          <6>2. ops[o].confirmed
            BY <4>3, <4>5, <6>1 DEF HalfDone, RevocationUnanswered
          <6>3. QED BY <4>1, <4>3, <6>2
        <5>3. QED BY <3>1, <4>3, <4>5, <5>1, <5>2 DEF Replacing
      <4>6. ASSUME NEW tx \in mempool, tx.call = "revoke", page'.answered
            PROVE  FALSE
        <5>1. WaitsFor(tx.op, tx) /\ ops[tx.op].replacing /\ tx.op \in OpIds
          BY <1>3, <3>1, <4>3, <4>6 DEF Replacing
        <5>2. tx.op = o
          BY <2>1, <3>5, <5>1 DEF OnlyOwn, EditorInv, OpInv, WaitsFor, Busy
        <5>3. ops[o].step = "wait" /\ ops[o].call = "revoke"
          BY <4>6, <5>1, <5>2 DEF EditorInv, TxInv, WaitsFor
        <5>4. ops[o].receipt = "none"
          <6>1. tx.wallet \in Wallets /\ tx.nonce \in mined[tx.wallet] .. PendingCount(tx.wallet) - 1
            BY DEF QueueInv, NonceInv, ChainTypes, Txs
          <6>2. mined[tx.wallet] \in Nat /\ PendingCount(tx.wallet) \in Nat
            BY <6>1, PendingFacts DEF QueueInv
          <6>3. mined[tx.wallet] <= tx.nonce /\ tx.nonce \in Int
            BY <6>1, <6>2
          <6>4. ~(tx.nonce < mined[tx.wallet])
            BY <6>2, <6>3
          <6>5. QED BY <5>1, <5>2, <5>3, <6>4 DEF EditorInv, OpInv, WaitsFor
        <5>5. QED BY <4>3, <4>6, <5>3, <5>4 DEF RevocationUnanswered
      <4>7. QED BY <1>1, <1>6, <3>1, <3>2, <3>3, <4>1, <4>2, <4>4, <4>5, <4>6 DEF Replacing
    <3>6. QED BY <3>4, <3>5
  <2>6. QED BY <2>1, <2>2, <2>3, <2>4, <2>5
<1>8. PageInv'
  BY <1>7 DEF PageInv
<1>9. QED BY <1>2, <1>4, <1>5, <1>8 DEF EditorInv

(* A handler goes on towards its signature or ends without a word, before   *)
(* it is at a replacement.                                                  *)
LEMMA StepKeepsEditor ==
  ASSUME QueueInv, EditorInv, UNCHANGED <<chainVars, account, page>>,
         NEW o \in OpIds, Busy(o), \A p \in OpIds : p # o => ops'[p] = ops[p],
         \/ ops'[o].step = "idle" /\ (ops[o].step = "check" \/ ops[o].kind = "register")
         \/ /\ ops[o].step \in {"check", "queue"} /\ ops'[o].step \in {"queue", "sign"}
            /\ ops'[o].kind = ops[o].kind /\ ops'[o].wallet = ops[o].wallet
            /\ ops'[o].replacing = ops[o].replacing /\ ops'[o].confirmed = ops[o].confirmed
            /\ ops'[o].attached = ops[o].attached
            /\ ops'[o].kind = "register" <=> ops'[o].call = "register"
            /\ ops'[o].kind = "submit" /\ ops'[o].call = "revoke" => ops'[o].replacing
            /\ ops'[o].call = "revoke" => ~ops'[o].confirmed
  PROVE  EditorInv'
<1>1. UNCHANGED <<proposals, mempool, mined>>
  BY DEF chainVars, marketVars
<1>2. OpInv'
  BY <1>1 DEF EditorInv, OpInv, Busy
<1>3. \A tx \in mempool : tx.op \in OpIds
  BY DEF QueueInv, ChainTypes, Txs
<1>4. TxInv'
  BY <1>1, <1>3 DEF EditorInv, TxInv, WaitsFor
<1>5. OneActive'
  BY <1>1 DEF EditorInv, OneActive
<1>6. ops[o].kind = "register" => ~ops[o].replacing
  BY DEF EditorInv, OpInv
<1>7. ASSUME page'.quiet PROVE OnlyOwn' /\ (~Editing => NotEditing)'
                               /\ (Editing /\ EditorLoads => Loading)'
                               /\ (Editing /\ ~EditorLoads => Replacing)'
  <2>1. /\ OnlyOwn /\ (~Editing => NotEditing) /\ (Editing /\ EditorLoads => Loading)
        /\ (Editing /\ ~EditorLoads => Replacing) /\ Editing' = Editing /\ EditorLoads' = EditorLoads
    BY <1>7 DEF EditorInv, PageInv, Editing, EditorLoads
  <2>2. OnlyOwn'
    <3>1. \A p \in OpIds : Busy(p)' => ops'[p].attached /\ ops'[p].wallet = account'
      BY <2>1 DEF OnlyOwn, Busy
    <3>2. \A p \in OpIds : Busy(p)' => Busy(p) /\ ops'[p].kind = ops[p].kind
      BY DEF Busy
    <3>3. QED BY <1>1, <2>1, <3>1, <3>2 DEF OnlyOwn
  <2>3. ASSUME ~Editing PROVE NotEditing'
    BY <2>1, <2>3 DEF NotEditing, Busy
  <2>4. ASSUME Editing, EditorLoads PROVE Loading'
    BY <1>1, <2>1, <2>4 DEF Loading, Busy
  <2>5. ASSUME Editing, ~EditorLoads PROVE Replacing'
    <3>1. Replacing
      BY <2>1, <2>5
    <3>2. \A p \in OpIds : Busy(p)' /\ ops'[p].kind # "register" => ops'[p].replacing
      BY <3>1 DEF Replacing, Busy
    <3>3. (\E p \in OpIds : Busy(p)' /\ ops'[p].replacing /\ HalfDone(p)') =>
             \E p \in OpIds : Busy(p) /\ ops[p].replacing /\ HalfDone(p)
      BY DEF Busy, HalfDone
    <3>4. (\E p \in OpIds : Busy(p) /\ ops[p].replacing /\ HalfDone(p) /\ ops[p].step # "check") =>
             \E p \in OpIds : Busy(p)' /\ ops'[p].replacing /\ HalfDone(p)' /\ ops'[p].step # "check"
      BY <1>6 DEF Busy, HalfDone
    <3>5. \A tx \in mempool : WaitsFor(tx.op, tx) /\ ops[tx.op].replacing =>
             WaitsFor(tx.op, tx)' /\ ops'[tx.op].replacing
      BY <1>3, <1>6 DEF WaitsFor
    <3>6. \A p \in OpIds : Busy(p)' => Busy(p) /\ ops'[p].replacing = ops[p].replacing
                                      /\ ops'[p].confirmed = ops[p].confirmed
      BY DEF Busy
    <3>7. QED BY <1>1, <3>1, <3>2, <3>3, <3>4, <3>5, <3>6 DEF Replacing
  <2>6. QED BY <2>1, <2>2, <2>3, <2>4, <2>5
<1>8. PageInv'
  BY <1>7 DEF PageInv
<1>9. QED BY <1>2, <1>4, <1>5, <1>8 DEF EditorInv

-----------------------------------------------------------------------------
(* The chain and the shipper.                                               *)

LEMMA ShipperActsKeepsEditor ==
  ASSUME QueueInv, EditorInv, ShipperActs
  PROVE  EditorInv'
<1>1. /\ UNCHANGED <<mined, mempool, account, page, ops>>
      /\ DOMAIN proposals' = DOMAIN proposals
      /\ \A p \in DOMAIN proposals :
           /\ proposals'[p].carrier = proposals[p].carrier
           /\ proposals'[p] = proposals[p] \/ proposals'[p].status \in {"Rejected", "Accepted"}
  BY ShipperActsFacts DEF QueueInv
<1>2. OpInv' /\ TxInv'
  BY <1>1 DEF EditorInv, OpInv, TxInv, Busy, WaitsFor
<1>3. OneActive'
  BY <1>1 DEF EditorInv, OneActive
<1>4. ASSUME page.quiet PROVE OnlyOwn' /\ (~Editing => NotEditing)'
                              /\ (Editing /\ EditorLoads => Loading)'
                              /\ (Editing /\ ~EditorLoads => Replacing)'
  <2>1. /\ OnlyOwn /\ (~Editing => NotEditing) /\ (Editing /\ EditorLoads => Loading)
        /\ (Editing /\ ~EditorLoads => Replacing) /\ Editing' = Editing /\ EditorLoads' = EditorLoads
    BY <1>1, <1>4 DEF EditorInv, PageInv, Editing, EditorLoads
  <2>2. page.load = "plan" => page.found \in DOMAIN proposals
    BY DEF QueueInv, PageTypes
  <2>3. OnlyOwn'
    BY <1>1, <2>1, <2>2 DEF OnlyOwn, Busy
  <2>4. ASSUME ~Editing PROVE NotEditing'
    BY <1>1, <2>1, <2>4 DEF NotEditing, Busy
  <2>5. ASSUME Editing, EditorLoads PROVE Loading'
    BY <1>1, <2>1, <2>2, <2>5 DEF Loading, Busy
  <2>6. ASSUME Editing, ~EditorLoads PROVE Replacing'
    <3>1. Replacing /\ page.own \in DOMAIN proposals
      BY <2>1, <2>6 DEF OnlyOwn, EditorLoads
    <3>2. /\ proposals[page.own].status # "Active" => proposals'[page.own].status # "Active"
          /\ proposals'[page.own].status = "Revoked" => proposals[page.own].status = "Revoked"
      BY <1>1, <3>1
    <3>3. QED BY <1>1, <3>1, <3>2 DEF Replacing, Busy, HalfDone, WaitsFor
  <2>7. QED BY <2>1, <2>3, <2>4, <2>5, <2>6
<1>5. PageInv'
  BY <1>1, <1>4 DEF PageInv
<1>6. QED BY <1>2, <1>3, <1>5 DEF EditorInv

LEMMA MineFacts ==
  ASSUME QueueInv, NEW tx \in mempool, Mine(tx)
  PROVE  /\ UNCHANGED <<account, page>> /\ mempool' = mempool \ {tx}
         /\ tx.wallet \in Wallets /\ tx.op \in OpIds /\ tx.nonce = mined[tx.wallet]
         /\ mined'[tx.wallet] = mined[tx.wallet] + 1 /\ mined[tx.wallet] \in Nat
         /\ \A w \in Wallets : w # tx.wallet => mined'[w] = mined[w]
         /\ \A o \in OpIds : o # tx.op => ops'[o] = ops[o]
         /\ ~WaitsFor(tx.op, tx) => ops'[tx.op] = ops[tx.op]
         /\ ops'[tx.op].kind = ops[tx.op].kind /\ ops'[tx.op].step = ops[tx.op].step
         /\ ops'[tx.op].call = ops[tx.op].call /\ ops'[tx.op].wallet = ops[tx.op].wallet
         /\ ops'[tx.op].replacing = ops[tx.op].replacing
         /\ ops'[tx.op].confirmed = ops[tx.op].confirmed
         /\ ops'[tx.op].attached = ops[tx.op].attached /\ ops'[tx.op].nonce = ops[tx.op].nonce
         /\ WaitsFor(tx.op, tx) =>
              ops'[tx.op].receipt = IF Accepts(tx.call, tx.wallet) THEN "success" ELSE "reverted"
         /\ IF Accepts(tx.call, tx.wallet) THEN Executed(tx) ELSE proposals' = proposals
<1>1. ChainTypes /\ OpTypes
  BY DEF QueueInv
<1>2. /\ tx.wallet \in Wallets /\ tx.op \in OpIds
      /\ tx.nonce = mined[tx.wallet] /\ mempool' = mempool \ {tx}
      /\ mined' = [mined EXCEPT ![tx.wallet] = mined[tx.wallet] + 1]
      /\ UNCHANGED <<account, page>> /\ mined \in [Wallets -> Nat]
  BY <1>1 DEF Mine, ChainTypes, Txs
<1>3. IF Accepts(tx.call, tx.wallet) THEN Executed(tx) ELSE proposals' = proposals
  BY DEF Mine, marketVars
<1>4. /\ mined'[tx.wallet] = mined[tx.wallet] + 1 /\ mined[tx.wallet] \in Nat
      /\ \A w \in Wallets : w # tx.wallet => mined'[w] = mined[w]
  BY <1>2
<1>5. CASE ~WaitsFor(tx.op, tx)
  <2>1. ops' = ops
    BY <1>5 DEF Mine, WaitsFor
  <2>2. QED BY <1>2, <1>3, <1>4, <1>5, <2>1
<1>6. CASE WaitsFor(tx.op, tx)
  <2> DEFINE receipt == IF Accepts(tx.call, tx.wallet) THEN "success" ELSE "reverted"
  <2>1. ops' = [ops EXCEPT ![tx.op].receipt = receipt]
    BY <1>6 DEF Mine, WaitsFor
  <2>2. ops \in [OpIds -> Ops] /\ ops[tx.op] \in Ops
    BY <1>1, <1>2 DEF OpTypes
  <2> HIDE DEF receipt
  <2>3. PICK op \in Ops : op = ops[tx.op]
    BY <2>2
  <2>4. /\ ops'[tx.op] = [op EXCEPT !.receipt = receipt]
        /\ \A o \in OpIds : o # tx.op => ops'[o] = ops[o]
    BY <1>2, <2>1, <2>2, <2>3
  <2>5. /\ ops'[tx.op].kind = op.kind /\ ops'[tx.op].step = op.step
        /\ ops'[tx.op].call = op.call /\ ops'[tx.op].wallet = op.wallet
        /\ ops'[tx.op].replacing = op.replacing /\ ops'[tx.op].confirmed = op.confirmed
        /\ ops'[tx.op].attached = op.attached /\ ops'[tx.op].nonce = op.nonce
        /\ ops'[tx.op].receipt = receipt
    BY <2>4 DEF Ops
  <2>6. QED BY <1>2, <1>3, <1>4, <1>6, <2>3, <2>4, <2>5 DEF receipt
<1>7. QED BY <1>5, <1>6

(* What a mined transaction makes of a proposal of its wallet.              *)
LEMMA MinedProposals ==
  ASSUME QueueInv, OneActive, NEW tx \in mempool, Mine(tx)
  PROVE  /\ OneActive' /\ DOMAIN proposals \subseteq DOMAIN proposals'
         /\ \A p \in DOMAIN proposals :
              /\ proposals'[p].carrier = proposals[p].carrier
              /\ \/ proposals'[p] = proposals[p]
                 \/ /\ proposals'[p].status = "Revoked" /\ proposals[p].status = "Active"
                    /\ tx.call = "revoke" /\ Accepts(tx.call, tx.wallet)
              /\ tx.call = "revoke" /\ Accepts(tx.call, tx.wallet)
                   /\ proposals[p].carrier = tx.wallet => proposals'[p].status # "Active"
<1>1. ChainTypes /\ tx.wallet \in Wallets /\ tx.call \in Calls
  BY DEF QueueInv, ChainTypes, Txs
<1>2. IF Accepts(tx.call, tx.wallet) THEN Executed(tx) ELSE proposals' = proposals
  BY MineFacts
<1>3. CASE ~Accepts(tx.call, tx.wallet) \/ tx.call = "register"
  <2>1. proposals' = proposals
    BY <1>1, <1>2, <1>3, ExecutedFacts
  <2>2. QED BY <1>3, <2>1 DEF OneActive
<1>4. CASE Accepts(tx.call, tx.wallet) /\ tx.call = "revoke"
  <2>1. /\ ActiveOf(tx.wallet) \in DOMAIN proposals
        /\ DOMAIN proposals' = DOMAIN proposals
        /\ proposals'[ActiveOf(tx.wallet)].status = "Revoked"
        /\ \A p \in DOMAIN proposals : proposals'[p].carrier = proposals[p].carrier
        /\ \A p \in DOMAIN proposals : p # ActiveOf(tx.wallet) => proposals'[p] = proposals[p]
    BY <1>1, <1>2, <1>4, ExecutedFacts
  <2>2. ActiveOf(tx.wallet) # 0
    BY <1>4 DEF Accepts
  <2>3. proposals[ActiveOf(tx.wallet)].carrier = tx.wallet /\ proposals[ActiveOf(tx.wallet)].status = "Active"
    BY <1>1, <2>2, ActiveFacts
  <2>4. OneActive'
    BY <2>1 DEF OneActive
  <2>5. \A p \in DOMAIN proposals :
          proposals[p].carrier = tx.wallet /\ p # ActiveOf(tx.wallet) => proposals[p].status # "Active"
    BY <2>1, <2>3 DEF OneActive
  <2>6. QED BY <1>4, <2>1, <2>3, <2>4, <2>5
<1>5. CASE Accepts(tx.call, tx.wallet) /\ tx.call = "propose"
  <2>1. /\ ActiveOf(tx.wallet) = 0
        /\ DOMAIN proposals' = DOMAIN proposals \cup {Len(proposals) + 1}
        /\ Len(proposals) + 1 \notin DOMAIN proposals
        /\ \A p \in DOMAIN proposals : proposals'[p] = proposals[p]
        /\ proposals'[Len(proposals) + 1].carrier = tx.wallet
    BY <1>1, <1>2, <1>5, ExecutedFacts
  <2>2. \A p \in DOMAIN proposals : ~(proposals[p].carrier = tx.wallet /\ proposals[p].status = "Active")
    BY <1>1, <2>1, ActiveFacts
  <2>3. OneActive'
    BY <2>1, <2>2 DEF OneActive
  <2>4. QED BY <1>5, <2>1, <2>3
<1>6. QED BY <1>1, <1>3, <1>4, <1>5 DEF Calls

LEMMA MineKeepsEditor ==
  ASSUME QueueInv, EditorInv, NEW tx \in mempool, Mine(tx)
  PROVE  EditorInv'
<1>1. /\ UNCHANGED <<account, page>> /\ mempool' = mempool \ {tx}
      /\ tx.wallet \in Wallets /\ tx.op \in OpIds /\ tx.nonce = mined[tx.wallet]
      /\ mined'[tx.wallet] = mined[tx.wallet] + 1 /\ mined[tx.wallet] \in Nat
      /\ \A w \in Wallets : w # tx.wallet => mined'[w] = mined[w]
  BY MineFacts
<1>2. \A o \in OpIds :
        /\ ops'[o].kind = ops[o].kind /\ ops'[o].step = ops[o].step /\ ops'[o].call = ops[o].call
        /\ ops'[o].wallet = ops[o].wallet /\ ops'[o].replacing = ops[o].replacing
        /\ ops'[o].confirmed = ops[o].confirmed /\ ops'[o].attached = ops[o].attached
        /\ ops'[o].nonce = ops[o].nonce
        /\ ~(o = tx.op /\ WaitsFor(o, tx)) => ops'[o] = ops[o]
  BY MineFacts
<1>3. /\ OneActive' /\ DOMAIN proposals \subseteq DOMAIN proposals'
      /\ \A p \in DOMAIN proposals :
           /\ proposals'[p].carrier = proposals[p].carrier
           /\ \/ proposals'[p] = proposals[p]
              \/ /\ proposals'[p].status = "Revoked" /\ proposals[p].status = "Active"
                 /\ tx.call = "revoke" /\ Accepts(tx.call, tx.wallet)
           /\ tx.call = "revoke" /\ Accepts(tx.call, tx.wallet)
                /\ proposals[p].carrier = tx.wallet => proposals'[p].status # "Active"
  BY MinedProposals DEF EditorInv
<1>4. WaitsFor(tx.op, tx) =>
        ops'[tx.op].receipt = IF Accepts(tx.call, tx.wallet) THEN "success" ELSE "reverted"
  BY MineFacts
<1>5. OpInv'
  <2>1. ASSUME NEW o \in OpIds, ops'[o].step = "wait", ops'[o].receipt # "none"
        PROVE  ops'[o].nonce < mined'[ops'[o].wallet]
    <3>1. CASE o = tx.op /\ WaitsFor(o, tx)
      BY <1>1, <1>2, <3>1 DEF WaitsFor
    <3>2. CASE ~(o = tx.op /\ WaitsFor(o, tx))
      <4>1. ops'[o] = ops[o] /\ ops[o].step = "wait" /\ ops[o].receipt # "none"
        BY <1>2, <2>1, <3>2
      <4>2. ops[o].nonce < mined[ops[o].wallet]
        BY <4>1 DEF EditorInv, OpInv, Busy
      <4>3. ops[o].wallet \in Wallets /\ ops[o].nonce \in Nat /\ mined[ops[o].wallet] \in Nat
        BY <4>1 DEF QueueInv, OpTypes, Ops, ChainTypes
      <4>4. mined'[ops[o].wallet] \in {mined[ops[o].wallet], mined[ops[o].wallet] + 1}
        BY <1>1, <4>3
      <4>5. QED BY <4>1, <4>2, <4>3, <4>4
    <3>3. QED BY <3>1, <3>2
  <2>2. QED BY <1>2, <2>1 DEF EditorInv, OpInv, Busy
<1>6. \A t \in mempool : t.op \in OpIds
  BY DEF QueueInv, ChainTypes, Txs
<1>7. TxInv'
  BY <1>1, <1>2, <1>6 DEF EditorInv, TxInv, WaitsFor
<1>8. ASSUME page.quiet PROVE OnlyOwn' /\ (~Editing => NotEditing)'
                              /\ (Editing /\ EditorLoads => Loading)'
                              /\ (Editing /\ ~EditorLoads => Replacing)'
  <2>1. /\ OnlyOwn /\ (~Editing => NotEditing) /\ (Editing /\ EditorLoads => Loading)
        /\ (Editing /\ ~EditorLoads => Replacing) /\ Editing' = Editing /\ EditorLoads' = EditorLoads
    BY <1>1, <1>8 DEF EditorInv, PageInv, Editing, EditorLoads
  <2>2. page.load = "plan" => page.found \in DOMAIN proposals
    BY DEF QueueInv, PageTypes
  <2>3. OnlyOwn'
    <3>1. \A o \in OpIds : Busy(o)' <=> Busy(o)
      BY <1>2 DEF Busy
    <3>2. \A o, p \in OpIds : Busy(o)' /\ Busy(p)' /\ ops'[o].kind = "submit" /\ ops'[p].kind = "submit" => o = p
      BY <1>2, <2>1, <3>1 DEF OnlyOwn
    <3>3. \A o \in OpIds : Busy(o)' => ops'[o].attached /\ ops'[o].wallet = account'
      BY <1>1, <1>2, <2>1, <3>1 DEF OnlyOwn
    <3>4. QED BY <1>1, <1>3, <2>1, <2>2, <3>2, <3>3 DEF OnlyOwn
  <2>4. ASSUME ~Editing PROVE NotEditing'
    BY <1>1, <1>2, <2>1, <2>4 DEF NotEditing, Busy
  <2>5. ASSUME Editing, EditorLoads PROVE Loading'
    <3>1. Loading /\ tx.call = "register"
      BY <2>1, <2>5 DEF Loading
    <3>2. page.load = "plan" => proposals'[page.found] = proposals[page.found]
      BY <1>3, <2>2, <3>1
    <3>3. QED BY <1>1, <1>2, <3>1, <3>2 DEF Loading, Busy
  <2>6. ASSUME Editing, ~EditorLoads PROVE Replacing'
    <3>1. Replacing /\ page.own \in DOMAIN proposals /\ proposals[page.own].carrier = account /\ tx.wallet = account
      BY <2>1, <2>6 DEF OnlyOwn, EditorLoads
    <3>2. \A o \in OpIds : Busy(o)' /\ ops'[o].kind # "register" => ops'[o].replacing
      BY <1>2, <3>1 DEF Replacing, Busy
    <3>3. ASSUME \/ page'.revoked \/ page'.error = "revoked"
                 \/ \E o \in OpIds : Busy(o)' /\ ops'[o].replacing /\ HalfDone(o)'
          PROVE  proposals'[page'.own].status # "Active"
      <4>1. CASE page.revoked \/ page.error = "revoked" \/ \E o \in OpIds : Busy(o) /\ ops[o].replacing /\ HalfDone(o)
        <5>1. proposals[page.own].status # "Active"
          BY <3>1, <4>1 DEF Replacing
        <5>2. QED BY <1>1, <1>3, <3>1, <5>1
      <4>2. CASE ~(page.revoked \/ page.error = "revoked" \/ \E o \in OpIds : Busy(o) /\ ops[o].replacing /\ HalfDone(o))
        <5>1. PICK o \in OpIds : Busy(o)' /\ ops'[o].replacing /\ HalfDone(o)' /\ ~HalfDone(o)
          BY <1>1, <1>2, <3>3, <4>2 DEF Busy
        <5>2. o = tx.op /\ WaitsFor(o, tx) /\ ops'[o].call = "revoke" /\ ops'[o].receipt = "success"
          BY <1>2, <5>1 DEF HalfDone
        <5>3. tx.call = "revoke"
          BY <1>2, <5>2 DEF EditorInv, TxInv
        <5>4. Accepts(tx.call, tx.wallet)
          BY <1>4, <5>2
        <5>5. QED BY <1>1, <1>3, <3>1, <5>3, <5>4
      <4>3. QED BY <4>1, <4>2
    <3>4. ASSUME proposals'[page'.own].status = "Revoked", page'.answered,
                 ~(page'.error = "revoked" /\ page'.revoked)
          PROVE  \E o \in OpIds : Busy(o)' /\ ops'[o].replacing /\ HalfDone(o)' /\ ops'[o].step # "check"
      <4>1. CASE proposals[page.own].status = "Revoked"
        <5>1. PICK o \in OpIds : Busy(o) /\ ops[o].replacing /\ HalfDone(o) /\ ops[o].step # "check"
          BY <1>1, <3>1, <3>4, <4>1 DEF Replacing
        <5>2. CASE ops[o].confirmed
          <6>1. Busy(o)' /\ ops'[o].replacing /\ HalfDone(o)' /\ ops'[o].step # "check"
            BY <1>2, <5>1, <5>2 DEF Busy, HalfDone
          <6>2. QED BY <6>1
        <5>3. CASE ~ops[o].confirmed
          <6>1. ops[o].step = "wait" /\ ops[o].receipt = "success" /\ ops[o].nonce < mined[ops[o].wallet]
            BY <5>1, <5>3 DEF HalfDone, EditorInv, OpInv, Busy
          <6>2. ~WaitsFor(o, tx)
            BY <1>1, <6>1 DEF WaitsFor
          <6>3. ops'[o] = ops[o]
            BY <1>2, <6>2
          <6>4. Busy(o)' /\ ops'[o].replacing /\ HalfDone(o)' /\ ops'[o].step # "check"
            BY <5>1, <6>3 DEF Busy, HalfDone
          <6>5. QED BY <6>4
        <5>4. QED BY <5>2, <5>3
      <4>2. CASE proposals[page.own].status # "Revoked"
        <5>1. tx.call = "revoke" /\ Accepts(tx.call, tx.wallet)
          BY <1>1, <1>3, <3>1, <3>4, <4>2
        <5>2. WaitsFor(tx.op, tx) /\ ops[tx.op].replacing
          BY <1>1, <3>1, <3>4, <5>1 DEF Replacing
        <5>3. ops'[tx.op].receipt = "success" /\ ops[tx.op].call = "revoke"
          BY <1>4, <5>1, <5>2 DEF EditorInv, TxInv
        <5>4. Busy(tx.op)' /\ ops'[tx.op].replacing /\ HalfDone(tx.op)' /\ ops'[tx.op].step # "check"
          BY <1>1, <1>2, <5>2, <5>3 DEF Busy, HalfDone, WaitsFor
        <5>5. QED BY <1>1, <5>4
      <4>3. QED BY <4>1, <4>2
    <3>5. \A t \in mempool : WaitsFor(t.op, t) /\ ops[t.op].replacing =>
             WaitsFor(t.op, t)' /\ ops'[t.op].replacing
      BY <1>2, <1>6 DEF WaitsFor
    <3>6. page.revoked => \A o \in OpIds : Busy(o)' /\ ops'[o].replacing => ops'[o].confirmed
      BY <1>2, <3>1 DEF Replacing, Busy
    <3>7. QED BY <1>1, <3>1, <3>2, <3>3, <3>4, <3>5, <3>6 DEF Replacing
  <2>7. QED BY <2>1, <2>3, <2>4, <2>5, <2>6
<1>9. PageInv'
  BY <1>1, <1>8 DEF PageInv
<1>10. QED BY <1>3, <1>5, <1>7, <1>9 DEF EditorInv

-----------------------------------------------------------------------------
(* The page.                                                                *)

LEMMA ReadsKeepEditor ==
  ASSUME QueueInv, EditorInv,
         LoadRequest \/ LoadProposals \/ LoadPlan \/ CopyRejected \/ (\E plan \in Plans : EditPlan(plan))
  PROVE  EditorInv'
<1>1. ChainTypes /\ PageTypes
  BY DEF QueueInv
<1>2. UNCHANGED <<proposals, mempool, mined, account, ops>>
  <2>1. UNCHANGED <<chainVars, account, ops>>
    BY <1>1, LoadRequestFacts, LoadProposalsFacts, LoadPlanFacts, DraftFacts
  <2>2. QED BY <2>1 DEF chainVars, marketVars
<1>3. OpInv' /\ TxInv' /\ OneActive'
  BY <1>2 DEF EditorInv, OpInv, TxInv, OneActive, Busy, WaitsFor
<1>4. ASSUME page'.quiet PROVE OnlyOwn' /\ (~Editing => NotEditing)'
                               /\ (Editing /\ EditorLoads => Loading)'
                               /\ (Editing /\ ~EditorLoads => Replacing)'
  <2>1. /\ page'.intent = page.intent /\ page'.completed = page.completed
        /\ page'.error = page.error /\ page'.quiet = page.quiet /\ page'.answered = page.answered
        /\ page'.revoked = page.revoked \/ ~page'.revoked
    BY <1>1, LoadRequestFacts, LoadProposalsFacts, LoadPlanFacts, DraftFacts DEF Carries
  <2>2. /\ OnlyOwn /\ (~Editing => NotEditing) /\ (Editing /\ EditorLoads => Loading)
        /\ (Editing /\ ~EditorLoads => Replacing) /\ Editing' = Editing
    BY <1>4, <2>1 DEF EditorInv, PageInv, Editing
  <2>3. ASSUME ~Editing PROVE NotEditing'
    BY <1>2, <2>1, <2>2, <2>3 DEF NotEditing, Busy
  <2>4. ASSUME Loading, page'.load = "plan" => proposals[page'.found].status # "Revoked" PROVE Loading'
    BY <1>2, <2>1, <2>4 DEF Loading, Busy
  <2>5. CASE LoadRequest
    <3>1. /\ page.load = "request"
          /\ \/ page'.load \in {"proposals", "left"} /\ page'.own = page.own
             \/ page'.load = "none" /\ page'.own = 0
      BY <1>1, <2>5, LoadRequestFacts
    <3>2. EditorLoads /\ EditorLoads'
      BY <3>1 DEF EditorLoads
    <3>3. OnlyOwn'
      BY <1>2, <2>2, <3>1 DEF OnlyOwn, Busy
    <3>4. QED BY <2>2, <2>3, <2>4, <3>1, <3>2, <3>3
  <2>6. CASE LoadProposals
    <3>1. /\ page.load = "proposals"
          /\ \/ page'.load = "none" /\ page'.own = 0
             \/ /\ page'.load = "plan" /\ page'.own = page.own
                /\ page'.found = ActiveOf(account) /\ ActiveOf(account) # 0
      BY <1>1, <2>6, LoadProposalsFacts
    <3>2. EditorLoads /\ EditorLoads'
      BY <3>1 DEF EditorLoads
    <3>3. page'.load = "plan" => /\ proposals[page'.found].carrier = account
                                 /\ proposals[page'.found].status = "Active"
      BY <1>1, <3>1, ActiveFacts DEF PageTypes
    <3>4. OnlyOwn'
      BY <1>2, <2>2, <3>1, <3>3 DEF OnlyOwn, Busy
    <3>5. QED BY <2>2, <2>3, <2>4, <3>2, <3>3, <3>4
  <2>7. CASE LoadPlan
    <3>1. /\ page.load = "plan" /\ page.found \in DOMAIN proposals
          /\ page'.load = "none" /\ page'.own \in {0, page.found} /\ Carries
      BY <1>1, <2>7, LoadPlanFacts
    <3>2. EditorLoads /\ proposals[page.found].carrier = account
      BY <2>2, <3>1 DEF EditorLoads, OnlyOwn
    <3>3. OnlyOwn'
      BY <1>2, <2>2, <3>1, <3>2 DEF OnlyOwn, Busy
    <3>4. ASSUME Editing, page'.own # 0 PROVE Replacing'
      <4>1. Loading /\ page'.own = page.found
        BY <2>2, <3>1, <3>2, <3>4
      <4>2. \A o \in OpIds : Busy(o)' => ops'[o].kind = "register" /\ ~ops'[o].replacing
        BY <1>2, <4>1 DEF Loading, EditorInv, OpInv, Busy
      <4>3. ~page'.revoked /\ page'.error = "none" /\ page'.answered /\ \A tx \in mempool' : tx.call = "register"
        BY <1>2, <3>1, <4>1 DEF Loading, Carries
      <4>4. proposals'[page'.own].status # "Revoked"
        BY <1>2, <3>1, <4>1 DEF Loading
      <4>5. QED BY <4>2, <4>3, <4>4 DEF Replacing
    <3>5. Editing /\ EditorLoads' => Loading'
      BY <2>2, <2>4, <3>1, <3>2
    <3>6. ~EditorLoads' => page'.own # 0
      BY DEF EditorLoads
    <3>7. QED BY <2>2, <2>3, <3>3, <3>4, <3>5, <3>6
  <2>8. CASE CopyRejected \/ (\E plan \in Plans : EditPlan(plan))
    <3>1. Carries /\ page'.load = page.load /\ page'.own = page.own /\ page'.found = page.found
      BY <1>1, <2>8, DraftFacts
    <3>2. OnlyOwn' /\ EditorLoads' = EditorLoads
      BY <1>2, <2>2, <3>1 DEF OnlyOwn, EditorLoads, Busy
    <3>3. Editing /\ EditorLoads => Loading'
      BY <1>2, <2>2, <2>4, <3>1 DEF Loading
    <3>4. Editing /\ ~EditorLoads => Replacing'
      BY <1>2, <2>2, <3>1 DEF Replacing, Carries, Busy, HalfDone, WaitsFor
    <3>5. QED BY <2>2, <2>3, <3>2, <3>3, <3>4
  <2>9. QED BY <2>5, <2>6, <2>7, <2>8
<1>5. PageInv'
  BY <1>4 DEF PageInv
<1>6. QED BY <1>3, <1>5 DEF EditorInv

LEMMA TurnsKeepEditor ==
  ASSUME QueueInv, EditorInv,
         \/ \E intent \in {"propose", "edit", "resubmit"} : OpenPage(intent)
         \/ \E w \in Wallets : AccountChanges(w)
  PROVE  EditorInv'
<1>1. ChainTypes /\ PageTypes /\ OpTypes
  BY DEF QueueInv
<1>2. /\ UNCHANGED chainVars
      /\ \A o \in OpIds :
           /\ ops'[o].kind = ops[o].kind /\ ops'[o].step = ops[o].step /\ ops'[o].call = ops[o].call
           /\ ops'[o].wallet = ops[o].wallet /\ ops'[o].replacing = ops[o].replacing
           /\ ops'[o].confirmed = ops[o].confirmed
           /\ ops'[o].nonce = ops[o].nonce /\ ops'[o].receipt = ops[o].receipt
  BY <1>1, OpenPageFacts, AccountChangesFacts
<1>3. UNCHANGED <<proposals, mempool, mined>>
  BY <1>2 DEF chainVars, marketVars
<1>4. \A tx \in mempool : tx.op \in OpIds
  BY <1>1 DEF ChainTypes, Txs
<1>5. OpInv' /\ TxInv' /\ OneActive'
  BY <1>2, <1>3, <1>4 DEF EditorInv, OpInv, TxInv, OneActive, Busy, WaitsFor
<1>6. PageInv'
  <2>1. CASE \E w \in Wallets : AccountChanges(w)
    BY <1>1, <2>1, AccountChangesFacts DEF PageInv
  <2>2. CASE \E intent \in {"propose", "edit", "resubmit"} : OpenPage(intent)
    <3>1. PICK intent \in {"propose", "edit", "resubmit"} : OpenPage(intent)
      BY <2>2
    <3>2. page' = Opened(intent) /\ account \in Wallets
      BY <1>1, <3>1, OpenPageFacts DEF PageTypes
    <3>3. /\ page'.load = "request" /\ page'.own = 0 /\ page'.error = "none" /\ ~page'.revoked
          /\ page'.answered
          /\ page'.quiet => mempool = {} /\ \A o \in OpIds : ops[o].step = "idle"
      BY <1>1, <3>2, OpenedType
    <3>4. page'.quiet => mempool' = {} /\ \A o \in OpIds : ~Busy(o)'
      BY <1>2, <1>3, <3>3 DEF Busy
    <3>5. QED BY <3>3, <3>4 DEF PageInv, OnlyOwn, NotEditing, Loading, EditorLoads
  <2>3. QED BY <2>1, <2>2
<1>7. QED BY <1>5, <1>6 DEF EditorInv

LEMMA ClicksKeepEditor ==
  ASSUME QueueInv, EditorInv, Submit \/ RevokeProposal \/ Register \/ CloseDialog
  PROVE  EditorInv'
<1>1. ChainTypes /\ PageTypes /\ OpTypes
  BY DEF QueueInv
<1>2. CASE Submit
  <2>1. /\ UNCHANGED <<chainVars, account>> /\ Carries
        /\ page'.load = page.load /\ page'.own = page.own /\ page'.found = page.found
        /\ FreeOp \in OpIds /\ ops[FreeOp].step = "idle"
        /\ ops' = [ops EXCEPT ![FreeOp] = SubmitOp] /\ CanSubmit
    BY <1>1, <1>2, SubmitFacts
  <2>2. PICK o \in OpIds : o = FreeOp
    BY <2>1
  <2>3. ops'[o] = SubmitOp /\ \A p \in OpIds : p # o => ops'[p] = ops[p]
    BY <1>1, <2>1, <2>2 DEF OpTypes
  <2>4. /\ ops'[o].kind = "submit" /\ ops'[o].step = "check" /\ ops'[o].call = "propose"
        /\ ops'[o].wallet = account /\ ops'[o].attached
        /\ ops'[o].replacing = (PresentationMode = "edit-active")
        /\ ops'[o].confirmed = page.revoked
    BY <1>1, <2>3, StartedOps
  <2>5. ~Running("submit") /\ page.load = "none" /\ (page.intent = "edit" => page.own # 0)
    BY <2>1 DEF CanSubmit
  <2>6. ~Busy(o)
    BY <2>1, <2>2 DEF Busy
  <2>7. ~Editing => ~ops'[o].replacing
    BY <2>4, ModeWhileEditing
  <2>8. Editing => ~EditorLoads /\ ops'[o].replacing
    <3>1. Editing => page.own # 0
      BY <2>5 DEF Editing
    <3>2. QED BY <2>4, <2>5, <3>1, ModeWhileEditing DEF EditorLoads
  <2>9. QED BY <2>1, <2>3, <2>4, <2>5, <2>6, <2>7, <2>8, StartKeepsEditor
<1>3. CASE RevokeProposal
  <2>1. /\ UNCHANGED <<chainVars, account, page>>
        /\ FreeOp \in OpIds /\ ops[FreeOp].step = "idle"
        /\ ops' = [ops EXCEPT ![FreeOp] = RevokeOp]
        /\ PresentationMode = "submitted" /\ page.own # 0
    BY <1>3, RevokeProposalFacts
  <2>2. PICK o \in OpIds : o = FreeOp
    BY <2>1
  <2>3. ops'[o] = RevokeOp /\ \A p \in OpIds : p # o => ops'[p] = ops[p]
    BY <1>1, <2>1, <2>2 DEF OpTypes
  <2>4. /\ ops'[o].kind = "revoke" /\ ops'[o].step = "check" /\ ops'[o].call = "propose"
        /\ ops'[o].wallet = account /\ ops'[o].attached /\ ~ops'[o].replacing /\ ~ops'[o].confirmed
    BY <1>1, <2>3, StartedOps
  <2>5. ~Busy(o) /\ Carries /\ ~Editing
    BY <2>1, <2>2, ModeWhileEditing DEF Busy, Carries
  <2>6. QED BY <2>1, <2>3, <2>4, <2>5, StartKeepsEditor
<1>4. CASE Register
  <2>1. /\ UNCHANGED <<chainVars, account, page>>
        /\ FreeOp \in OpIds /\ ops[FreeOp].step = "idle"
        /\ ops' = [ops EXCEPT ![FreeOp] = RegisterOp]
    BY <1>4, RegisterFacts
  <2>2. PICK o \in OpIds : o = FreeOp
    BY <2>1
  <2>3. ops'[o] = RegisterOp /\ \A p \in OpIds : p # o => ops'[p] = ops[p]
    BY <1>1, <2>1, <2>2 DEF OpTypes
  <2>4. /\ ops'[o].kind = "register" /\ ops'[o].step = "queue" /\ ops'[o].call = "register"
        /\ ops'[o].wallet = account /\ ops'[o].attached /\ ~ops'[o].replacing /\ ~ops'[o].confirmed
    BY <1>1, <2>3, StartedOps
  <2>5. ~Busy(o) /\ Carries
    BY <2>1, <2>2 DEF Busy, Carries
  <2>6. QED BY <2>1, <2>3, <2>4, <2>5, StartKeepsEditor
<1>5. CASE CloseDialog
  <2>1. UNCHANGED <<proposals, mempool, mined, account, page, ops>>
    BY <1>5 DEF CloseDialog, chainVars, marketVars
  <2>2. QED BY <2>1 DEF EditorInv, OpInv, TxInv, OneActive, PageInv, OnlyOwn, NotEditing, Loading,
                        Replacing, Editing, EditorLoads, Busy, HalfDone, WaitsFor
<1>6. QED BY <1>2, <1>3, <1>4, <1>5

-----------------------------------------------------------------------------
(* The handlers.                                                            *)

LEMMA ConfirmKeepsEditor ==
  ASSUME QueueInv, EditorInv, NEW o \in OpIds, Confirm(o)
  PROVE  EditorInv'
<1>1. /\ UNCHANGED <<marketVars, mined, account, page>> /\ ops[o].step = "sign"
      /\ NonceInv'
      /\ \A p \in OpIds : p # o => ops'[p] = ops[p]
      /\ ops'[o].step = "wait" /\ ops'[o].receipt = "none"
      /\ ops'[o].kind = ops[o].kind /\ ops'[o].wallet = ops[o].wallet
      /\ ops'[o].call = ops[o].call /\ ops'[o].nonce = ops[o].nonce
      /\ ops'[o].replacing = ops[o].replacing /\ ops'[o].confirmed = ops[o].confirmed
      /\ ops'[o].attached = ops[o].attached
  BY ConfirmFacts
<1>2. PICK tx \in Txs : /\ mempool' = mempool \cup {tx} /\ tx.wallet = ops[o].wallet
                        /\ tx.nonce = ops[o].nonce /\ tx.call = ops[o].call /\ tx.op = o
                        /\ tx \notin mempool
  BY ConfirmFacts
<1>3. UNCHANGED proposals
  BY <1>1 DEF marketVars
<1>4. OpInv'
  BY <1>1 DEF EditorInv, OpInv, Busy
<1>5. TxInv'
  <2>1. \A t \in mempool : t.op \in OpIds
    BY DEF QueueInv, ChainTypes, Txs
  <2>2. ASSUME NEW t \in mempool, WaitsFor(t.op, t)' PROVE ops'[t.op].call = t.call
    <3>1. CASE t.op = o
      <4>1. t.wallet = tx.wallet /\ t.nonce = tx.nonce
        BY <1>1, <1>2, <2>2, <3>1 DEF WaitsFor
      <4>2. t = tx
        <5>1. \A s, u \in mempool' : (s.wallet = u.wallet /\ s.nonce = u.nonce) => s = u
          BY <1>1 DEF NonceInv, OneNonceEach
        <5>2. QED BY <1>2, <4>1, <5>1
      <4>3. QED BY <1>2, <4>2
    <3>2. CASE t.op # o
      <4>1. ops'[t.op] = ops[t.op]
        BY <1>1, <2>1, <3>2
      <4>2. WaitsFor(t.op, t)
        BY <2>2, <4>1 DEF WaitsFor
      <4>3. QED BY <4>1, <4>2 DEF EditorInv, TxInv
    <3>3. QED BY <3>1, <3>2
  <2>3. QED BY <1>1, <1>2, <2>2 DEF TxInv
<1>6. OneActive'
  BY <1>3 DEF EditorInv, OneActive
<1>7. ASSUME page.quiet PROVE OnlyOwn' /\ (~Editing => NotEditing)'
                              /\ (Editing /\ EditorLoads => Loading)'
                              /\ (Editing /\ ~EditorLoads => Replacing)'
  <2>1. /\ OnlyOwn /\ (~Editing => NotEditing) /\ (Editing /\ EditorLoads => Loading)
        /\ (Editing /\ ~EditorLoads => Replacing) /\ Editing' = Editing /\ EditorLoads' = EditorLoads
    BY <1>1, <1>7 DEF EditorInv, PageInv, Editing, EditorLoads
  <2>2. \A p \in OpIds : /\ Busy(p)' <=> Busy(p)
                         /\ ops'[p].kind = ops[p].kind /\ ops'[p].wallet = ops[p].wallet
                         /\ ops'[p].replacing = ops[p].replacing /\ ops'[p].attached = ops[p].attached
    BY <1>1 DEF Busy
  <2>3. OnlyOwn'
    <3>1. tx.wallet = account
      BY <1>1, <1>2, <2>1 DEF OnlyOwn, Busy
    <3>2. \A t \in mempool' : t.wallet = account'
      BY <1>1, <1>2, <2>1, <3>1 DEF OnlyOwn
    <3>3. \A p, q \in OpIds : Busy(p)' /\ Busy(q)' /\ ops'[p].kind = "submit" /\ ops'[q].kind = "submit" => p = q
      BY <2>1, <2>2 DEF OnlyOwn
    <3>4. \A p \in OpIds : Busy(p)' => ops'[p].attached /\ ops'[p].wallet = account'
      BY <1>1, <2>1, <2>2 DEF OnlyOwn
    <3>5. QED BY <1>1, <1>3, <2>1, <3>2, <3>3, <3>4 DEF OnlyOwn
  <2>4. ASSUME ~Editing PROVE NotEditing'
    BY <1>1, <2>1, <2>2, <2>4 DEF NotEditing
  <2>5. ASSUME Editing, EditorLoads PROVE Loading'
    <3>1. Loading /\ tx.call = "register"
      BY <1>1, <1>2, <2>1, <2>5 DEF Loading, EditorInv, OpInv, Busy
    <3>2. QED BY <1>1, <1>2, <1>3, <2>2, <3>1 DEF Loading
  <2>6. ASSUME Editing, ~EditorLoads PROVE Replacing'
    <3>1. Replacing
      BY <2>1, <2>6
    <3>2. \A p \in OpIds : HalfDone(p)' <=> HalfDone(p)
      BY <1>1 DEF HalfDone
    <3>3. \A p \in OpIds : ops[p].step # "check" => ops'[p].step # "check"
      BY <1>1
    <3>4. ASSUME NEW t \in mempool', t.call = "revoke", page.answered
          PROVE  WaitsFor(t.op, t)' /\ ops'[t.op].replacing
      <4>1. CASE t \in mempool
        <5>1. WaitsFor(t.op, t) /\ ops[t.op].replacing /\ t.op \in OpIds
          BY <3>1, <3>4, <4>1 DEF Replacing, QueueInv, ChainTypes, Txs
        <5>2. ops'[t.op] = ops[t.op]
          BY <1>1, <5>1 DEF WaitsFor
        <5>3. QED BY <5>1, <5>2 DEF WaitsFor
      <4>2. CASE t = tx
        <5>1. ops[o].kind # "register"
          BY <1>1, <1>2, <3>4, <4>2 DEF EditorInv, OpInv, Busy
        <5>2. ops[o].replacing
          BY <1>1, <3>1, <5>1 DEF Replacing, Busy
        <5>3. QED BY <1>1, <1>2, <4>2, <5>2 DEF WaitsFor
      <4>3. QED BY <1>2, <4>1, <4>2
    <3>5. \A p \in OpIds : ops'[p].confirmed = ops[p].confirmed
      BY <1>1
    <3>6. QED BY <1>1, <1>3, <2>2, <3>1, <3>2, <3>3, <3>4, <3>5 DEF Replacing
  <2>7. QED BY <2>1, <2>3, <2>4, <2>5, <2>6
<1>8. PageInv'
  BY <1>1, <1>7 DEF PageInv
<1>9. QED BY <1>4, <1>5, <1>6, <1>8 DEF EditorInv

LEMMA RevocationConfirmedKeepsEditor ==
  ASSUME QueueInv, EditorInv, NEW o \in OpIds, RevocationConfirmed(o)
  PROVE  EditorInv'
<1>1. /\ UNCHANGED <<chainVars, account>>
      /\ ops[o].step = "wait" /\ ops[o].receipt = "success"
      /\ ops[o].kind = "submit" /\ ops[o].call = "revoke"
      /\ \A p \in OpIds : p # o => ops'[p] = ops[p]
      /\ ops'[o].step = "queue" /\ ops'[o].receipt = "none" /\ ops'[o].call = "propose"
      /\ ops'[o].kind = ops[o].kind /\ ops'[o].wallet = ops[o].wallet
      /\ ops'[o].replacing = ops[o].replacing /\ ops'[o].confirmed
      /\ ops'[o].attached = ops[o].attached
      /\ page'.intent = page.intent /\ page'.completed = page.completed
      /\ page'.error = page.error /\ page'.quiet = page.quiet /\ page'.answered = page.answered
      /\ page'.load = page.load /\ page'.own = page.own /\ page'.found = page.found
      /\ page'.revoked = page.revoked \/ (ops[o].attached /\ page'.revoked)
  BY RevocationConfirmedFacts
<1>2. UNCHANGED <<proposals, mempool, mined>>
  BY <1>1 DEF chainVars, marketVars
<1>3. /\ ops[o].replacing /\ ops[o].nonce < mined[ops[o].wallet]
      /\ \A t \in mempool : t.op \in OpIds
  BY <1>1 DEF EditorInv, OpInv, Busy, QueueInv, ChainTypes, Txs
<1>4. OpInv'
  BY <1>1, <1>2 DEF EditorInv, OpInv, Busy
<1>5. TxInv'
  BY <1>1, <1>2, <1>3 DEF EditorInv, TxInv, WaitsFor
<1>6. OneActive'
  BY <1>2 DEF EditorInv, OneActive
<1>7. ASSUME page.quiet PROVE OnlyOwn' /\ (~Editing => NotEditing)'
                              /\ (Editing /\ EditorLoads => Loading)'
                              /\ (Editing /\ ~EditorLoads => Replacing)'
  <2>1. /\ OnlyOwn /\ (~Editing => NotEditing) /\ (Editing /\ EditorLoads => Loading)
        /\ (Editing /\ ~EditorLoads => Replacing) /\ Editing' = Editing /\ EditorLoads' = EditorLoads
    BY <1>1, <1>7 DEF EditorInv, PageInv, Editing, EditorLoads
  <2>2. \A p \in OpIds : /\ Busy(p)' <=> Busy(p)
                         /\ ops'[p].kind = ops[p].kind /\ ops'[p].wallet = ops[p].wallet
                         /\ ops'[p].replacing = ops[p].replacing /\ ops'[p].attached = ops[p].attached
    BY <1>1 DEF Busy
  <2>3. OnlyOwn'
    <3>1. \A p, q \in OpIds : Busy(p)' /\ Busy(q)' /\ ops'[p].kind = "submit" /\ ops'[q].kind = "submit" => p = q
      BY <2>1, <2>2 DEF OnlyOwn
    <3>2. \A p \in OpIds : Busy(p)' => ops'[p].attached /\ ops'[p].wallet = account'
      BY <1>1, <2>1, <2>2 DEF OnlyOwn
    <3>3. QED BY <1>1, <1>2, <2>1, <3>1, <3>2 DEF OnlyOwn
  <2>4. Editing
    BY <1>1, <1>3, <2>1 DEF NotEditing, Busy
  <2>5. ~EditorLoads
    BY <1>1, <2>1, <2>4 DEF Loading, Busy
  <2>6. Replacing'
    <3>1. Replacing
      BY <2>1, <2>4, <2>5
    <3>2. Busy(o) /\ HalfDone(o)
      BY <1>1 DEF Busy, HalfDone
    <3>3. proposals[page.own].status # "Active"
      BY <1>3, <3>1, <3>2 DEF Replacing
    <3>4. Busy(o)' /\ ops'[o].replacing /\ HalfDone(o)' /\ ops'[o].step # "check"
      BY <1>1, <1>3 DEF Busy, HalfDone
    <3>5. ASSUME NEW t \in mempool', t.call = "revoke", page'.answered
          PROVE  WaitsFor(t.op, t)' /\ ops'[t.op].replacing
      <4>1. WaitsFor(t.op, t) /\ ops[t.op].replacing /\ t \in mempool /\ t.op \in OpIds
        BY <1>1, <1>2, <1>3, <3>1, <3>5 DEF Replacing
      <4>2. t.op # o
        <5>1. t.nonce \in mined[t.wallet] .. PendingCount(t.wallet) - 1 /\ t.wallet \in Wallets
          BY <4>1 DEF QueueInv, NonceInv, ChainTypes, Txs
        <5>2. mined[t.wallet] \in Nat /\ PendingCount(t.wallet) \in Nat
          BY <5>1, PendingFacts DEF QueueInv
        <5>3. mined[t.wallet] <= t.nonce /\ t.nonce \in Int
          BY <5>1, <5>2
        <5>4. t.op = o => t.nonce < mined[t.wallet]
          BY <1>3, <4>1 DEF WaitsFor
        <5>5. QED BY <5>2, <5>3, <5>4
      <4>3. ops'[t.op] = ops[t.op]
        BY <1>1, <4>1, <4>2
      <4>4. QED BY <4>1, <4>3 DEF WaitsFor
    <3>6. \A p \in OpIds : Busy(p)' /\ ops'[p].kind # "register" => ops'[p].replacing
      BY <2>2, <3>1 DEF Replacing
    <3>7. proposals'[page'.own].status # "Active"
      BY <1>1, <1>2, <3>3
    <3>8. \A p \in OpIds : Busy(p)' /\ ops'[p].replacing => ops'[p].confirmed
      <4>1. ASSUME NEW p \in OpIds, Busy(p)', ops'[p].replacing PROVE p = o
        BY <1>1, <2>1, <2>2, <3>2, <4>1 DEF OnlyOwn, EditorInv, OpInv
      <4>2. QED BY <1>1, <4>1
    <3>9. page'.error = "none" => page'.answered
      BY <1>1, <3>1 DEF Replacing
    <3>10. QED BY <3>4, <3>5, <3>6, <3>7, <3>8, <3>9 DEF Replacing
  <2>7. QED BY <2>1, <2>3, <2>4, <2>5, <2>6
<1>8. PageInv'
  BY <1>1, <1>7 DEF PageInv
<1>9. QED BY <1>4, <1>5, <1>6, <1>8 DEF EditorInv

(* A handler comes to its end with what it set out for.                     *)
LEMMA SuccessKeepsEditor ==
  ASSUME QueueInv, EditorInv, NEW o \in OpIds, ProposalConfirmed(o) \/ RevokeConfirmed(o)
  PROVE  EditorInv'
<1>1. ChainTypes /\ PageTypes /\ OpTypes
  BY DEF QueueInv
<1>2. /\ UNCHANGED <<chainVars, account>> /\ ops[o].step = "wait"
      /\ ops'[o].step = "idle" /\ \A p \in OpIds : p # o => ops'[p] = ops[p]
  BY AnsweredEnds
<1>3. UNCHANGED <<proposals, mempool, mined>>
  BY <1>2 DEF chainVars, marketVars
<1>4. OpInv'
  BY <1>2, <1>3 DEF EditorInv, OpInv, Busy
<1>5. TxInv'
  <2>1. \A t \in mempool : t.op \in OpIds
    BY <1>1 DEF ChainTypes, Txs
  <2>2. QED BY <1>2, <1>3, <2>1 DEF EditorInv, TxInv, WaitsFor
<1>6. OneActive'
  BY <1>3 DEF EditorInv, OneActive
<1>7. ASSUME page'.quiet PROVE OnlyOwn' /\ (~Editing => NotEditing)'
                               /\ (Editing /\ EditorLoads => Loading)'
                               /\ (Editing /\ ~EditorLoads => Replacing)'
  <2>1. page.quiet
    BY <1>1, <1>7, ProposalConfirmedPage, RevokeConfirmedPage DEF Carries
  <2>2. /\ OnlyOwn /\ (~Editing => NotEditing) /\ (Editing /\ EditorLoads => Loading)
        /\ (Editing /\ ~EditorLoads => Replacing)
    BY <2>1 DEF EditorInv, PageInv
  <2>3. ops[o].attached
    BY <1>2, <2>2 DEF OnlyOwn, Busy
  <2>4. page'.load = "request" /\ page'.own \in {0, page.own}
    BY <1>1, <2>3, ProposalConfirmedPage, RevokeConfirmedPage
  <2>5. \A p \in OpIds : Busy(p)' => p # o /\ Busy(p) /\ ops'[p] = ops[p]
    BY <1>2 DEF Busy
  <2>6. OnlyOwn'
    <3>1. \A p \in OpIds : Busy(p)' => ops'[p].attached /\ ops'[p].wallet = account'
      BY <1>2, <2>2, <2>5 DEF OnlyOwn
    <3>2. \A p, q \in OpIds : Busy(p)' /\ Busy(q)' /\ ops'[p].kind = "submit" /\ ops'[q].kind = "submit" => p = q
      BY <2>2, <2>5 DEF OnlyOwn
    <3>3. QED BY <1>2, <1>3, <2>2, <2>4, <3>1, <3>2 DEF OnlyOwn
  <2>7. EditorLoads'
    BY <2>4 DEF EditorLoads
  <2>8. CASE ProposalConfirmed(o) /\ ops[o].replacing
    <3>1. page'.completed /\ page'.error = "none" /\ ~page'.revoked /\ ops[o].kind = "submit"
      BY <1>1, <2>3, <2>8, ProposalConfirmedPage
    <3>2. \A p \in OpIds : Busy(p)' => ~ops'[p].replacing
      BY <1>2, <2>2, <2>5, <3>1 DEF OnlyOwn, EditorInv, OpInv, Busy
    <3>3. ~Editing' /\ NotEditing'
      BY <3>1, <3>2 DEF Editing, NotEditing
    <3>4. QED BY <2>6, <3>3
  <2>9. CASE ~ops[o].replacing
    <3>1. page'.intent = page.intent /\ page'.completed = page.completed /\ ops[o].kind # "register"
      BY <1>1, <2>3, <2>9, ProposalConfirmedPage, RevokeConfirmedPage DEF Carries
    <3>2. ~Editing
      BY <1>2, <2>2, <2>9, <3>1 DEF Loading, Replacing, Busy
    <3>3. ~Editing'
      BY <3>1, <3>2 DEF Editing
    <3>4. ~page'.revoked /\ page'.error # "revoked"
      BY <1>1, <2>2, <2>3, <3>2, ProposalConfirmedPage, RevokeConfirmedPage DEF NotEditing, Carries
    <3>5. NotEditing'
      BY <2>2, <2>5, <3>2, <3>4 DEF NotEditing
    <3>6. QED BY <2>6, <3>3, <3>5
  <2>10. CASE RevokeConfirmed(o)
    <3>1. ops[o].kind = "revoke"
      BY <1>1, <2>10, RevokeConfirmedPage
    <3>2. ~ops[o].replacing
      BY <1>2, <3>1 DEF EditorInv, OpInv, Busy
    <3>3. QED BY <2>9, <3>2
  <2>11. QED BY <2>8, <2>9, <2>10
<1>8. PageInv'
  BY <1>7 DEF PageInv
<1>9. QED BY <1>4, <1>5, <1>6, <1>8 DEF EditorInv

LEMMA HandlersKeepEditor ==
  ASSUME QueueInv, EditorInv, NEW o \in OpIds,
         Check(o) \/ Prepare(o) \/ Confirm(o) \/ Refuse(o) \/ ReceiptTimesOut(o) \/ Answered(o)
  PROVE  EditorInv'
<1>1. ASSUME ops[o].step # "idle" PROVE Busy(o)
  BY <1>1 DEF Busy
<1>2. CASE Check(o)
  <2>1. /\ UNCHANGED <<chainVars, account>> /\ ops[o].step = "check"
        /\ \A p \in OpIds : p # o => ops'[p] = ops[p]
        /\ \/ ops'[o].step = "idle" /\ ops[o].kind = "submit" /\ Failed(o)
           \/ ops'[o].step = "idle" /\ UNCHANGED page
           \/ /\ UNCHANGED page /\ ops'[o].step = "queue" /\ ops'[o].receipt = "none"
              /\ ops'[o].call = FirstCall(ops[o])
              /\ ops'[o].kind = ops[o].kind /\ ops'[o].wallet = ops[o].wallet
              /\ ops'[o].replacing = ops[o].replacing /\ ops'[o].confirmed = ops[o].confirmed
              /\ ops'[o].attached = ops[o].attached
    BY <1>2, CheckFacts
  <2>2. Busy(o) /\ ops[o].kind # "register"
    BY <2>1 DEF Busy, EditorInv, OpInv
  <2>3. /\ FirstCall(ops[o]) # "register"
        /\ ops[o].kind = "submit" /\ FirstCall(ops[o]) = "revoke" => ops[o].replacing
        /\ FirstCall(ops[o]) = "revoke" => ~ops[o].confirmed
    BY <2>2 DEF FirstCall, EditorInv, OpInv
  <2>4. CASE ops'[o].step = "idle" /\ Failed(o)
    BY <2>1, <2>2, <2>4, FailKeepsEditor
  <2>5. CASE ops'[o].step = "idle" /\ UNCHANGED page
    BY <2>1, <2>2, <2>5, StepKeepsEditor
  <2>6. CASE UNCHANGED page /\ ops'[o].step = "queue" /\ ops'[o].call = FirstCall(ops[o])
    BY <2>1, <2>2, <2>3, <2>6, StepKeepsEditor
  <2>7. QED BY <2>1, <2>4, <2>5, <2>6
<1>3. CASE Prepare(o)
  <2>1. /\ UNCHANGED <<chainVars, account>> /\ ops[o].step = "queue"
        /\ \A p \in OpIds : p # o => ops'[p] = ops[p]
        /\ \/ ops'[o].step = "idle" /\ Failed(o)
           \/ /\ UNCHANGED page /\ ops'[o].step = "sign"
              /\ ops'[o].kind = ops[o].kind /\ ops'[o].wallet = ops[o].wallet
              /\ ops'[o].call = ops[o].call
              /\ ops'[o].replacing = ops[o].replacing /\ ops'[o].confirmed = ops[o].confirmed
              /\ ops'[o].attached = ops[o].attached
    BY <1>3, PrepareFacts
  <2>2. /\ Busy(o) /\ ops[o].kind = "register" <=> ops[o].call = "register"
        /\ ops[o].kind = "submit" /\ ops[o].call = "revoke" => ops[o].replacing
        /\ ops[o].call = "revoke" => ~ops[o].confirmed
    BY <2>1 DEF Busy, EditorInv, OpInv
  <2>3. CASE ops'[o].step = "idle" /\ Failed(o)
    BY <1>1, <2>1, <2>3, FailKeepsEditor
  <2>4. CASE UNCHANGED page /\ ops'[o].step = "sign"
    BY <1>1, <2>1, <2>2, <2>4, StepKeepsEditor
  <2>5. QED BY <2>1, <2>3, <2>4
<1>4. CASE Confirm(o)
  BY <1>4, ConfirmKeepsEditor
<1>5. CASE Refuse(o)
  <2>1. UNCHANGED <<chainVars, account>> /\ ops[o].step = "sign"
        /\ ops'[o].step = "idle" /\ Failed(o) /\ \A p \in OpIds : p # o => ops'[p] = ops[p]
    BY <1>5, RefuseFacts
  <2>2. QED BY <1>1, <2>1, FailKeepsEditor
<1>6. CASE ReceiptTimesOut(o) \/ Reverted(o)
  <2>1. UNCHANGED <<chainVars, account>> /\ ops[o].step = "wait"
        /\ ops'[o].step = "idle" /\ \A p \in OpIds : p # o => ops'[p] = ops[p]
    BY <1>6, AnsweredEnds
  <2>2. Failed(o)
    BY <1>6 DEF ReceiptTimesOut, Reverted, Fail
  <2>3. QED BY <1>1, <2>1, <2>2, FailKeepsEditor
<1>7. CASE RegistrationConfirmed(o)
  <2>1. UNCHANGED <<chainVars, account>> /\ ops[o].step = "wait"
        /\ ops'[o].step = "idle" /\ \A p \in OpIds : p # o => ops'[p] = ops[p]
    BY <1>7, AnsweredEnds
  <2>2. UNCHANGED page /\ ops[o].kind = "register"
    BY <1>7 DEF RegistrationConfirmed
  <2>3. QED BY <1>1, <2>1, <2>2, StepKeepsEditor
<1>8. CASE RevocationConfirmed(o)
  BY <1>8, RevocationConfirmedKeepsEditor
<1>9. CASE ProposalConfirmed(o) \/ RevokeConfirmed(o)
  BY <1>9, SuccessKeepsEditor
<1>10. QED BY <1>2, <1>3, <1>4, <1>5, <1>6, <1>7, <1>8, <1>9 DEF Answered

-----------------------------------------------------------------------------
(* A replacement that came to an end half way is told.                      *)

LEMMA EditorStarts == Init => EditorInv
<1> SUFFICES ASSUME Init PROVE EditorInv
  OBVIOUS
<1>1. mempool = {} /\ \A o \in OpIds : ~Busy(o)
  BY NoOpType DEF Init, Busy
<1>2. OneActive
  BY DEF Init, OneActive
<1>3. page.load = "request" /\ page.own = 0 /\ page.error = "none" /\ ~page.revoked /\ page.answered
  <2>1. ChainTypes /\ account \in Wallets
    BY QueueStarts DEF QueueInv, PageTypes
  <2>2. PICK intent \in {"propose", "edit", "resubmit"} : page = Opened(intent)
    BY DEF Init
  <2>3. QED BY <2>1, <2>2, OpenedType
<1>4. OpInv /\ TxInv
  BY <1>1 DEF OpInv, TxInv
<1>5. PageInv
  BY <1>1, <1>3 DEF PageInv, OnlyOwn, NotEditing, Loading, EditorLoads
<1>6. QED BY <1>2, <1>4, <1>5 DEF EditorInv

LEMMA EditorKept == QueueInv /\ EditorInv /\ [Next]_vars => EditorInv'
<1> SUFFICES ASSUME QueueInv, EditorInv, [Next]_vars PROVE EditorInv'
  OBVIOUS
<1>1. CASE UNCHANGED vars
  <2>1. UNCHANGED <<proposals, mempool, mined, account, page, ops>>
    BY <1>1 DEF vars, chainVars, marketVars
  <2>2. QED BY <2>1 DEF EditorInv, OpInv, TxInv, OneActive, PageInv, OnlyOwn, NotEditing, Loading,
                        Replacing, Editing, EditorLoads, Busy, HalfDone, WaitsFor
<1>2. CASE ShipperActs
  BY <1>2, ShipperActsKeepsEditor
<1>3. CASE \E tx \in mempool : Mine(tx)
  BY <1>3, MineKeepsEditor
<1>4. CASE \/ LoadRequest \/ LoadProposals \/ LoadPlan \/ CopyRejected
           \/ \E plan \in Plans : EditPlan(plan)
  BY <1>4, ReadsKeepEditor
<1>5. CASE \/ \E intent \in {"propose", "edit", "resubmit"} : OpenPage(intent)
           \/ \E w \in Wallets : AccountChanges(w)
  BY <1>5, TurnsKeepEditor
<1>6. CASE Submit \/ RevokeProposal \/ Register \/ CloseDialog
  BY <1>6, ClicksKeepEditor
<1>7. CASE \E o \in OpIds : \/ Check(o) \/ Prepare(o) \/ Confirm(o) \/ Refuse(o)
                            \/ ReceiptTimesOut(o) \/ Answered(o)
  BY <1>7, HandlersKeepEditor
<1>8. QED BY <1>1, <1>2, <1>3, <1>4, <1>5, <1>6, <1>7 DEF Next

LEMMA EditorInvariant == Spec => [](QueueInv /\ EditorInv)
<1>1. Init => QueueInv /\ EditorInv
  BY QueueStarts, EditorStarts
<1>2. QueueInv /\ EditorInv /\ [Next]_vars => (QueueInv /\ EditorInv)'
  BY QueueKept, EditorKept
<1>3. QED BY <1>1, <1>2, PTL DEF Spec

(* The two transactions of a replacement (ProposeMilestones.jsx): on a page *)
(* that nobody else interferes with, "the current proposal was revoked" is  *)
(* said only of a plan that is gone.  A carrier left without a plan by half *)
(* a replacement is told just that and offered the other half alone, if the *)
(* page learnt what became of the revocation; if not, an error is shown,    *)
(* but it may be the wrong one.                                             *)
THEOREM HalfDoneReplacementIsAlwaysTold == Spec => []HalfDoneReplacementIsTold
<1>1. EditorInv => HalfDoneReplacementIsTold
  <2> SUFFICES ASSUME EditorInv PROVE RevokedMessageIsTrue /\ InterruptedReplacementIsReported
    BY DEF HalfDoneReplacementIsTold
  <2>1. RevokedMessageIsTrue
    <3> SUFFICES ASSUME page.quiet, page.own # 0, page.revoked \/ page.error = "revoked"
                 PROVE  proposals[page.own].status # "Active"
      BY DEF RevokedMessageIsTrue
    <3>1. Editing /\ ~EditorLoads
      BY DEF EditorInv, PageInv, NotEditing, Loading
    <3>2. QED BY <3>1 DEF EditorInv, PageInv, Replacing
  <2>2. InterruptedReplacementIsReported
    <3> SUFFICES ASSUME Interrupted
                 PROVE  /\ page.error # "none"
                        /\ page.answered => page.error = "revoked" /\ page.revoked
      BY DEF InterruptedReplacementIsReported
    <3>1. Editing /\ ~EditorLoads
      BY ModeWhileEditing DEF Interrupted, EditorLoads
    <3>2. Replacing /\ proposals[page.own].status = "Revoked" /\ \A o \in OpIds : ~Busy(o)
      BY <3>1 DEF EditorInv, PageInv, Interrupted, Busy
    <3>3. page.answered => page.error = "revoked" /\ page.revoked
      BY <3>2 DEF Replacing
    <3>4. page.error = "none" => page.answered
      BY <3>2 DEF Replacing
    <3>5. QED BY <3>3, <3>4
  <2>3. QED BY <2>1, <2>2
<1>2. QED BY <1>1, EditorInvariant, PTL

=============================================================================
