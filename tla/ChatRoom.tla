------------------------------- MODULE ChatRoom -------------------------------
(***************************************************************************)
(* The chats of one delivery request on the page of its shipper             *)
(* (Messages.jsx, MessageComposer.jsx, MessageTimeline.jsx) and the API      *)
(* behind them (routes/chat.js, writabilityService.js).                     *)
(*                                                                          *)
(* There is one conversation per carrier that made a proposal.  What the    *)
(* page shows of the open one comes on four ways that nothing orders: the   *)
(* bubble put up before the message is sent, the answer of the API, the     *)
(* row pushed by the database, and a load of the whole conversation.        *)
(***************************************************************************)
EXTENDS Integers, Sequences, FiniteSets, SequencesExt

CONSTANTS
  Conversations,  \* one per carrier
  NoOne, Over,    \* no carrier is chosen yet; the delivery has ended
  Texts,          \* message contents
  MaxRows,        \* bound: stored messages
  MaxTurns        \* bound: sends, loads and changes of the conversation, together

ASSUME RoomAssumption ==
  /\ NoOne \notin Conversations /\ Over \notin Conversations /\ NoOne # Over
  /\ MaxRows \in Nat /\ MaxTurns \in Nat

VARIABLES
  chosen,         \* the chain: the carrier assigned to the request
  rows,           \* table messages; a row's message_id is its place
  post,           \* the POST /messages on its way
  view,           \* MessageTimeline of the open conversation
  appended,       \* timelineMessage of the page
  writable,       \* access.writable of the page
  accessReads,    \* conversations whose access is being asked for
  answered,       \* rows whose 201 the page has received
  left            \* what is left of MaxTurns

serverVars == <<chosen, rows>>
pageVars == <<view, appended, writable, accessReads, answered>>
vars == <<serverVars, post, pageVars, left>>

NoMessage == [conv |-> NoOne, id |-> 0, client |-> 0, mine |-> TRUE, text |-> "", status |-> "none"]

(* A row as the API and the database deliver it: without the client's id.   *)
RowMessage(r) ==
  [conv |-> rows[r].conv, id |-> r, client |-> 0, mine |-> rows[r].mine,
   text |-> rows[r].text, status |-> "none"]

NoPost == [step |-> "idle", message |-> NoMessage, open |-> TRUE, row |-> 0]

(* Before a carrier is accepted everyone who proposed may write, afterwards *)
(* the accepted one, after the end nobody.                                  *)
Writable(c) == chosen \in {NoOne, c}

-----------------------------------------------------------------------------
(* The timeline's list.                                                     *)

IsOptimistic(m) == m.status \in {"sending", "failed"}

(* Slip: a failed bubble is taken for the incoming row, too.                *)
CanReconcileFailed(candidate, incoming) ==
  IsOptimistic(candidate) /\ candidate.text = incoming.text /\ candidate.mine /\ incoming.mine

CanReconcileByContent(candidate, incoming) ==
  /\ candidate.status = "sending"
  /\ candidate.text = incoming.text
  /\ candidate.mine /\ incoming.mine

(* The place of the bubble a message belongs to, 0 if there is none: by id, *)
(* else by client id, else the last one that is still being sent.           *)
(* Slip: the ids alone.                                                     *)
PlaceById(messages, m) ==
  LET same == {i \in DOMAIN messages : messages[i].id = m.id}
  IN  IF same = {} THEN 0 ELSE Min(same)

PlaceOf(messages, m) ==
  LET byId      == {i \in DOMAIN messages : messages[i].id = m.id}
      byClient  == {i \in DOMAIN messages : m.client # 0 /\ messages[i].client = m.client}
      byContent == {i \in DOMAIN messages :
                      ~IsOptimistic(m) /\ CanReconcileByContent(messages[i], m)}
  IN  CASE byId # {}                                        -> Min(byId)
        [] byId = {} /\ byClient # {}                       -> Min(byClient)
        [] byId = {} /\ byClient = {} /\ byContent # {}     -> Max(byContent)
        [] OTHER                                            -> 0

Merged(existing, m) ==
  IF IsOptimistic(m) THEN m
  ELSE [m EXCEPT !.client = IF @ # 0 THEN @ ELSE existing.client, !.status = "sent"]

ReconcileMessageList(messages, m) ==
  LET i == PlaceOf(messages, m)
  IN  IF i = 0 THEN Append(messages, m) ELSE [messages EXCEPT ![i] = Merged(@, m)]

(* optimisticMessagesRef: what is sent or has failed outlives a load.       *)
Remembered(pending, m) ==
  LET place == {i \in DOMAIN pending : pending[i].client = m.client}
      matching == {i \in DOMAIN pending : CanReconcileByContent(pending[i], m)}
  IN  CASE IsOptimistic(m) /\ place = {} -> Append(pending, m)
        [] IsOptimistic(m) /\ place # {} ->
             [i \in DOMAIN pending |-> IF i \in place THEN m ELSE pending[i]]
        [] ~IsOptimistic(m) /\ matching # {} ->
             RemoveAt(pending, Min(matching))
        [] OTHER -> pending

(* Slip: whichever conversation the message is from.                        *)
UpsertedAnywhere(v, m) ==
  [v EXCEPT !.pending = Remembered(v.pending, m),
            !.messages = ReconcileMessageList(v.messages, m)]

Upserted(v, m) ==
  IF m.conv # v.conv THEN v
  ELSE [v EXCEPT !.pending = Remembered(v.pending, m),
                 !.messages = ReconcileMessageList(v.messages, m)]

(* A load of the conversation: what is shown meanwhile, and what is shown   *)
(* when the rows are there.                                                 *)
Loading(v) ==
  [v EXCEPT !.status = "loading", !.messages = v.pending, !.load = "reading", !.fetched = <<>>]

Loaded(v) ==
  LET Add(messages, m) == ReconcileMessageList(messages, m)
      bubbles == FoldLeft(Add, <<>>, v.pending)
  IN  [v EXCEPT !.status = "ready", !.load = "none", !.fetched = <<>>,
                !.messages = FoldLeft(Add, bubbles, v.fetched)]

LoadedNothing(v) ==
  [v EXCEPT !.status = "error", !.load = "none", !.fetched = <<>>, !.messages = <<>>]

(* The timeline is built anew for each conversation, and gets the message   *)
(* the page has appended last.                                              *)
Mounted(c) ==
  LET blank == [conv |-> c, status |-> "loading", messages |-> <<>>, pending |-> <<>>,
                load |-> "reading", fetched |-> <<>>, live |-> FALSE, stream |-> <<>>]
  IN  Upserted(blank, appended)

(* The conversations are alike, so it does not matter which one is opened.  *)
Init ==
  LET first == CHOOSE c \in Conversations : TRUE
  IN  /\ chosen = NoOne /\ rows = <<>> /\ post = NoPost
      /\ appended = NoMessage /\ writable = FALSE /\ answered = {}
      /\ view = Mounted(first) /\ accessReads = {first}
      /\ left = MaxTurns

TakeTurn == left > 0 /\ left' = left - 1

-----------------------------------------------------------------------------
(* The chain and the carrier's side.                                        *)

RequestMoves ==
  /\ \/ chosen = NoOne /\ chosen' \in Conversations
     \/ chosen # Over /\ chosen' = Over
  /\ UNCHANGED <<rows, post, pageVars, left>>

(* The database pushes a new row to whoever has subscribed by then.         *)
Pushed(v, c, r) == IF v.live /\ v.conv = c THEN [v EXCEPT !.stream = Append(@, r)] ELSE v

CarrierWrites(c, t) ==
  /\ Len(rows) < MaxRows /\ Writable(c)
  /\ rows' = Append(rows, [conv |-> c, mine |-> FALSE, text |-> t, open |-> TRUE])
  /\ view' = Pushed(view, c, Len(rows) + 1)
  /\ UNCHANGED <<chosen, post, appended, writable, accessReads, answered, left>>

-----------------------------------------------------------------------------
(* The page.                                                                *)

SelectConversation(c) ==
  /\ TakeTurn /\ c # view.conv
  /\ view' = Mounted(c) /\ writable' = FALSE /\ accessReads' = accessReads \cup {c}
  /\ UNCHANGED <<serverVars, post, appended, answered>>

(* The provider, the contracts or the account's case of letters changed.    *)
LoadTimeline ==
  /\ TakeTurn
  /\ view' = Loading(view)
  /\ UNCHANGED <<serverVars, post, appended, writable, accessReads, answered>>

GetConversationMessages ==
  /\ view.load = "reading"
  /\ \/ LET here == SelectSeq([i \in DOMAIN rows |-> i], LAMBDA r : rows[r].conv = view.conv)
        IN  view' = [view EXCEPT !.load = "read",
                                 !.fetched = [i \in DOMAIN here |-> RowMessage(here[i])]]
     \/ view' = [view EXCEPT !.load = "failed"]
  /\ UNCHANGED <<serverVars, post, appended, writable, accessReads, answered, left>>

(* The notices of the chain are there, too, and 220 ms have passed.         *)
FinishLoad ==
  /\ \/ view.load = "read" /\ view' = Loaded(view)
     \/ view.load = "failed" /\ view' = LoadedNothing(view)
  /\ UNCHANGED <<serverVars, post, appended, writable, accessReads, answered, left>>

Subscribed ==
  /\ ~view.live
  /\ view' = [view EXCEPT !.live = TRUE]
  /\ UNCHANGED <<serverVars, post, appended, writable, accessReads, answered, left>>

RealtimeInsert ==
  /\ view.stream # <<>>
  /\ view' = Upserted([view EXCEPT !.stream = Tail(@)], RowMessage(Head(view.stream)))
  /\ UNCHANGED <<serverVars, post, appended, writable, accessReads, answered, left>>

(* Whichever conversation is open by the time the answer comes.             *)
AccessAnswered(c) ==
  /\ c \in accessReads /\ accessReads' = accessReads \ {c}
  /\ writable' \in {Writable(c), FALSE}
  /\ UNCHANGED <<serverVars, post, view, appended, answered, left>>

(* One message at a time: the field is closed until the answer is there.    *)
HandleSend(t) ==
  LET bubble == [conv |-> view.conv, id |-> -left, client |-> -left, mine |-> TRUE,
                 text |-> t, status |-> "sending"]
  IN  /\ TakeTurn /\ writable /\ post.step = "idle"
      /\ post' = [step |-> "check", message |-> bubble, open |-> Writable(view.conv), row |-> 0]
      /\ appended' = bubble /\ view' = Upserted(view, bubble)
      /\ UNCHANGED <<serverVars, writable, accessReads, answered>>

-----------------------------------------------------------------------------
(* POST /messages: the chain is asked, then the row is written.             *)

CheckAccess ==
  IF Writable(post.message.conv) THEN post' = [post EXCEPT !.step = "insert"]
  ELSE post' = [post EXCEPT !.step = "refused"]

CheckConversationAccess ==
  /\ post.step = "check"
  /\ CheckAccess \/ post' = [post EXCEPT !.step = "refused"]
  /\ UNCHANGED <<serverVars, pageVars, left>>

InsertMessage ==
  /\ post.step = "insert"
  /\ \/ /\ Len(rows) < MaxRows
        /\ rows' = Append(rows, [conv |-> post.message.conv, mine |-> TRUE,
                                 text |-> post.message.text, open |-> post.open])
        /\ post' = [post EXCEPT !.step = "stored", !.row = Len(rows) + 1]
        /\ view' = Pushed(view, post.message.conv, Len(rows) + 1)
     \/ post' = [post EXCEPT !.step = "refused"] /\ UNCHANGED <<rows, view>>
  /\ UNCHANGED <<chosen, appended, writable, accessReads, answered, left>>

(* The handler is the one of the conversation the message was written in.   *)
HandleMessageSent ==
  LET m == [RowMessage(post.row) EXCEPT !.status = "sent"]
  IN  /\ post.step = "stored"
      /\ post' = NoPost /\ answered' = answered \cup {post.row}
      /\ appended' = m /\ view' = Upserted(view, m)
      /\ accessReads' = accessReads \cup {post.message.conv}
      /\ UNCHANGED <<serverVars, writable, left>>

FailedBubble == [post.message EXCEPT !.status = "failed"]

(* Refused, or stored and the answer is lost.                               *)
HandleMessageFailed ==
  /\ post.step \in {"refused", "stored"}
  /\ post' = NoPost
  /\ appended' = FailedBubble /\ view' = Upserted(view, FailedBubble)
  /\ UNCHANGED <<serverVars, writable, accessReads, answered, left>>

PostStep ==
  CheckConversationAccess \/ InsertMessage \/ HandleMessageSent \/ HandleMessageFailed

Next ==
  \/ RequestMoves
  \/ \E c \in Conversations, t \in Texts : CarrierWrites(c, t)
  \/ \E c \in Conversations : SelectConversation(c) \/ AccessAnswered(c)
  \/ LoadTimeline \/ GetConversationMessages \/ FinishLoad
  \/ Subscribed \/ RealtimeInsert
  \/ \E t \in Texts : HandleSend(t)
  \/ PostStep

Spec == Init /\ [][Next]_vars

-----------------------------------------------------------------------------
(* Properties.                                                              *)

(* "response + realtime delivery cannot leave two copies in the             *)
(* conversation" (MessageTimeline.jsx:354-356): in whichever order answer,  *)
(* push and load arrive, no row is there twice, nor beside the bubble it    *)
(* was sent with as long as that one is being sent; and once the composer   *)
(* is free again no bubble says "Sending...", also when the answer came     *)
(* while another conversation was open.                                     *)
EveryBubbleEndsOnce ==
  /\ \A i, j \in DOMAIN view.messages : i # j =>
       /\ view.messages[i].id # view.messages[j].id
       /\ ~(/\ post.step = "stored" /\ view.messages[i].id = post.row
            /\ view.messages[j].client = post.message.client
            /\ view.messages[j].status = "sending")
  /\ post.step = "idle" => \A i \in DOMAIN view.messages : view.messages[i].status # "sending"

(* What is on the screen belongs to the open conversation and is what its   *)
(* rows say, though answers and the appended message outlive a change.      *)
(* "Authoritative live access & writability check" (routes/chat.js:110):    *)
(* no message gets into a chat that was closed before it was even written,  *)
(* whatever the page took its access for.                                   *)
EveryMessageIsWhereItBelongs ==
  /\ \A i \in DOMAIN view.messages :
       LET m == view.messages[i]
       IN  /\ m.conv = view.conv
           /\ m.id > 0 => /\ rows[m.id].conv = view.conv
                          /\ rows[m.id].text = m.text /\ rows[m.id].mine = m.mine
  /\ \A r \in DOMAIN rows : rows[r].open

(* "A failed bubble is intentionally kept visible" (:332-334): no push, no  *)
(* answer and no load takes it away from the open conversation, and after a *)
(* load that failed the next one brings it back.                            *)
FailedBubblesStay ==
  [][\A i \in DOMAIN view.pending :
       (view.pending[i].status = "failed" /\ view'.conv = view.conv) =>
         /\ \E j \in DOMAIN view'.pending : view'.pending[j] = view.pending[i]
         /\ (view'.status = "ready" => \E j \in DOMAIN view'.messages : view'.messages[j] = view.pending[i])]_vars

(* The composer publishes its bubble "so a slow API or realtime connection  *)
(* never makes the composer feel like it swallowed a message".              *)
SentMessagesAreShown ==
  view.status = "ready" =>
    \A r \in answered : rows[r].conv = view.conv =>
      \E i \in DOMAIN view.messages : view.messages[i].id = r

=============================================================================
