-------------------------- MODULE EscrowRecords_proof --------------------------
(***************************************************************************)
(* The payment history explains where every CARGO of a request is, and the  *)
(* chats tell how it stands.  Both are read from events, the escrow decides *)
(* by its figures; that they say the same is an invariant of the log: the   *)
(* Ledger, for each request and each kind of money event, of what the log   *)
(* adds up to; the Story, for each request, of what was said, how often,    *)
(* and what was said last.  A carrier's reputation is read from both, and   *)
(* what is read once is read ever after.                                    *)
(*                                                                          *)
(*   I. Blocks.  What the events of a class add up to in a log, and that a  *)
(*      block adds to it what is booked in that block.                      *)
(*  II. The ledger, and what a block has to say for it to balance again.    *)
(* III. Every transaction writes down what it does to the figures.          *)
(*  IV. The ledger always balances.                                         *)
(*   V. What history and panel read out of the log is what the ledger says. *)
(*  VI. Whether something was said, once, and last, in a log with one block *)
(*      more.                                                               *)
(* VII. The story, and what a block has to say for it to be true again.     *)
(*VIII. That each part of it is told anew, or nothing is said of it.        *)
(*  IX. The transactions, one by one.                                       *)
(*   X. The story is always true.                                           *)
(*  XI. What the chats show is the story.                                   *)
(* XII. A shipment that is over was completed, expired, or ended by         *)
(*      agreement, and only one of them is on record.                       *)
(*XIII. The registry's totals are the ratings of completed deliveries.      *)
(* XIV. What is on record stays: deliveries on time, and payments seen.     *)
(***************************************************************************)
EXTENDS EscrowRecords, LifecycleManager_proof

-----------------------------------------------------------------------------
(* Part I.  Blocks.                                                         *)

Parties == Users \cup {Escrow, Manager, NoUser}

(* Events that are about no payment.                                        *)
QuietNames ==
  {"RequestCreated", "RequestCancelled", "RequestExpired", "RequestCompleted", "CarrierRated",
   "MilestonePlanProposed", "MilestonePlanRevoked", "MilestonePlanRejected",
   "MilestonePlanAccepted", "ProofSubmitted", "ProofWithdrawn", "MilestoneVerified",
   "MilestoneRejected", "MilestonePaid", "ShipmentDeadlineExtended",
   "AmendmentRequested", "AmendmentAccepted", "AmendmentRejected",
   "AmendmentWithdrawn", "AmendmentExpired", "AmendmentResponseAllowanceFunded",
   "AmendmentResponseReimbursed", "AmendmentResponseAllowanceRefunded",
   "CancellationRequested", "CancellationAccepted", "CancellationRejected",
   "CancellationWithdrawn", "CancellationExpired"}

EventNames == QuietNames \cup PaymentEvents

LogEvents ==
  [request : RequestIds, name : EventNames, party : Parties, amount : Nat, milestone : Int,
   approved : BOOLEAN, completedAt : Nat]

LEMMA EventsAreTyped ==
  ASSUME NEW r \in RequestIds, NEW name \in EventNames,
         NEW who \in Parties, NEW amount \in Nat, NEW m \in Int
  PROVE  /\ Event(r, name) \in LogEvents /\ Event(r, name).request = r
         /\ Event(r, name).name = name /\ Event(r, name).amount = 0
         /\ Of(r, name, who) \in LogEvents /\ Of(r, name, who).request = r
         /\ Of(r, name, who).name = name /\ Of(r, name, who).amount = 0
         /\ Of(r, name, who).party = who
         /\ Money(r, name, who, amount) \in LogEvents /\ Money(r, name, who, amount).request = r
         /\ Money(r, name, who, amount).name = name /\ Money(r, name, who, amount).party = who
         /\ Money(r, name, who, amount).amount = amount
         /\ Step(r, name, m) \in LogEvents /\ Step(r, name, m).request = r
         /\ Step(r, name, m).name = name /\ Step(r, name, m).amount = 0
<1>1. Event(r, name) \in LogEvents
  <2>1. NoUser \in Parties /\ -1 \in Int /\ 0 \in Nat
    BY DEF Parties
  <2>2. QED BY <2>1 DEF Event, LogEvents
<1>2. /\ Event(r, name).request = r /\ Event(r, name).name = name /\ Event(r, name).amount = 0
  BY DEF Event
<1>3. \A e \in LogEvents :
        LET given == [e EXCEPT !.party = who]
            dated == [e EXCEPT !.milestone = m]
            priced == [e EXCEPT !.amount = amount]
        IN  /\ given \in LogEvents /\ given.request = e.request /\ given.name = e.name
            /\ given.amount = e.amount /\ given.party = who
            /\ dated \in LogEvents /\ dated.request = e.request /\ dated.name = e.name
            /\ dated.amount = e.amount
            /\ priced \in LogEvents /\ priced.request = e.request /\ priced.name = e.name
            /\ priced.amount = amount /\ priced.party = e.party
  BY DEF LogEvents
<1>4. /\ Of(r, name, who) \in LogEvents /\ Of(r, name, who).request = r
      /\ Of(r, name, who).name = name /\ Of(r, name, who).amount = 0
      /\ Of(r, name, who).party = who
  BY <1>1, <1>2, <1>3 DEF Of
<1>5. /\ Step(r, name, m) \in LogEvents /\ Step(r, name, m).request = r
      /\ Step(r, name, m).name = name /\ Step(r, name, m).amount = 0
  BY <1>1, <1>2, <1>3 DEF Step
<1>6. /\ Money(r, name, who, amount) \in LogEvents /\ Money(r, name, who, amount).request = r
      /\ Money(r, name, who, amount).name = name /\ Money(r, name, who, amount).party = who
      /\ Money(r, name, who, amount).amount = amount
  BY <1>3, <1>4 DEF Money
<1>7. QED BY <1>1, <1>2, <1>4, <1>5, <1>6

(* Where in a log the events of a class are, and what they add up to.       *)
PlacesIn(l) == UNION {{b} \X DOMAIN l[b] : b \in 1 .. Len(l)}
FoundIn(l, K) == {p \in PlacesIn(l) : l[p[1]][p[2]] \in K}
AddsUp(l, K) == SumOver([p \in FoundIn(l, K) |-> l[p[1]][p[2]].amount])

(* What one event, and what a block, counts for a class.                    *)
Due(e, K) == IF e \in K THEN e.amount ELSE 0
Booked(block, K) == SumOver([i \in DOMAIN block |-> Due(block[i], K)])

LEMMA DueIsNat ==
  ASSUME NEW e \in LogEvents, NEW K
  PROVE  Due(e, K) \in Nat
BY DEF Due, LogEvents

LEMMA IsPlace ==
  ASSUME NEW l, NEW b \in 1 .. Len(l), NEW i \in DOMAIN l[b]
  PROVE  <<b, i>> \in PlacesIn(l)
BY DEF PlacesIn

LEMMA PlaceIs ==
  ASSUME NEW l, NEW p \in PlacesIn(l)
  PROVE  p = <<p[1], p[2]>> /\ p[1] \in 1 .. Len(l) /\ p[2] \in DOMAIN l[p[1]]
BY DEF PlacesIn

LEMMA PlacesFinite ==
  ASSUME NEW l \in Seq(Seq(LogEvents)), NEW K
  PROVE  IsFiniteSet(PlacesIn(l)) /\ IsFiniteSet(FoundIn(l, K))
<1> DEFINE B == 1 .. Len(l)
           f == [b \in B |-> {b} \X DOMAIN l[b]]
           T == {{b} \X DOMAIN l[b] : b \in B}
<1>1. IsFiniteSet(T)
  <2>1. f \in Surjection(B, T)
    BY DEF Surjection
  <2>2. IsFiniteSet(B)
    BY FS_Interval
  <2>3. QED BY <2>1, <2>2, FS_Surjection
<1>2. ASSUME NEW t \in T PROVE IsFiniteSet(t)
  <2>1. PICK b \in B : t = {b} \X DOMAIN l[b]
    OBVIOUS
  <2>2. l[b] \in Seq(LogEvents)
    OBVIOUS
  <2>3. Len(l[b]) \in Nat /\ DOMAIN l[b] = 1 .. Len(l[b])
    BY <2>2
  <2>4. IsFiniteSet(1 .. Len(l[b]))
    BY <2>3, FS_Interval
  <2>5. IsFiniteSet(DOMAIN l[b])
    BY <2>3, <2>4
  <2>6. IsFiniteSet({b})
    BY FS_Singleton
  <2>7. QED BY <2>1, <2>5, <2>6, FS_Product
<1> HIDE DEF T
<1>3. IsFiniteSet(UNION T)
  BY <1>1, <1>2, FS_UNION
<1>4. IsFiniteSet(PlacesIn(l))
  BY <1>3 DEF PlacesIn, T
<1>5. FoundIn(l, K) \in SUBSET PlacesIn(l)
  BY DEF FoundIn
<1>6. QED BY <1>4, <1>5, FS_Subset

LEMMA FoundIsEvent ==
  ASSUME NEW l \in Seq(Seq(LogEvents)), NEW p \in PlacesIn(l)
  PROVE  l[p[1]][p[2]] \in LogEvents
<1>1. p[1] \in 1 .. Len(l) /\ p[2] \in DOMAIN l[p[1]]
  BY PlaceIs
<1>2. l[p[1]] \in Seq(LogEvents)
  BY <1>1
<1>3. QED BY <1>1, <1>2

(* A log with one block more.                                               *)
LEMMA PlacesGrow ==
  ASSUME NEW l \in Seq(Seq(LogEvents)), NEW block \in Seq(LogEvents)
  PROVE  LET m == Append(l, block)
             n == Len(l) + 1
         IN  /\ m \in Seq(Seq(LogEvents)) /\ Len(m) = n /\ n \in Nat
             /\ m[n] = block /\ \A b \in 1 .. Len(l) : m[b] = l[b] /\ b < n
             /\ PlacesIn(m) = PlacesIn(l) \cup ({n} \X DOMAIN block)
             /\ PlacesIn(l) \cap ({n} \X DOMAIN block) = {}
             /\ \A p \in PlacesIn(l) : m[p[1]][p[2]] = l[p[1]][p[2]]
<1> DEFINE m == Append(l, block)
           n == Len(l) + 1
           T == {n} \X DOMAIN block
<1>1. /\ m \in Seq(Seq(LogEvents)) /\ Len(m) = n /\ n \in Nat /\ Len(l) \in Nat
      /\ m[n] = block /\ \A b \in 1 .. Len(l) : m[b] = l[b] /\ b < n
      /\ 1 .. n = 1 .. Len(l) \cup {n} /\ n \notin 1 .. Len(l) /\ n \in 1 .. n
  OBVIOUS
<1> HIDE DEF m, n
<1>2. ASSUME NEW p \in PlacesIn(l)
      PROVE  p \in PlacesIn(m) /\ p \notin T /\ m[p[1]][p[2]] = l[p[1]][p[2]]
  <2>1. p = <<p[1], p[2]>> /\ p[1] \in 1 .. Len(l) /\ p[2] \in DOMAIN l[p[1]]
    BY PlaceIs
  <2>2. p[1] \in 1 .. Len(m) /\ m[p[1]] = l[p[1]] /\ p[1] # n
    BY <1>1, <2>1
  <2>3. <<p[1], p[2]>> \in PlacesIn(m)
    BY <2>1, <2>2, IsPlace
  <2>4. QED BY <2>1, <2>2, <2>3
<1>3. ASSUME NEW p \in T PROVE p \in PlacesIn(m)
  <2>1. p = <<n, p[2]>> /\ p[2] \in DOMAIN m[n] /\ n \in 1 .. Len(m)
    BY <1>1
  <2>2. <<n, p[2]>> \in PlacesIn(m)
    BY <2>1, IsPlace
  <2>3. QED BY <2>1, <2>2
<1>4. ASSUME NEW p \in PlacesIn(m) PROVE p \in PlacesIn(l) \cup T
  <2>1. p = <<p[1], p[2]>> /\ p[1] \in 1 .. Len(m) /\ p[2] \in DOMAIN m[p[1]]
    BY PlaceIs
  <2>2. CASE p[1] = n
    BY <1>1, <2>1, <2>2
  <2>3. CASE p[1] # n
    <3>1. p[1] \in 1 .. Len(l) /\ p[2] \in DOMAIN l[p[1]]
      BY <1>1, <2>1, <2>3
    <3>2. <<p[1], p[2]>> \in PlacesIn(l)
      BY <3>1, IsPlace
    <3>3. QED BY <2>1, <3>2
  <2>4. QED BY <2>2, <2>3
<1> HIDE DEF T
<1>5. PlacesIn(m) = PlacesIn(l) \cup T /\ PlacesIn(l) \cap T = {}
  BY <1>2, <1>3, <1>4
<1>6. QED BY <1>1, <1>2, <1>5 DEF m, n, T

(* A block adds to what a class adds up to what is booked for the class.    *)
LEMMA AmountGrows ==
  ASSUME NEW l, l \in Seq(Seq(LogEvents)), NEW block, block \in Seq(LogEvents), NEW K
  PROVE  AddsUp(Append(l, block), K) = AddsUp(l, K) + Booked(block, K)
<1> DEFINE m == Append(l, block)
           n == Len(l) + 1
           D == {i \in DOMAIN block : block[i] \in K}
           S == FoundIn(l, K)
           T == {n} \X D
           U == FoundIn(m, K)
           f == [p \in U |-> m[p[1]][p[2]].amount]
           g == [p \in S |-> l[p[1]][p[2]].amount]
           h == [p \in T |-> block[p[2]].amount]
           amounts == [i \in D |-> block[i].amount]
           second == [p \in T |-> p[2]]
<1>1. /\ m \in Seq(Seq(LogEvents)) /\ n \in Nat /\ m[n] = block
      /\ PlacesIn(m) = PlacesIn(l) \cup ({n} \X DOMAIN block)
      /\ PlacesIn(l) \cap ({n} \X DOMAIN block) = {}
      /\ \A p \in PlacesIn(l) : m[p[1]][p[2]] = l[p[1]][p[2]]
  BY PlacesGrow
<1>2. \A e \in LogEvents : e.amount \in Nat
  BY DEF LogEvents
<1>3. \A i \in DOMAIN block : block[i] \in LogEvents
  OBVIOUS
<1>4. IsFiniteSet(S) /\ IsFiniteSet(U)
  BY <1>1, PlacesFinite
<1> HIDE DEF m, n
<1>5. U = S \cup T
  <2>1. \A p \in {n} \X DOMAIN block : p[1] = n /\ m[p[1]][p[2]] = block[p[2]]
    BY <1>1
  <2>2. {p \in {n} \X DOMAIN block : block[p[2]] \in K} = T
    OBVIOUS
  <2> HIDE DEF T
  <2>3. U = {p \in PlacesIn(l) : m[p[1]][p[2]] \in K}
              \cup {p \in {n} \X DOMAIN block : m[p[1]][p[2]] \in K}
    BY <1>1 DEF FoundIn
  <2>4. {p \in PlacesIn(l) : m[p[1]][p[2]] \in K} = S
    BY <1>1 DEF FoundIn
  <2>5. {p \in {n} \X DOMAIN block : m[p[1]][p[2]] \in K} = T
    BY <2>1, <2>2
  <2>6. QED BY <2>3, <2>4, <2>5
<1>6. S \subseteq PlacesIn(l) /\ T \subseteq {n} \X DOMAIN block
  BY DEF FoundIn
<1>7. S \cap T = {}
  <2> HIDE DEF S, T
  <2>1. QED BY <1>1, <1>6
<1>8. IsFiniteSet(T)
  <2>1. T \in SUBSET U
    <3> HIDE DEF T, U, S
    <3>1. QED BY <1>5
  <2>2. QED BY <1>4, <2>1, FS_Subset
<1>9. g \in [S -> Nat]
  <2>1. \A p \in S : l[p[1]][p[2]] \in LogEvents
    BY <1>6, FoundIsEvent
  <2>2. \A p \in S : l[p[1]][p[2]].amount \in Nat
    BY <1>2, <2>1
  <2> HIDE DEF S
  <2>3. QED BY <2>2
<1>10. amounts \in [D -> Nat]
  <2>1. \A i \in D : block[i].amount \in Nat
    BY <1>2, <1>3
  <2> HIDE DEF D
  <2>2. QED BY <2>1
<1>11. second \in Bijection(T, D)
  <2>1. second \in [T -> D]
    OBVIOUS
  <2>2. \A x, y \in T : second[x] = second[y] => x = y
    OBVIOUS
  <2>3. \A i \in D : <<n, i>> \in T /\ second[<<n, i>>] = i
    OBVIOUS
  <2> HIDE DEF second, T, D
  <2>4. QED BY <2>1, <2>2, <2>3 DEF Bijection, Injection, IsInjective, Surjection
<1>12. h = [p \in T |-> amounts[second[p]]]
  OBVIOUS
<1>13. h \in [T -> Nat]
  BY <1>10
<1>14. SumOver(h) = SumOver(amounts)
  <2> HIDE DEF amounts, second, T, D, h
  <2>1. IsFiniteSet(T) /\ amounts \in [D -> Nat] /\ second \in Bijection(T, D)
    BY <1>8, <1>10, <1>11
  <2>2. SumOver([x \in T |-> amounts[second[x]]]) = SumOver(amounts)
    BY ONLY <2>1, SumRenamed
  <2>3. QED BY <1>12, <2>2
<1>15. SumOver(amounts) = Booked(block, K)
  <2>1. D \in SUBSET DOMAIN block
    OBVIOUS
  <2>2. [i \in DOMAIN block |-> IF i \in D THEN amounts[i] ELSE 0]
          = [i \in DOMAIN block |-> Due(block[i], K)]
    BY DEF Due
  <2> HIDE DEF D, amounts
  <2>3. SumOver([x \in DOMAIN block |-> IF x \in D THEN amounts[x] ELSE 0]) = SumOver(amounts)
    BY ONLY <1>10, <2>1, SumExtended
  <2>4. QED BY <2>2, <2>3 DEF Booked
<1>16. \A x \in S : f[x] = g[x]
  <2>1. \A x \in S : x \in U /\ x \in PlacesIn(l)
    <3> HIDE DEF S, U, T
    <3>1. QED BY <1>5, <1>6
  <2> HIDE DEF S, U
  <2>2. QED BY <1>1, <2>1
<1>17. \A x \in T : f[x] = h[x]
  <2>1. \A x \in T : x \in U
    <3> HIDE DEF S, U, T
    <3>1. QED BY <1>5
  <2>2. \A x \in T : x[1] = n
    OBVIOUS
  <2> HIDE DEF U, T
  <2>3. QED BY <1>1, <2>1, <2>2
<1>18. f \in [U -> Nat]
  <2>1. \A x \in U : f[x] = m[x[1]][x[2]].amount
    OBVIOUS
  <2>2. \A x \in U : x \in PlacesIn(m)
    BY DEF FoundIn
  <2>3. \A x \in U : m[x[1]][x[2]] \in LogEvents
    <3> HIDE DEF U
    <3>1. QED BY <1>1, <2>2, FoundIsEvent
  <2>4. f = [x \in U |-> f[x]]
    OBVIOUS
  <2> HIDE DEF U, f
  <2>5. QED BY <1>2, <2>1, <2>3, <2>4
<1>19. SumOver(f) = SumOver(g) + SumOver(h)
  <2> HIDE DEF S, T, U, f, g, h
  <2>1. IsFiniteSet(S)
    BY <1>4
  <2>2. IsFiniteSet(T)
    BY <1>8
  <2>3. QED
    BY ONLY <2>1, <2>2, <1>5, <1>7, <1>9, <1>13, <1>16, <1>17, <1>18, SumOfUnion
<1>20. SumOver(f) = AddsUp(m, K) /\ SumOver(g) = AddsUp(l, K)
  BY DEF AddsUp
<1> HIDE DEF f, g, h
<1>21. QED BY <1>14, <1>15, <1>19, <1>20 DEF m

LEMMA AmountIsNat ==
  ASSUME NEW l \in Seq(Seq(LogEvents)), NEW K
  PROVE  AddsUp(l, K) \in Nat
<1> DEFINE S == FoundIn(l, K)
           g == [p \in S |-> l[p[1]][p[2]].amount]
<1>1. \A p \in S : l[p[1]][p[2]] \in LogEvents
  BY FoundIsEvent DEF FoundIn
<1>2. g \in [S -> Nat]
  <2> HIDE DEF S
  <2>1. QED BY <1>1 DEF LogEvents
<1>3. IsFiniteSet(S)
  BY PlacesFinite
<1> HIDE DEF S, g
<1>4. SumOver(g) \in Nat
  BY <1>2, <1>3, SumIsNat
<1>5. QED BY <1>4 DEF AddsUp, g, S

-----------------------------------------------------------------------------
(* What is booked in a block, event by event.                               *)

LEMMA BookedIsNat ==
  ASSUME NEW block \in Seq(LogEvents), NEW K
  PROVE  Booked(block, K) \in Nat
<1>1. [i \in DOMAIN block |-> Due(block[i], K)] \in [DOMAIN block -> Nat]
  BY DueIsNat
<1>2. IsFiniteSet(DOMAIN block)
  BY FS_Interval
<1>3. QED BY <1>1, <1>2, SumIsNat DEF Booked

LEMMA BookedNothing ==
  ASSUME NEW block, NEW K, \A i \in DOMAIN block : Due(block[i], K) = 0
  PROVE  Booked(block, K) = 0
<1>1. [i \in DOMAIN block |-> Due(block[i], K)] = [i \in DOMAIN block |-> 0]
  OBVIOUS
<1>2. QED BY <1>1, SumOfZeros DEF Booked

LEMMA BookedLonger ==
  ASSUME NEW block \in Seq(LogEvents), NEW longer \in Seq(LogEvents), NEW K,
         Len(longer) = Len(block) + 1,
         \A i \in 1 .. Len(block) : longer[i] = block[i]
  PROVE  Booked(longer, K) = Booked(block, K) + Due(longer[Len(longer)], K)
<1> DEFINE f == [i \in DOMAIN longer |-> Due(longer[i], K)]
<1>1. PICK n \in Nat : n = Len(block)
  OBVIOUS
<1>2. DOMAIN block = 1 .. n /\ DOMAIN longer = 1 .. n + 1 /\ Len(longer) = n + 1
  BY <1>1
<1>3. \A i \in 1 .. n : longer[i] = block[i]
  BY <1>1
<1>4. f \in [1 .. n + 1 -> Nat]
  <2>1. \A i \in DOMAIN longer : longer[i] \in LogEvents
    OBVIOUS
  <2>2. \A i \in DOMAIN longer : Due(longer[i], K) \in Nat
    BY <2>1, DueIsNat
  <2>3. QED BY <1>2, <2>2
<1>5. [i \in 1 .. n |-> f[i]] = [i \in DOMAIN block |-> Due(block[i], K)]
  BY <1>2, <1>3
<1>6. f[n + 1] = Due(longer[Len(longer)], K)
  BY <1>2
<1>7. SumOver(f) = Booked(longer, K)
  BY DEF Booked
<1> HIDE DEF f
<1>8. SumOver(f) = SumOver([i \in 1 .. n |-> f[i]]) + f[n + 1]
  BY <1>4, SumOfOneMore
<1>9. SumOver([i \in 1 .. n |-> f[i]]) = Booked(block, K)
  BY <1>5 DEF Booked
<1>10. QED BY <1>6, <1>7, <1>8, <1>9

LEMMA BookedOne ==
  ASSUME NEW e \in LogEvents, NEW K
  PROVE  <<e>> \in Seq(LogEvents) /\ Booked(<<e>>, K) = Due(e, K)
<1>1. <<>> \in Seq(LogEvents) /\ <<e>> \in Seq(LogEvents)
  OBVIOUS
<1>2. Booked(<<>>, K) = 0
  BY BookedNothing
<1>3. Len(<<e>>) = Len(<<>>) + 1 /\ <<e>>[Len(<<e>>)] = e
      /\ \A i \in 1 .. Len(<<>>) : <<e>>[i] = <<>>[i]
  OBVIOUS
<1>4. Booked(<<e>>, K) = Booked(<<>>, K) + Due(<<e>>[Len(<<e>>)], K)
  BY ONLY <1>1, <1>3, BookedLonger
<1>5. Due(e, K) \in Nat
  BY DueIsNat
<1>6. QED BY <1>1, <1>2, <1>3, <1>4, <1>5

LEMMA BookedTwo ==
  ASSUME NEW a \in LogEvents, NEW b \in LogEvents, NEW K
  PROVE  /\ <<a, b>> \in Seq(LogEvents)
         /\ Booked(<<a, b>>, K) = Due(a, K) + Due(b, K)
<1>1. <<a>> \in Seq(LogEvents) /\ <<a, b>> \in Seq(LogEvents)
  OBVIOUS
<1>2. Booked(<<a>>, K) = Due(a, K)
  BY BookedOne
<1>3. Len(<<a, b>>) = Len(<<a>>) + 1 /\ <<a, b>>[Len(<<a, b>>)] = b
      /\ \A i \in 1 .. Len(<<a>>) : <<a, b>>[i] = <<a>>[i]
  OBVIOUS
<1>4. Booked(<<a, b>>, K) = Booked(<<a>>, K) + Due(<<a, b>>[Len(<<a, b>>)], K)
  BY ONLY <1>1, <1>3, BookedLonger
<1>5. QED BY <1>1, <1>2, <1>3, <1>4

LEMMA BookedThree ==
  ASSUME NEW a \in LogEvents, NEW b \in LogEvents, NEW c \in LogEvents, NEW K
  PROVE  /\ <<a, b, c>> \in Seq(LogEvents)
         /\ Booked(<<a, b, c>>, K) = Due(a, K) + Due(b, K) + Due(c, K)
<1>1. <<a, b>> \in Seq(LogEvents) /\ <<a, b, c>> \in Seq(LogEvents)
  OBVIOUS
<1>2. Booked(<<a, b>>, K) = Due(a, K) + Due(b, K)
  BY BookedTwo
<1>3. Len(<<a, b, c>>) = Len(<<a, b>>) + 1 /\ <<a, b, c>>[Len(<<a, b, c>>)] = c
      /\ \A i \in 1 .. Len(<<a, b>>) : <<a, b, c>>[i] = <<a, b>>[i]
  OBVIOUS
<1>4. Booked(<<a, b, c>>, K) = Booked(<<a, b>>, K) + Due(<<a, b, c>>[Len(<<a, b, c>>)], K)
  BY ONLY <1>1, <1>3, BookedLonger
<1>5. QED BY <1>1, <1>2, <1>3, <1>4

LEMMA BookedBoth ==
  ASSUME NEW a \in Seq(LogEvents), NEW b \in Seq(LogEvents), NEW K
  PROVE  /\ a \o b \in Seq(LogEvents)
         /\ Booked(a \o b, K) = Booked(a, K) + Booked(b, K)
<1> DEFINE f == [i \in DOMAIN (a \o b) |-> Due((a \o b)[i], K)]
<1>1. PICK n \in Nat, k \in Nat : n = Len(a) /\ k = Len(b)
  OBVIOUS
<1>2. a \o b \in Seq(LogEvents) /\ DOMAIN (a \o b) = 1 .. n + k
      /\ DOMAIN a = 1 .. n /\ DOMAIN b = 1 .. k
  BY <1>1
<1>3. /\ \A i \in 1 .. n : (a \o b)[i] = a[i]
      /\ \A j \in 1 .. k : (a \o b)[n + j] = b[j] /\ n + j \in 1 .. n + k
  BY <1>1
<1>4. \A i \in DOMAIN (a \o b) : (a \o b)[i] \in LogEvents
  BY <1>2
<1>5. f \in [1 .. n + k -> Nat]
  <2>1. \A i \in DOMAIN (a \o b) : Due((a \o b)[i], K) \in Nat
    BY <1>4, DueIsNat
  <2>2. QED BY <1>2, <2>1
<1>6. [i \in 1 .. n |-> f[i]] = [i \in DOMAIN a |-> Due(a[i], K)]
  BY <1>2, <1>3
<1>7. [j \in 1 .. k |-> f[n + j]] = [j \in DOMAIN b |-> Due(b[j], K)]
  BY <1>2, <1>3
<1>8. SumOver(f) = Booked(a \o b, K)
  BY DEF Booked
<1> HIDE DEF f
<1>9. SumOver(f) = SumOver([i \in 1 .. n |-> f[i]]) + SumOver([j \in 1 .. k |-> f[n + j]])
  BY <1>5, SumOfBoth
<1>10. /\ SumOver([i \in 1 .. n |-> f[i]]) = Booked(a, K)
       /\ SumOver([j \in 1 .. k |-> f[n + j]]) = Booked(b, K)
  BY <1>6, <1>7 DEF Booked
<1>11. QED BY <1>2, <1>8, <1>9, <1>10

LEMMA BookedIfAny ==
  ASSUME NEW e \in LogEvents, NEW K
  PROVE  IfAny(e) \in Seq(LogEvents) /\ Booked(IfAny(e), K) = Due(e, K)
<1>1. CASE e.amount > 0
  BY <1>1, BookedOne DEF IfAny
<1>2. CASE ~(e.amount > 0)
  <2>1. IfAny(e) = <<>> /\ IfAny(e) \in Seq(LogEvents)
    BY <1>2 DEF IfAny
  <2>2. Due(e, K) = 0
    BY <1>2 DEF Due, LogEvents
  <2>3. Booked(IfAny(e), K) = 0
    BY <2>1, BookedNothing
  <2>4. QED BY <2>1, <2>2, <2>3
<1>3. QED BY <1>1, <1>2

-----------------------------------------------------------------------------
(* Part II.  The ledger: what was written down is what the figures say.     *)

(* The events of one kind about a request, and what was paid to somebody.   *)
NamedOf(q, name) == {e \in LogEvents : e.request = q /\ e.name = name}
PaidOutNames == {"PaymentReleased", "CarrierTipped"}
PaidTo(q, w) ==
  {e \in LogEvents : e.request = q /\ e.name \in PaidOutNames /\ e.party = w}

Written(q, name) == AddsUp(log, NamedOf(q, name))
WrittenTo(q, w) == AddsUp(log, PaidTo(q, w))

(* What the carrier of a request got, by its figures.                       *)
Earned(q) == requests[q].releasedAmount + tipAmounts[q]

Ledger(q) ==
  /\ Written(q, "EscrowFunded") = requests[q].totalAmount
  /\ Written(q, "PaymentReleased") = requests[q].releasedAmount
  /\ Written(q, "RefundIssued") = requests[q].refundedAmount
  /\ Written(q, "OperationalAllowanceFunded") = requests[q].operationalAllowance
  /\ Written(q, "OperationalAllowanceReimbursed") + Written(q, "OperationalAllowanceRefunded")
       = requests[q].operationalSpent
  /\ Active(q) => Written(q, "OperationalAllowanceRefunded") = 0
  /\ \A w \in Parties : WrittenTo(q, w) = IF w = requests[q].carrier THEN Earned(q) ELSE 0
  /\ WasFunded(requests[q]) => requests[q].proposedAmount <= requests[q].totalAmount

(* What a block says of one request, and that it says what happened to it.  *)
Says(q, es, name) == Booked(es, NamedOf(q, name))

Explained(q, es) ==
  /\ requests'[q].totalAmount = requests[q].totalAmount + Says(q, es, "EscrowFunded")
  /\ requests'[q].releasedAmount = requests[q].releasedAmount + Says(q, es, "PaymentReleased")
  /\ requests'[q].refundedAmount = requests[q].refundedAmount + Says(q, es, "RefundIssued")
  /\ requests'[q].operationalAllowance
       = requests[q].operationalAllowance + Says(q, es, "OperationalAllowanceFunded")
  /\ requests'[q].operationalSpent
       = requests[q].operationalSpent + Says(q, es, "OperationalAllowanceReimbursed")
           + Says(q, es, "OperationalAllowanceRefunded")
  /\ Active(q)' => /\ Says(q, es, "OperationalAllowanceRefunded") = 0
                   /\ Active(q) \/ requests[q].operationalSpent = 0
  /\ \A w \in Parties :
       Booked(es, PaidTo(q, w)) = IF w = requests'[q].carrier THEN Earned(q)' - Earned(q) ELSE 0
  /\ requests'[q].carrier = requests[q].carrier \/ Earned(q) = 0
  /\ WasFunded(requests'[q]) =>
       \/ requests'[q].proposedAmount <= requests'[q].totalAmount
       \/ /\ WasFunded(requests[q]) /\ requests'[q].proposedAmount = requests[q].proposedAmount
          /\ requests'[q].totalAmount >= requests[q].totalAmount

LEMMA RequestFigures ==
  ASSUME NEW request \in Requests
  PROVE  /\ request.totalAmount \in Nat /\ request.releasedAmount \in Nat
         /\ request.refundedAmount \in Nat /\ request.operationalAllowance \in Nat
         /\ request.operationalSpent \in Nat /\ request.proposedAmount \in Nat
BY DEF Requests

LEMMA LedgerKept ==
  ASSUME NEW q \in RequestIds, requests[q] \in Requests, requests'[q] \in Requests,
         tipAmounts[q] \in Nat, tipAmounts'[q] \in Nat,
         log \in Seq(Seq(LogEvents)), NEW es \in Seq(LogEvents), log' = Append(log, es),
         Ledger(q), Explained(q, es)
  PROVE  Ledger(q)'
<1>1. ASSUME NEW K PROVE /\ AddsUp(log', K) = AddsUp(log, K) + Booked(es, K)
                         /\ AddsUp(log, K) \in Nat /\ Booked(es, K) \in Nat
  BY AmountGrows, AmountIsNat, BookedIsNat
<1>2. ASSUME NEW name
      PROVE  /\ Written(q, name)' = Written(q, name) + Says(q, es, name)
             /\ Written(q, name) \in Nat /\ Says(q, es, name) \in Nat
  BY <1>1 DEF Written, Says
<1>3. ASSUME NEW w
      PROVE  /\ WrittenTo(q, w)' = WrittenTo(q, w) + Booked(es, PaidTo(q, w))
             /\ WrittenTo(q, w) \in Nat /\ Booked(es, PaidTo(q, w)) \in Nat
  BY <1>1 DEF WrittenTo
<1>4. /\ requests[q].totalAmount \in Nat /\ requests[q].releasedAmount \in Nat
      /\ requests[q].refundedAmount \in Nat /\ requests[q].operationalAllowance \in Nat
      /\ requests[q].operationalSpent \in Nat /\ requests[q].proposedAmount \in Nat
      /\ requests'[q].totalAmount \in Nat /\ requests'[q].releasedAmount \in Nat
      /\ requests'[q].proposedAmount \in Nat
  BY RequestFigures
<1>5. Earned(q) \in Nat /\ Earned(q)' \in Nat
  <2>1. Earned(q)' = requests'[q].releasedAmount + tipAmounts'[q]
    BY DEF Earned
  <2>2. Earned(q)' \in Nat
    BY <2>1, <1>4
  <2>3. Earned(q) \in Nat
    BY <1>4 DEF Earned
  <2>4. QED BY <2>2, <2>3
<1>6. /\ Written(q, "EscrowFunded")' = requests'[q].totalAmount
      /\ Written(q, "PaymentReleased")' = requests'[q].releasedAmount
      /\ Written(q, "RefundIssued")' = requests'[q].refundedAmount
      /\ Written(q, "OperationalAllowanceFunded")' = requests'[q].operationalAllowance
  BY <1>2 DEF Ledger, Explained
<1>7. Written(q, "OperationalAllowanceReimbursed")' + Written(q, "OperationalAllowanceRefunded")'
        = requests'[q].operationalSpent
  <2>1. /\ Written(q, "OperationalAllowanceReimbursed") + Written(q, "OperationalAllowanceRefunded")
             = requests[q].operationalSpent
        /\ requests'[q].operationalSpent
             = requests[q].operationalSpent + Says(q, es, "OperationalAllowanceReimbursed")
                 + Says(q, es, "OperationalAllowanceRefunded")
    BY DEF Ledger, Explained
  <2>2. QED BY <2>1, <1>2, <1>4
<1>8. Active(q)' => Written(q, "OperationalAllowanceRefunded")' = 0
  <2>1. ASSUME Active(q)' PROVE Written(q, "OperationalAllowanceRefunded")' = 0
    <3>1. /\ Says(q, es, "OperationalAllowanceRefunded") = 0
          /\ Active(q) \/ requests[q].operationalSpent = 0
      BY <2>1 DEF Explained
    <3>2. /\ Written(q, "OperationalAllowanceReimbursed") + Written(q, "OperationalAllowanceRefunded")
               = requests[q].operationalSpent
          /\ Active(q) => Written(q, "OperationalAllowanceRefunded") = 0
      BY DEF Ledger
    <3>3. Written(q, "OperationalAllowanceRefunded") = 0
      BY <3>1, <3>2, <1>2
    <3>4. QED BY <3>1, <3>3, <1>2
  <2>2. QED BY <2>1
<1>9. ASSUME NEW w \in Parties
      PROVE  WrittenTo(q, w)' = IF w = requests'[q].carrier THEN Earned(q)' ELSE 0
  <2>1. /\ WrittenTo(q, w) = IF w = requests[q].carrier THEN Earned(q) ELSE 0
        /\ Booked(es, PaidTo(q, w)) = IF w = requests'[q].carrier THEN Earned(q)' - Earned(q) ELSE 0
        /\ requests'[q].carrier = requests[q].carrier \/ Earned(q) = 0
    BY DEF Ledger, Explained
  <2>2. QED BY <2>1, <1>3, <1>5
<1>10. WasFunded(requests'[q]) => requests'[q].proposedAmount <= requests'[q].totalAmount
  BY <1>4 DEF Ledger, Explained
<1>11. QED BY <1>6, <1>7, <1>8, <1>9, <1>10 DEF Ledger

(* A block that is silent about the money of a request.                     *)
Silent(q) == {e \in LogEvents : e.request # q \/ e.name \notin PaymentEvents}

LEMMA NothingSaid ==
  ASSUME NEW q, NEW es \in Seq(Silent(q))
  PROVE  /\ es \in Seq(LogEvents)
         /\ \A name \in PaymentEvents : Says(q, es, name) = 0
         /\ \A w : Booked(es, PaidTo(q, w)) = 0
<1>1. \A i \in DOMAIN es : es[i] \in Silent(q)
  OBVIOUS
<1>2. es \in Seq(LogEvents)
  <2>1. Silent(q) \subseteq LogEvents
    BY DEF Silent
  <2> HIDE DEF Silent
  <2>2. QED BY <2>1
<1>3. ASSUME NEW name \in PaymentEvents PROVE Says(q, es, name) = 0
  <2>1. \A i \in DOMAIN es : Due(es[i], NamedOf(q, name)) = 0
    BY <1>1 DEF Due, NamedOf, Silent
  <2>2. QED BY <2>1, BookedNothing DEF Says
<1>4. ASSUME NEW w PROVE Booked(es, PaidTo(q, w)) = 0
  <2>1. PaidOutNames \subseteq PaymentEvents
    BY DEF PaidOutNames, PaymentEvents
  <2>2. \A i \in DOMAIN es : Due(es[i], PaidTo(q, w)) = 0
    BY <1>1, <2>1 DEF Due, PaidTo, Silent
  <2>3. QED BY <2>2, BookedNothing
<1>5. QED BY <1>2, <1>3, <1>4

(* ... says what happened to it when nothing did.                           *)
Untouched(q) ==
  /\ requests'[q].totalAmount = requests[q].totalAmount
  /\ requests'[q].releasedAmount = requests[q].releasedAmount
  /\ requests'[q].refundedAmount = requests[q].refundedAmount
  /\ requests'[q].operationalAllowance = requests[q].operationalAllowance
  /\ requests'[q].operationalSpent = requests[q].operationalSpent
  /\ requests'[q].carrier = requests[q].carrier /\ tipAmounts'[q] = tipAmounts[q]
  /\ Active(q)' => Active(q)
  /\ WasFunded(requests'[q]) =>
       WasFunded(requests[q]) /\ requests'[q].proposedAmount = requests[q].proposedAmount

LEMMA SilenceExplains ==
  ASSUME NEW q \in RequestIds, requests[q] \in Requests, tipAmounts[q] \in Nat,
         NEW es \in Seq(Silent(q)), Untouched(q)
  PROVE  Explained(q, es)
<1>1. /\ Says(q, es, "EscrowFunded") = 0 /\ Says(q, es, "PaymentReleased") = 0
      /\ Says(q, es, "RefundIssued") = 0 /\ Says(q, es, "OperationalAllowanceFunded") = 0
      /\ Says(q, es, "OperationalAllowanceReimbursed") = 0
      /\ Says(q, es, "OperationalAllowanceRefunded") = 0
  BY NothingSaid DEF PaymentEvents
<1>2. \A w \in Parties : Booked(es, PaidTo(q, w)) = 0
  BY NothingSaid
<1>3. /\ requests[q].totalAmount \in Nat /\ requests[q].releasedAmount \in Nat
      /\ requests[q].refundedAmount \in Nat /\ requests[q].operationalAllowance \in Nat
      /\ requests[q].operationalSpent \in Nat /\ requests[q].proposedAmount \in Nat
  BY RequestFigures
<1>4. Earned(q)' = Earned(q) /\ Earned(q) \in Nat
  BY <1>3 DEF Earned, Untouched
<1>5. \A w \in Parties :
        Booked(es, PaidTo(q, w)) = IF w = requests'[q].carrier THEN Earned(q)' - Earned(q) ELSE 0
  BY <1>2, <1>4
<1>6. QED BY <1>1, <1>3, <1>5 DEF Explained, Untouched

-----------------------------------------------------------------------------
(* Blocks about one request.                                                *)

EventsOf(r) == {e \in LogEvents : e.request = r}
QuietOf(r) == {e \in EventsOf(r) : e.name \notin PaymentEvents}

LEMMA BlocksOf ==
  ASSUME NEW r, NEW a \in Seq(EventsOf(r)), NEW b \in Seq(EventsOf(r))
  PROVE  /\ a \in Seq(LogEvents) /\ a \o b \in Seq(EventsOf(r))
         /\ \A name : Says(r, a \o b, name) = Says(r, a, name) + Says(r, b, name)
         /\ \A w : Booked(a \o b, PaidTo(r, w)) = Booked(a, PaidTo(r, w)) + Booked(b, PaidTo(r, w))
         /\ \A name : Says(r, a, name) \in Nat
         /\ \A w : Booked(a, PaidTo(r, w)) \in Nat
<1>1. a \in Seq(LogEvents) /\ b \in Seq(LogEvents)
  <2>1. EventsOf(r) \subseteq LogEvents
    BY DEF EventsOf
  <2> HIDE DEF EventsOf
  <2>2. QED BY <2>1
<1>2. a \o b \in Seq(EventsOf(r))
  OBVIOUS
<1>3. ASSUME NEW K PROVE Booked(a \o b, K) = Booked(a, K) + Booked(b, K) /\ Booked(a, K) \in Nat
  BY <1>1, BookedBoth, BookedIsNat
<1>4. QED BY <1>1, <1>2, <1>3 DEF Says

LEMMA QuietBlock ==
  ASSUME NEW r, NEW es \in Seq(QuietOf(r))
  PROVE  /\ es \in Seq(EventsOf(r)) /\ es \in Seq(Silent(r))
         /\ \A name \in PaymentEvents : Says(r, es, name) = 0
         /\ \A w : Booked(es, PaidTo(r, w)) = 0
<1>1. QuietOf(r) \subseteq EventsOf(r) /\ QuietOf(r) \subseteq Silent(r)
  BY DEF QuietOf, EventsOf, Silent
<1>2. es \in Seq(EventsOf(r)) /\ es \in Seq(Silent(r))
  <2> HIDE DEF QuietOf, EventsOf, Silent
  <2>1. QED BY <1>1
<1>3. QED BY <1>2, NothingSaid

(* One money event.                                                         *)
LEMMA OneSaid ==
  ASSUME NEW r, NEW e \in EventsOf(r)
  PROVE  /\ <<e>> \in Seq(EventsOf(r)) /\ IfAny(e) \in Seq(EventsOf(r))
         /\ \A name : /\ Says(r, <<e>>, name) = IF e.name = name THEN e.amount ELSE 0
                      /\ Says(r, IfAny(e), name) = IF e.name = name THEN e.amount ELSE 0
         /\ \A w : /\ Booked(<<e>>, PaidTo(r, w))
                        = IF e.name \in PaidOutNames /\ e.party = w THEN e.amount ELSE 0
                   /\ Booked(IfAny(e), PaidTo(r, w))
                        = IF e.name \in PaidOutNames /\ e.party = w THEN e.amount ELSE 0
<1>1. e \in LogEvents /\ e.request = r
  BY DEF EventsOf
<1>2. <<e>> \in Seq(EventsOf(r)) /\ IfAny(e) \in Seq(EventsOf(r))
  BY DEF IfAny
<1>3. ASSUME NEW K PROVE Booked(<<e>>, K) = Due(e, K) /\ Booked(IfAny(e), K) = Due(e, K)
  BY <1>1, BookedOne, BookedIfAny
<1>4. \A name : Due(e, NamedOf(r, name)) = IF e.name = name THEN e.amount ELSE 0
  BY <1>1 DEF Due, NamedOf
<1>5. \A w : Due(e, PaidTo(r, w)) = IF e.name \in PaidOutNames /\ e.party = w THEN e.amount ELSE 0
  BY <1>1 DEF Due, PaidTo
<1>6. QED BY <1>2, <1>3, <1>4, <1>5 DEF Says

LEMMA QuietNamesAreNoPayments ==
  ASSUME NEW n \in QuietNames
  PROVE  n \in EventNames /\ n \notin PaymentEvents
<1>1. \A p \in PaymentEvents : p \notin QuietNames
  BY DEF QuietNames, PaymentEvents
<1>2. QED BY <1>1 DEF EventNames

LEMMA QuietIs ==
  ASSUME NEW r, NEW e \in LogEvents, e.request = r, e.name \in QuietNames
  PROVE  e \in QuietOf(r) /\ <<e>> \in Seq(QuietOf(r)) /\ IfAny(e) \in Seq(QuietOf(r))
<1>1. e \in QuietOf(r)
  BY QuietNamesAreNoPayments DEF QuietOf, EventsOf
<1> HIDE DEF QuietOf
<1>2. QED BY <1>1 DEF IfAny

LEMMA QuietEvent ==
  ASSUME NEW r \in RequestIds, NEW n \in QuietNames
  PROVE  Event(r, n) \in QuietOf(r) /\ <<Event(r, n)>> \in Seq(QuietOf(r))
<1>1. n \in EventNames /\ NoUser \in Parties /\ 0 \in Nat /\ 0 \in Int
  BY QuietNamesAreNoPayments DEF Parties
<1>2. Event(r, n) \in LogEvents /\ Event(r, n).request = r /\ Event(r, n).name = n
  BY <1>1, EventsAreTyped
<1>3. QED BY <1>2, QuietIs

LEMMA QuietParty ==
  ASSUME NEW r \in RequestIds, NEW n \in QuietNames, NEW who \in Parties
  PROVE  Of(r, n, who) \in QuietOf(r) /\ <<Of(r, n, who)>> \in Seq(QuietOf(r))
<1>1. n \in EventNames /\ 0 \in Nat /\ 0 \in Int
  BY QuietNamesAreNoPayments
<1>2. Of(r, n, who) \in LogEvents /\ Of(r, n, who).request = r /\ Of(r, n, who).name = n
  BY <1>1, EventsAreTyped
<1>3. QED BY <1>2, QuietIs

LEMMA QuietStep ==
  ASSUME NEW r \in RequestIds, NEW n \in QuietNames, NEW m \in Int
  PROVE  Step(r, n, m) \in QuietOf(r) /\ <<Step(r, n, m)>> \in Seq(QuietOf(r))
<1>1. n \in EventNames /\ NoUser \in Parties /\ 0 \in Nat
  BY QuietNamesAreNoPayments DEF Parties
<1>2. Step(r, n, m) \in LogEvents /\ Step(r, n, m).request = r /\ Step(r, n, m).name = n
  BY <1>1, EventsAreTyped
<1>3. QED BY <1>2, QuietIs

LEMMA QuietMoney ==
  ASSUME NEW r \in RequestIds, NEW n \in QuietNames, NEW who \in Parties, NEW amount \in Nat
  PROVE  IfAny(Money(r, n, who, amount)) \in Seq(QuietOf(r))
<1>1. n \in EventNames /\ 0 \in Int
  BY QuietNamesAreNoPayments
<1>2. /\ Money(r, n, who, amount) \in LogEvents /\ Money(r, n, who, amount).request = r
      /\ Money(r, n, who, amount).name = n
  BY <1>1, EventsAreTyped
<1>3. QED BY <1>2, QuietIs

(* What a block about one request leaves to say of the others.              *)
OthersKept(r) ==
  \A q \in RequestIds : q # r => requests'[q] = requests[q] /\ tipAmounts'[q] = tipAmounts[q]

Recorded(es) ==
  /\ es \in Seq(LogEvents) /\ log' = Append(log, es)
  /\ \A q \in RequestIds : Explained(q, es)

LEMMA RecordedOfOne ==
  ASSUME IInv, NEW r \in RequestIds, NEW es \in Seq(EventsOf(r)), log' = Append(log, es),
         Explained(r, es), OthersKept(r)
  PROVE  Recorded(es)
<1>1. es \in Seq(LogEvents)
  BY BlocksOf
<1>2. ASSUME NEW q \in RequestIds, q # r PROVE Explained(q, es)
  <2>1. EventsOf(r) \subseteq Silent(q)
    BY <1>2 DEF EventsOf, Silent
  <2>2. es \in Seq(Silent(q))
    <3> HIDE DEF EventsOf, Silent
    <3>1. QED BY <2>1
  <2>3. requests[q] \in Requests /\ tipAmounts[q] \in Nat
    BY DEF IInv, RequestsOK, ClockOK
  <2>4. requests'[q] = requests[q] /\ tipAmounts'[q] = tipAmounts[q]
    BY <1>2 DEF OthersKept
  <2>5. Untouched(q)
    BY <2>4 DEF Untouched, Active
  <2>6. QED BY <2>2, <2>3, <2>5, SilenceExplains
<1>3. QED BY <1>1, <1>2 DEF Recorded

LEMMA QuietlyRecorded ==
  ASSUME IInv, NEW r \in RequestIds, NEW es \in Seq(QuietOf(r)), log' = Append(log, es),
         Untouched(r), OthersKept(r)
  PROVE  Recorded(es)
<1>1. es \in Seq(EventsOf(r)) /\ es \in Seq(Silent(r))
  BY QuietBlock
<1>2. requests[r] \in Requests /\ tipAmounts[r] \in Nat
  BY DEF IInv, RequestsOK, ClockOK
<1>3. Explained(r, es)
  BY <1>1, <1>2, SilenceExplains
<1>4. QED BY <1>1, <1>3, RecordedOfOne

-----------------------------------------------------------------------------
(* Part III.  Every transaction writes down what it does.                   *)

LEMMA EmitAppends ==
  ASSUME NEW es, Emit(es) \/ EmitEnd(es)
  PROVE  log' = Append(log, es)
BY DEF Emit, EmitEnd

LEMMA RequestsStand ==
  ASSUME NEW r, UNCHANGED <<requests, tipAmounts>>
  PROVE  Untouched(r) /\ OthersKept(r)
BY DEF Untouched, OthersKept, Active

LEMMA CreateRecorded ==
  ASSUME IInv, NEW u \in Users, NEW deadline \in Deadlines, NEW amount \in Amounts,
         CreateRequest(u, deadline, amount), Emit(<<Event(nextRequestId, "RequestCreated")>>)
  PROVE  \E es : Recorded(es)
<1>1. PICK r \in RequestIds : /\ r = nextRequestId /\ requests[r] = NoRequest
                             /\ requests \in [RequestIds -> Requests]
  <2>1. nextRequestId \in 1 .. MaxRequests + 1 /\ nextRequestId <= MaxRequests
    BY DEF IInv, MarketOK, CreateRequest
  <2>2. nextRequestId \in RequestIds /\ nextRequestId >= nextRequestId
    BY <2>1, NumberAssumption DEF RequestIds
  <2>3. QED BY <2>2 DEF IInv, RequestsOK
<1> DEFINE es == <<Event(r, "RequestCreated")>>
<1>2. /\ requests' = [requests EXCEPT ![r] =
           [NoRequest EXCEPT !.shipper = u, !.deadline = deadline, !.proposedAmount = amount]]
      /\ tipAmounts' = tipAmounts
  BY <1>1 DEF CreateRequest
<1>3. es \in Seq(QuietOf(r)) /\ log' = Append(log, es)
  BY <1>1, QuietEvent, EmitAppends DEF QuietNames
<1> HIDE DEF es
<1>4. Untouched(r)
  <2>1. requests'[r] = [NoRequest EXCEPT !.shipper = u, !.deadline = deadline, !.proposedAmount = amount]
    BY <1>1, <1>2
  <2>2. /\ requests'[r].totalAmount = 0 /\ requests'[r].releasedAmount = 0
        /\ requests'[r].refundedAmount = 0 /\ requests'[r].operationalAllowance = 0
        /\ requests'[r].operationalSpent = 0 /\ requests'[r].carrier = NoUser
        /\ requests'[r].status = "Open"
    BY <2>1 DEF NoRequest
  <2>3. /\ requests[r].totalAmount = 0 /\ requests[r].releasedAmount = 0
        /\ requests[r].refundedAmount = 0 /\ requests[r].operationalAllowance = 0
        /\ requests[r].operationalSpent = 0 /\ requests[r].carrier = NoUser
    BY <1>1 DEF NoRequest
  <2>4. ~Active(r)' /\ ~WasFunded(requests'[r])
    BY <2>2 DEF Active, WasFunded
  <2>5. tipAmounts'[r] = tipAmounts[r]
    BY <1>2
  <2>6. QED BY ONLY <2>2, <2>3, <2>4, <2>5 DEF Untouched
<1>5. OthersKept(r)
  BY <1>1, <1>2 DEF OthersKept
<1>6. QED BY <1>1, <1>3, <1>4, <1>5, QuietlyRecorded

LEMMA ProposalsRecorded ==
  ASSUME IInv, NEW r \in RequestIds,
         \/ \E u \in Carriers :
              \/ \E plan \in Plans :
                   ProposeMilestones(u, r, plan) /\ Emit(<<Of(r, "MilestonePlanProposed", u)>>)
              \/ RevokeMilestoneProposal(u, r) /\ Emit(<<Of(r, "MilestonePlanRevoked", u)>>)
         \/ \E p \in 1 .. MaxProposals :
              RejectMilestoneProposal(r, p)
                /\ Emit(<<Of(r, "MilestonePlanRejected", proposals[r][p].carrier)>>)
         \/ CancelRequest(r) /\ Emit(<<Event(r, "RequestCancelled")>>)
  PROVE  \E es : Recorded(es)
<1>1. \A u \in Carriers : u \in Users /\ u \in Parties
  BY RecordsAssumption DEF Parties
<1>2. ASSUME NEW u \in Carriers, NEW plan \in Plans,
             ProposeMilestones(u, r, plan), Emit(<<Of(r, "MilestonePlanProposed", u)>>)
      PROVE  \E es : Recorded(es)
  <2>1. <<Of(r, "MilestonePlanProposed", u)>> \in Seq(QuietOf(r))
    BY <1>1, QuietParty DEF QuietNames
  <2>2. UNCHANGED <<requests, tipAmounts>>
    BY <1>2 DEF ProposeMilestones
  <2>3. QED BY <1>2, <2>1, <2>2, EmitAppends, RequestsStand, QuietlyRecorded
<1>3. ASSUME NEW u \in Carriers,
             RevokeMilestoneProposal(u, r), Emit(<<Of(r, "MilestonePlanRevoked", u)>>)
      PROVE  \E es : Recorded(es)
  <2>1. <<Of(r, "MilestonePlanRevoked", u)>> \in Seq(QuietOf(r))
    BY <1>1, QuietParty DEF QuietNames
  <2>2. UNCHANGED <<requests, tipAmounts>>
    BY <1>3 DEF RevokeMilestoneProposal
  <2>3. QED BY <1>3, <2>1, <2>2, EmitAppends, RequestsStand, QuietlyRecorded
<1>4. ASSUME NEW p \in 1 .. MaxProposals, RejectMilestoneProposal(r, p),
             Emit(<<Of(r, "MilestonePlanRejected", proposals[r][p].carrier)>>)
      PROVE  \E es : Recorded(es)
  <2>1. proposals[r][p].carrier \in Parties
    <3>1. p \in DOMAIN proposals[r] /\ proposals[r] \in Seq(Proposals)
      BY <1>4 DEF RejectMilestoneProposal, IInv, MarketOK
    <3>2. proposals[r][p] \in Proposals
      BY <3>1
    <3>3. QED BY <3>2 DEF Proposals, Parties
  <2>2. <<Of(r, "MilestonePlanRejected", proposals[r][p].carrier)>> \in Seq(QuietOf(r))
    BY <2>1, QuietParty DEF QuietNames
  <2>3. UNCHANGED <<requests, tipAmounts>>
    BY <1>4 DEF RejectMilestoneProposal
  <2>4. QED BY <1>4, <2>2, <2>3, EmitAppends, RequestsStand, QuietlyRecorded
<1>5. ASSUME CancelRequest(r), Emit(<<Event(r, "RequestCancelled")>>)
      PROVE  \E es : Recorded(es)
  <2>1. <<Event(r, "RequestCancelled")>> \in Seq(QuietOf(r))
    BY QuietEvent DEF QuietNames
  <2>2. requests' = [requests EXCEPT ![r].status = "Cancelled"] /\ tipAmounts' = tipAmounts
    BY <1>5 DEF CancelRequest
  <2>3. requests \in [RequestIds -> Requests]
    BY Figures
  <2>4. OthersKept(r)
    BY <2>2, <2>3 DEF OthersKept
  <2>5. /\ requests'[r].totalAmount = requests[r].totalAmount
        /\ requests'[r].releasedAmount = requests[r].releasedAmount
        /\ requests'[r].refundedAmount = requests[r].refundedAmount
        /\ requests'[r].operationalAllowance = requests[r].operationalAllowance
        /\ requests'[r].operationalSpent = requests[r].operationalSpent
        /\ requests'[r].carrier = requests[r].carrier /\ requests'[r].status = "Cancelled"
    BY <2>2, <2>3 DEF Requests
  <2>6. Untouched(r)
    BY <2>2, <2>5 DEF Untouched, Active, WasFunded
  <2>7. QED BY <1>5, <2>1, <2>4, <2>6, EmitAppends, QuietlyRecorded
<1>6. QED BY <1>2, <1>3, <1>4, <1>5

(* Proofs taken back and rejected move no money.                            *)
LEMMA RejectedNoticed ==
  ASSUME NEW r \in RequestIds, NEW m \in MilestoneIds
  PROVE  <<[Step(r, "MilestoneVerified", m) EXCEPT !.approved = FALSE],
           Step(r, "MilestoneRejected", m)>> \in Seq(QuietOf(r))
<1>1. m \in Int
  BY DEF MilestoneIds
<1>2. Step(r, "MilestoneVerified", m) \in QuietOf(r) /\ Step(r, "MilestoneRejected", m) \in QuietOf(r)
  BY <1>1, QuietStep DEF QuietNames
<1>3. \A e \in LogEvents : /\ [e EXCEPT !.approved = FALSE] \in LogEvents
                           /\ [e EXCEPT !.approved = FALSE].request = e.request
                           /\ [e EXCEPT !.approved = FALSE].name = e.name
  BY DEF LogEvents
<1>4. \A e \in QuietOf(r) : [e EXCEPT !.approved = FALSE] \in QuietOf(r)
  BY <1>3 DEF QuietOf, EventsOf
<1> HIDE DEF QuietOf
<1>5. [Step(r, "MilestoneVerified", m) EXCEPT !.approved = FALSE] \in QuietOf(r)
  BY <1>2, <1>4
<1>6. QED BY <1>2, <1>5

LEMMA ReviewsRecorded ==
  ASSUME IInv, NEW r \in RequestIds, NEW m \in MilestoneIds,
         \/ WithdrawProof(r, m) /\ Emit(<<Step(r, "ProofWithdrawn", m)>>)
         \/ \E n \in 1 .. MaxVersion :
              /\ RejectMilestone(r, m, n)
              /\ Emit(<<[Step(r, "MilestoneVerified", m) EXCEPT !.approved = FALSE],
                        Step(r, "MilestoneRejected", m)>>)
  PROVE  \E es : Recorded(es)
<1>1. CASE WithdrawProof(r, m) /\ Emit(<<Step(r, "ProofWithdrawn", m)>>)
  <2>1. m \in Int
    BY DEF MilestoneIds
  <2>2. <<Step(r, "ProofWithdrawn", m)>> \in Seq(QuietOf(r))
    BY <2>1, QuietStep DEF QuietNames
  <2>3. UNCHANGED <<requests, tipAmounts>>
    BY <1>1 DEF WithdrawProof
  <2>4. QED BY <1>1, <2>2, <2>3, EmitAppends, RequestsStand, QuietlyRecorded
<1>2. ASSUME NEW n, RejectMilestone(r, m, n),
             Emit(<<[Step(r, "MilestoneVerified", m) EXCEPT !.approved = FALSE],
                    Step(r, "MilestoneRejected", m)>>)
      PROVE  \E es : Recorded(es)
  <2>1. UNCHANGED <<requests, tipAmounts>>
    BY <1>2 DEF RejectMilestone
  <2> DEFINE es == <<[Step(r, "MilestoneVerified", m) EXCEPT !.approved = FALSE],
                     Step(r, "MilestoneRejected", m)>>
  <2>2. es \in Seq(QuietOf(r)) /\ log' = Append(log, es)
    BY <1>2, RejectedNoticed, EmitAppends
  <2> HIDE DEF es
  <2>3. QED BY <2>1, <2>2, RequestsStand, QuietlyRecorded
<1>3. QED BY <1>1, <1>2

(* An amendment puts in what was agreed.                                    *)
LEMMA AmendsExplained ==
  ASSUME IInv, NEW r \in RequestIds, NEW newDeadline \in Deadlines,
         NEW existing \in Fundings(r), NEW additions \in Additions(r), NEW operational \in Nat,
         Amends(r, newDeadline, existing, additions, operational),
         NEW es \in Seq(EventsOf(r)),
         Says(r, es, "EscrowFunded") = Allocated(existing, additions),
         Says(r, es, "OperationalAllowanceFunded") = operational,
         Says(r, es, "PaymentReleased") = 0, Says(r, es, "RefundIssued") = 0,
         Says(r, es, "OperationalAllowanceReimbursed") = 0,
         Says(r, es, "OperationalAllowanceRefunded") = 0,
         \A w : Booked(es, PaidTo(r, w)) = 0
  PROVE  Explained(r, es) /\ OthersKept(r)
<1> DEFINE old == requests[r]
           funding == Allocated(existing, additions)
<1>1. /\ Active(r) /\ tipAmounts' = tipAmounts
      /\ requests' = [requests EXCEPT ![r].deadline = newDeadline,
                                      ![r].totalAmount = @ + funding,
                                      ![r].operationalAllowance = @ + operational]
  BY DEF Amends, FinalizeAmendment
<1>2. funding \in Nat
  BY AllocatedIsNat
<1> HIDE DEF funding
<1>3. requests \in [RequestIds -> Requests]
  BY Figures
<1>4. /\ requests'[r].operationalAllowance = old.operationalAllowance + operational
      /\ requests'[r].operationalSpent = old.operationalSpent
      /\ requests'[r].totalAmount = old.totalAmount + funding
      /\ requests'[r].releasedAmount = old.releasedAmount
      /\ requests'[r].refundedAmount = old.refundedAmount
      /\ requests'[r].status = old.status
      /\ requests'[r].proposedAmount = old.proposedAmount
      /\ requests'[r].carrier = old.carrier
  BY <1>1, <1>3 DEF Requests
<1>5. OthersKept(r)
  BY <1>1, <1>3 DEF OthersKept
<1>6. /\ old.totalAmount \in Nat /\ old.releasedAmount \in Nat
      /\ old.refundedAmount \in Nat /\ old.operationalAllowance \in Nat
      /\ old.operationalSpent \in Nat /\ old.proposedAmount \in Nat
  BY <1>3, RequestFigures
<1>7. Earned(r) \in Nat /\ Earned(r)' = Earned(r)
  BY <1>1, <1>4, <1>6 DEF Earned, IInv, ClockOK
<1>8. WasFunded(old)
  BY <1>1 DEF Active, WasFunded
<1>9. \A w \in Parties :
        Booked(es, PaidTo(r, w)) = IF w = requests'[r].carrier THEN Earned(r)' - Earned(r) ELSE 0
  BY <1>7
<1>10. funding = Says(r, es, "EscrowFunded")
  BY DEF funding
<1>11. Explained(r, es)
  <2>1. /\ requests'[r].totalAmount = requests[r].totalAmount + Says(r, es, "EscrowFunded")
        /\ requests'[r].releasedAmount = requests[r].releasedAmount + Says(r, es, "PaymentReleased")
        /\ requests'[r].refundedAmount = requests[r].refundedAmount + Says(r, es, "RefundIssued")
        /\ requests'[r].operationalAllowance
             = requests[r].operationalAllowance + Says(r, es, "OperationalAllowanceFunded")
    BY <1>4, <1>6, <1>10
  <2>2. requests'[r].operationalSpent
          = requests[r].operationalSpent + Says(r, es, "OperationalAllowanceReimbursed")
              + Says(r, es, "OperationalAllowanceRefunded")
    BY <1>4, <1>6
  <2>3. requests'[r].totalAmount >= requests[r].totalAmount
    BY <1>2, <1>4, <1>6
  <2>4. QED BY <2>1, <2>2, <2>3, <1>1, <1>4, <1>8, <1>9 DEF Explained
<1>12. QED BY <1>5, <1>11

LEMMA ExtensionRecorded ==
  ASSUME ChainInv, NEW r \in RequestIds, NEW newDeadline \in Deadlines,
         ExtendShipmentDeadline(r, newDeadline), Emit(<<Event(r, "ShipmentDeadlineExtended")>>)
  PROVE  \E es : Recorded(es)
<1> DEFINE es == <<Event(r, "ShipmentDeadlineExtended")>>
<1>1. EscrowInv /\ IInv
  BY ChainFacts
<1>2. /\ PaidAmendment(r, newDeadline, <<>>, <<>>, 0) /\ UNCHANGED cargo
      /\ <<>> \in Fundings(r) /\ <<>> \in Additions(r)
  BY <1>1, ExtendFacts
<1>3. Allocated(<<>>, <<>>) = 0
  <2>1. Allocated(<<>>, <<>>) \in Nat /\ cargo[Escrow] \in Nat
    BY <1>1, <1>2, AllocatedIsNat DEF IInv, PoolOK, Accounts
  <2>2. cargo[Escrow] = cargo[Escrow] + (Allocated(<<>>, <<>>) + 0)
    BY <1>2 DEF PaidAmendment
  <2>3. QED BY <2>1, <2>2
<1>4. es \in Seq(QuietOf(r)) /\ log' = Append(log, es)
  BY QuietEvent, EmitAppends DEF QuietNames
<1> HIDE DEF es
<1>5. /\ es \in Seq(EventsOf(r)) /\ Says(r, es, "EscrowFunded") = 0
      /\ Says(r, es, "OperationalAllowanceFunded") = 0
      /\ Says(r, es, "PaymentReleased") = 0 /\ Says(r, es, "RefundIssued") = 0
      /\ Says(r, es, "OperationalAllowanceReimbursed") = 0
      /\ Says(r, es, "OperationalAllowanceRefunded") = 0
      /\ \A w : Booked(es, PaidTo(r, w)) = 0
  BY <1>4, QuietBlock DEF PaymentEvents
<1>6. Amends(r, newDeadline, <<>>, <<>>, 0)
  BY <1>2 DEF PaidAmendment
<1>7. Explained(r, es) /\ OthersKept(r)
  BY <1>1, <1>2, <1>3, <1>5, <1>6, AmendsExplained
<1>8. QED BY <1>1, <1>4, <1>5, <1>7, RecordedOfOne

(* Negotiations: what the manager stages and returns is no payment of the   *)
(* shipment.                                                                *)
LEMMA SettledQuietly ==
  ASSUME NEW r \in RequestIds, NEW amendment \in Amendments, amendment.responseAllowanceSpent = 0,
         NEW reimbursed \in Nat, reimbursed <= amendment.responseAllowance
  PROVE  ResponseSettled(r, amendment, reimbursed) \in Seq(QuietOf(r))
<1>1. /\ amendment.responder \in Parties /\ amendment.requester \in Parties
      /\ amendment.responseAllowance \in Nat
  BY DEF Amendments, Parties
<1>2. UnusedAllowance(amendment, reimbursed) \in Nat
  BY <1>1 DEF UnusedAllowance
<1>3. /\ "AmendmentResponseReimbursed" \in QuietNames
      /\ "AmendmentResponseAllowanceRefunded" \in QuietNames
  BY DEF QuietNames
<1>4. /\ IfAny(Money(r, "AmendmentResponseReimbursed", amendment.responder, reimbursed))
           \in Seq(QuietOf(r))
      /\ IfAny(Money(r, "AmendmentResponseAllowanceRefunded", amendment.requester,
                     UnusedAllowance(amendment, reimbursed))) \in Seq(QuietOf(r))
  BY <1>1, <1>2, <1>3, QuietMoney
<1> HIDE DEF QuietOf, IfAny
<1>5. QED BY <1>4 DEF ResponseSettled

LEMMA AskedRecorded ==
  ASSUME IInv, NEW r \in RequestIds, NEW who, NEW proposedDeadline, NEW responseDeadline,
         NEW existing, NEW additions, NEW price, NEW allowance \in ResponseAllowances,
         RequestAmendment(r, who, proposedDeadline, responseDeadline,
                          existing, additions, price, allowance),
         Emit(<<Event(r, "AmendmentRequested")>>
                \o IfAny(Money(r, "AmendmentResponseAllowanceFunded", Manager, allowance)))
  PROVE  \E es : Recorded(es)
<1> DEFINE a == <<Event(r, "AmendmentRequested")>>
           b == IfAny(Money(r, "AmendmentResponseAllowanceFunded", Manager, allowance))
           es == a \o b
<1>1. a \in Seq(QuietOf(r))
  BY QuietEvent DEF QuietNames
<1>2. b \in Seq(QuietOf(r))
  <2>1. allowance \in Nat /\ Manager \in Parties
    BY NegotiationAssumption DEF Parties
  <2>2. QED BY <2>1, QuietMoney DEF QuietNames
<1>3. log' = Append(log, es)
  BY EmitAppends
<1> HIDE DEF a, b
<1>4. es \in Seq(QuietOf(r))
  BY <1>1, <1>2
<1>5. UNCHANGED <<requests, tipAmounts>>
  BY DEF RequestAmendment
<1> HIDE DEF es
<1>6. QED BY <1>3, <1>4, <1>5, RequestsStand, QuietlyRecorded

LEMMA ResolvedRecorded ==
  ASSUME ChainInv, NEW r \in RequestIds, NEW a, PendingAmendment(r, a),
         NEW outcome, NEW reimbursed \in Nat,
         reimbursed <= amendmentRequests[r][a].responseAllowance,
         ResolveAmendment(r, a, outcome, reimbursed),
         NEW name \in QuietNames,
         LET es == ResponseSettled(r, amendmentRequests[r][a], reimbursed) \o <<Event(r, name)>>
         IN  Emit(es) \/ EmitEnd(es)
  PROVE  \E es : Recorded(es)
<1> DEFINE settled == ResponseSettled(r, amendmentRequests[r][a], reimbursed)
           answer == <<Event(r, name)>>
           es == settled \o answer
<1>1. EscrowInv /\ NegotiationInv /\ ManagerHoldsTheStakes /\ IInv
  BY ChainFacts
<1>2. PICK amendment : amendment = amendmentRequests[r][a]
  OBVIOUS
<1>3. amendment \in Amendments /\ amendment.responseAllowanceSpent = 0
  BY <1>1, <1>2, PendingFacts DEF PendingOK
<1>4. settled \in Seq(QuietOf(r))
  BY <1>2, <1>3, SettledQuietly
<1>5. answer \in Seq(QuietOf(r))
  BY QuietEvent
<1>6. log' = Append(log, es)
  BY EmitAppends
<1> HIDE DEF settled, answer
<1>7. es \in Seq(QuietOf(r))
  BY <1>4, <1>5
<1>8. UNCHANGED <<requests, tipAmounts>>
  BY DEF ResolveAmendment
<1> HIDE DEF es
<1>9. QED BY <1>1, <1>6, <1>7, <1>8, RequestsStand, QuietlyRecorded

LEMMA CancellationsRecorded ==
  ASSUME IInv, NEW r \in RequestIds, NEW name \in QuietNames,
         \/ \E who, responseDeadline : RequestCancellation(r, who, responseDeadline)
         \/ \E c : RejectCancellation(r, c) \/ WithdrawCancellation(r, c) \/ ExpireCancellation(r, c),
         Emit(<<Event(r, name)>>) \/ EmitEnd(<<Event(r, name)>>)
  PROVE  \E es : Recorded(es)
<1> DEFINE es == <<Event(r, name)>>
<1>1. es \in Seq(QuietOf(r)) /\ log' = Append(log, es)
  BY QuietEvent, EmitAppends
<1>2. UNCHANGED vars
  BY DEF RequestCancellation, RejectCancellation, WithdrawCancellation, ExpireCancellation
<1>3. UNCHANGED <<requests, tipAmounts>>
  BY <1>2 DEF vars
<1> HIDE DEF es
<1>4. QED BY <1>1, <1>3, RequestsStand, QuietlyRecorded

LEMMA RatingRecorded ==
  ASSUME IInv, NEW r \in RequestIds, PublishRating(r)
  PROVE  \E es : Recorded(es)
<1>1. PICK score \in Scores, tags \in Selectable : SubmitCarrierRating(r, score, tags)
  BY DEF PublishRating
<1> DEFINE es == <<Of(r, "CarrierRated", requests[r].carrier)>>
<1>2. UNCHANGED chainVars /\ Emit(es)
  BY <1>1 DEF SubmitCarrierRating
<1>3. requests[r].carrier \in Parties
  BY Figures DEF Requests, Parties
<1>4. es \in Seq(QuietOf(r)) /\ log' = Append(log, es)
  BY <1>2, <1>3, QuietParty, EmitAppends DEF QuietNames
<1>5. UNCHANGED <<requests, tipAmounts>>
  BY <1>2 DEF chainVars, vars
<1> HIDE DEF es
<1>6. QED BY <1>4, <1>5, RequestsStand, QuietlyRecorded

(* The shipper's payment into the escrow.                                   *)
AmountNamed(e, name) == IF e.name = name THEN e.amount ELSE 0
AmountPaidTo(e, w) == IF e.name \in PaidOutNames /\ e.party = w THEN e.amount ELSE 0

LEMMA ThreeSaid ==
  ASSUME NEW r, NEW a \in EventsOf(r), NEW b \in EventsOf(r), NEW c \in EventsOf(r)
  PROVE  /\ <<a, b, c>> \in Seq(EventsOf(r))
         /\ \A name : Says(r, <<a, b, c>>, name)
                        = AmountNamed(a, name) + AmountNamed(b, name) + AmountNamed(c, name)
         /\ \A w : Booked(<<a, b, c>>, PaidTo(r, w))
                     = AmountPaidTo(a, w) + AmountPaidTo(b, w) + AmountPaidTo(c, w)
<1>1. a \in LogEvents /\ b \in LogEvents /\ c \in LogEvents
  BY DEF EventsOf
<1>2. ASSUME NEW K PROVE Booked(<<a, b, c>>, K) = Due(a, K) + Due(b, K) + Due(c, K)
  BY <1>1, BookedThree
<1>3. \A e \in EventsOf(r) : \A name : Due(e, NamedOf(r, name)) = AmountNamed(e, name)
  BY DEF Due, NamedOf, AmountNamed, EventsOf
<1>4. \A e \in EventsOf(r) : \A w : Due(e, PaidTo(r, w)) = AmountPaidTo(e, w)
  BY DEF Due, PaidTo, AmountPaidTo, EventsOf
<1>5. <<a, b, c>> \in Seq(EventsOf(r))
  OBVIOUS
<1>6. QED BY <1>2, <1>3, <1>4, <1>5 DEF Says

FundingBlock(r, carrier, amount, allowance) ==
  <<Of(r, "MilestonePlanAccepted", carrier), Money(r, "EscrowFunded", Escrow, amount),
    Money(r, "OperationalAllowanceFunded", Escrow, allowance)>>

LEMMA FundingSays ==
  ASSUME NEW r \in RequestIds, NEW carrier \in Parties, NEW amount \in Nat, NEW allowance \in Nat,
         NEW es, es = FundingBlock(r, carrier, amount, allowance)
  PROVE  /\ es \in Seq(EventsOf(r))
         /\ Says(r, es, "EscrowFunded") = amount
         /\ Says(r, es, "OperationalAllowanceFunded") = allowance
         /\ Says(r, es, "PaymentReleased") = 0 /\ Says(r, es, "RefundIssued") = 0
         /\ Says(r, es, "OperationalAllowanceReimbursed") = 0
         /\ Says(r, es, "OperationalAllowanceRefunded") = 0
         /\ \A w : Booked(es, PaidTo(r, w)) = 0
<1> DEFINE a == Of(r, "MilestonePlanAccepted", carrier)
           b == Money(r, "EscrowFunded", Escrow, amount)
           c == Money(r, "OperationalAllowanceFunded", Escrow, allowance)
<1>1. Escrow \in Parties /\ 0 \in Int /\ 0 \in Nat
  BY DEF Parties
<1>2. {"MilestonePlanAccepted", "EscrowFunded", "OperationalAllowanceFunded"} \subseteq EventNames
  BY DEF EventNames, QuietNames, PaymentEvents
<1>3. a \in LogEvents /\ a.request = r /\ a.name = "MilestonePlanAccepted" /\ a.amount = 0
  BY <1>1, <1>2, EventsAreTyped
<1>4. b \in LogEvents /\ b.request = r /\ b.name = "EscrowFunded" /\ b.amount = amount
  BY <1>1, <1>2, EventsAreTyped
<1>5. c \in LogEvents /\ c.request = r /\ c.name = "OperationalAllowanceFunded" /\ c.amount = allowance
  BY <1>1, <1>2, EventsAreTyped
<1> HIDE DEF a, b, c
<1>6. a \in EventsOf(r) /\ b \in EventsOf(r) /\ c \in EventsOf(r)
  BY <1>3, <1>4, <1>5 DEF EventsOf
<1>7. es = <<a, b, c>>
  BY DEF a, b, c, FundingBlock
<1>8. /\ es \in Seq(EventsOf(r))
      /\ \A name : Says(r, es, name) = AmountNamed(a, name) + AmountNamed(b, name) + AmountNamed(c, name)
      /\ \A w : Booked(es, PaidTo(r, w)) = AmountPaidTo(a, w) + AmountPaidTo(b, w) + AmountPaidTo(c, w)
  BY <1>6, <1>7, ThreeSaid
<1>9. \A name : /\ AmountNamed(a, name) = 0
                /\ AmountNamed(b, name) = IF "EscrowFunded" = name THEN amount ELSE 0
                /\ AmountNamed(c, name) = IF "OperationalAllowanceFunded" = name THEN allowance ELSE 0
  BY <1>3, <1>4, <1>5 DEF AmountNamed
<1>10. \A w : AmountPaidTo(a, w) = 0 /\ AmountPaidTo(b, w) = 0 /\ AmountPaidTo(c, w) = 0
  BY <1>3, <1>4, <1>5 DEF AmountPaidTo, PaidOutNames
<1>11. QED BY <1>8, <1>9, <1>10

LEMMA FundRecorded ==
  ASSUME ChainInv, NEW r \in RequestIds, NEW p \in DOMAIN proposals[r],
         NEW price \in ReferenceGasPrices, NEW extra \in ExtraAllowances,
         LET allowance == MinimumOperationalAllowance(r, p, price) + extra
         IN  /\ ApproveAndFund(r, p, price, allowance)
             /\ Emit(<<Of(r, "MilestonePlanAccepted", proposals[r][p].carrier),
                       Money(r, "EscrowFunded", Escrow, requests[r].proposedAmount),
                       Money(r, "OperationalAllowanceFunded", Escrow, allowance)>>)
  PROVE  \E es : Recorded(es)
<1>1. IInv /\ TipInv /\ MarketOK
  BY ChainFacts DEF EscrowInv, AllInv, IInv
<1>2. PICK allowance \in Nat : allowance = MinimumOperationalAllowance(r, p, price) + extra
  <2>1. price \in Nat /\ extra \in Nat
    BY InputAssumption
  <2>2. MinimumOperationalAllowance(r, p, price) \in Nat
    BY <1>1, <2>1, MinimumIsNat
  <2>3. QED BY <2>1, <2>2
<1>3. PICK carrier \in Parties : carrier = proposals[r][p].carrier
  <2>1. proposals[r][p].carrier \in Users
    BY <1>1, InputAssumption, MinimumIsNat
  <2>2. QED BY <2>1 DEF Parties
<1>4. PICK amount \in Nat : amount = requests[r].proposedAmount
  BY <1>1, Figures DEF Requests
<1>5. PICK es : es = FundingBlock(r, carrier, amount, allowance)
  OBVIOUS
<1>6. ApproveAndFund(r, p, price, allowance) /\ Emit(es)
  BY <1>2, <1>3, <1>4, <1>5 DEF FundingBlock
<1>7. log' = Append(log, es)
  BY <1>6, EmitAppends
<1>8. /\ es \in Seq(EventsOf(r))
      /\ Says(r, es, "EscrowFunded") = amount
      /\ Says(r, es, "OperationalAllowanceFunded") = allowance
      /\ Says(r, es, "PaymentReleased") = 0 /\ Says(r, es, "RefundIssued") = 0
      /\ Says(r, es, "OperationalAllowanceReimbursed") = 0
      /\ Says(r, es, "OperationalAllowanceRefunded") = 0
      /\ \A w : Booked(es, PaidTo(r, w)) = 0
  BY <1>5, FundingSays
<1> DEFINE cap == allowance \div (Len(proposals[r][p].plan) * ProofReserve(1))
<1>9. /\ requests[r].status = "Open" /\ tipAmounts' = tipAmounts
      /\ requests' = [requests EXCEPT ![r].carrier = carrier,
                                      ![r].totalAmount = amount,
                                      ![r].status = "Funded",
                                      ![r].operationalAllowance = allowance,
                                      ![r].gasPriceCap = cap]
  BY <1>3, <1>4, <1>6 DEF ApproveAndFund
<1> HIDE DEF cap
<1>10. requests \in [RequestIds -> Requests] /\ Unfunded(requests[r])
  BY <1>1, <1>9, Figures DEF IInv, RequestsOK, WasFunded
<1>11. /\ requests'[r].totalAmount = amount /\ requests'[r].releasedAmount = 0
       /\ requests'[r].refundedAmount = 0 /\ requests'[r].operationalAllowance = allowance
       /\ requests'[r].operationalSpent = 0 /\ requests'[r].status = "Funded"
       /\ requests'[r].proposedAmount = amount
  BY <1>4, <1>9, <1>10 DEF Requests, Unfunded
<1>12. OthersKept(r)
  BY <1>9, <1>10 DEF OthersKept
<1>13. Earned(r) = 0 /\ Earned(r)' = 0
  <2>1. tipAmounts[r] = 0 /\ requests[r].releasedAmount = 0
    BY <1>1, <1>9, <1>10 DEF TipInv, Unfunded
  <2>2. QED BY <2>1, <1>9, <1>11 DEF Earned
<1>14. Explained(r, es)
  <2>1. /\ requests[r].totalAmount = 0 /\ requests[r].releasedAmount = 0
        /\ requests[r].refundedAmount = 0 /\ requests[r].operationalAllowance = 0
        /\ requests[r].operationalSpent = 0
    BY <1>10 DEF Unfunded
  <2>2. \A w \in Parties :
          Booked(es, PaidTo(r, w)) = IF w = requests'[r].carrier THEN Earned(r)' - Earned(r) ELSE 0
    BY <1>8, <1>13
  <2>3. requests'[r].proposedAmount <= requests'[r].totalAmount
    BY <1>11
  <2>4. /\ requests'[r].totalAmount = requests[r].totalAmount + Says(r, es, "EscrowFunded")
        /\ requests'[r].releasedAmount = requests[r].releasedAmount + Says(r, es, "PaymentReleased")
        /\ requests'[r].refundedAmount = requests[r].refundedAmount + Says(r, es, "RefundIssued")
        /\ requests'[r].operationalAllowance
             = requests[r].operationalAllowance + Says(r, es, "OperationalAllowanceFunded")
        /\ requests'[r].operationalSpent
             = requests[r].operationalSpent + Says(r, es, "OperationalAllowanceReimbursed")
                 + Says(r, es, "OperationalAllowanceRefunded")
    BY <2>1, <1>8, <1>11
  <2>5. QED BY <2>1, <2>2, <2>3, <2>4, <1>8, <1>13 DEF Explained
<1>15. QED BY <1>1, <1>7, <1>8, <1>12, <1>14, RecordedOfOne

LEMMA MoneyBlock ==
  ASSUME NEW r \in RequestIds, NEW n, n \in PaymentEvents, NEW who, who \in Parties,
         NEW amount, amount \in Nat,
         NEW a, a = <<Money(r, n, who, amount)>> \/ a = IfAny(Money(r, n, who, amount))
  PROVE  /\ a \in Seq(EventsOf(r))
         /\ \A name : Says(r, a, name) = IF n = name THEN amount ELSE 0
         /\ \A w : Booked(a, PaidTo(r, w)) = IF n \in PaidOutNames /\ who = w THEN amount ELSE 0
<1>1. n \in EventNames
  BY DEF EventNames
<1>2. PICK e : e = Money(r, n, who, amount)
  OBVIOUS
<1>3. e \in LogEvents /\ e.request = r /\ e.name = n /\ e.party = who /\ e.amount = amount
  <2>1. 0 \in Int
    OBVIOUS
  <2>2. QED BY <1>1, <1>2, <2>1, EventsAreTyped
<1>4. e \in EventsOf(r)
  BY <1>3 DEF EventsOf
<1>5. a = <<e>> \/ a = IfAny(e)
  BY <1>2
<1>6. /\ <<e>> \in Seq(EventsOf(r)) /\ IfAny(e) \in Seq(EventsOf(r))
      /\ \A name : /\ Says(r, <<e>>, name) = IF e.name = name THEN e.amount ELSE 0
                   /\ Says(r, IfAny(e), name) = IF e.name = name THEN e.amount ELSE 0
      /\ \A w : /\ Booked(<<e>>, PaidTo(r, w))
                     = IF e.name \in PaidOutNames /\ e.party = w THEN e.amount ELSE 0
                /\ Booked(IfAny(e), PaidTo(r, w))
                     = IF e.name \in PaidOutNames /\ e.party = w THEN e.amount ELSE 0
  BY <1>4, OneSaid
<1>7. /\ \A name : Says(r, a, name) = IF e.name = name THEN e.amount ELSE 0
      /\ \A w : Booked(a, PaidTo(r, w))
                  = IF e.name \in PaidOutNames /\ e.party = w THEN e.amount ELSE 0
      /\ a \in Seq(EventsOf(r))
  <2>1. CASE a = <<e>>
    BY <1>6, <2>1
  <2>2. CASE a = IfAny(e)
    BY ONLY <1>6, <2>2
  <2>3. QED BY <1>5, <2>1, <2>2
<1>8. QED BY <1>3, <1>7

(* The figures of a funded request that changed by what a block says.       *)
LEMMA FiguresExplained ==
  ASSUME IInv, NEW r \in RequestIds, WasFunded(requests[r]), NEW es \in Seq(EventsOf(r)),
         requests'[r].totalAmount = requests[r].totalAmount + Says(r, es, "EscrowFunded"),
         requests'[r].releasedAmount = requests[r].releasedAmount + Says(r, es, "PaymentReleased"),
         requests'[r].refundedAmount = requests[r].refundedAmount + Says(r, es, "RefundIssued"),
         requests'[r].operationalAllowance
           = requests[r].operationalAllowance + Says(r, es, "OperationalAllowanceFunded"),
         requests'[r].operationalSpent
           = requests[r].operationalSpent + Says(r, es, "OperationalAllowanceReimbursed")
               + Says(r, es, "OperationalAllowanceRefunded"),
         requests'[r].carrier = requests[r].carrier,
         requests'[r].proposedAmount = requests[r].proposedAmount,
         Active(r)' => Active(r) /\ Says(r, es, "OperationalAllowanceRefunded") = 0,
         NEW tip, tip \in Nat, tipAmounts'[r] = tipAmounts[r] + tip,
         \A w \in Parties : Booked(es, PaidTo(r, w))
                              = IF w = requests[r].carrier THEN Says(r, es, "PaymentReleased") + tip ELSE 0
  PROVE  Explained(r, es)
<1>1. \A name : Says(r, es, name) \in Nat
  BY BlocksOf
<1>2. /\ requests[r].totalAmount \in Nat /\ requests[r].releasedAmount \in Nat
      /\ tipAmounts[r] \in Nat
  BY Figures, RequestFigures DEF IInv, ClockOK
<1>3. Earned(r)' - Earned(r) = Says(r, es, "PaymentReleased") + tip
  <2>1. Earned(r)' = requests'[r].releasedAmount + tipAmounts'[r]
    BY DEF Earned
  <2>2. Earned(r) = requests[r].releasedAmount + tipAmounts[r]
    BY DEF Earned
  <2>3. Says(r, es, "PaymentReleased") \in Nat
    BY <1>1
  <2>4. /\ requests'[r].releasedAmount = requests[r].releasedAmount + Says(r, es, "PaymentReleased")
        /\ tipAmounts'[r] = tipAmounts[r] + tip /\ tip \in Nat
    OBVIOUS
  <2>5. QED BY ONLY <1>2, <2>1, <2>2, <2>3, <2>4
<1>4. requests'[r].totalAmount >= requests[r].totalAmount
  BY <1>1, <1>2
<1>5. \A w \in Parties :
        Booked(es, PaidTo(r, w)) = IF w = requests'[r].carrier THEN Earned(r)' - Earned(r) ELSE 0
  BY <1>3
<1>6. QED BY <1>4, <1>5 DEF Explained

LEMMA SubmitRecorded ==
  ASSUME IInv, NEW r \in RequestIds, NEW m \in MilestoneIds, NEW uri, NEW gas \in Nat,
         NEW price \in Nat, SubmitProof(r, m, uri, gas, price),
         Emit(IfAny(Money(r, "OperationalAllowanceReimbursed", requests[r].carrier, Reimbursed(r)))
                \o <<Step(r, "ProofSubmitted", m)>>)
  PROVE  \E es : Recorded(es)
<1> DEFINE old == requests[r]
           ms == [milestones[r] EXCEPT ![m] = Submitted(milestones[r][m], uri)]
<1>1. PICK paid : paid = IF milestones[r][m].proofSubmissionReimbursed THEN 0
                         ELSE Reimbursement(r, ms, gas, price)
  OBVIOUS
<1>2. paid \in Nat
  <2>1. Reimbursement(r, ms, gas, price) \in Nat
    BY ReimbursementIsNat
  <2> HIDE DEF ms
  <2>2. QED BY <1>1, <2>1
<1>3. /\ Active(r) /\ tipAmounts' = tipAmounts
      /\ requests' = [requests EXCEPT ![r].status = "InProgress", ![r].operationalSpent = @ + paid]
  BY <1>1 DEF SubmitProof
<1>4. requests \in [RequestIds -> Requests] /\ tipAmounts[r] \in Nat
  BY Figures DEF IInv, ClockOK
<1>5. /\ requests'[r].status = "InProgress"
      /\ requests'[r].operationalSpent = old.operationalSpent + paid
      /\ requests'[r].operationalAllowance = old.operationalAllowance
      /\ requests'[r].totalAmount = old.totalAmount
      /\ requests'[r].releasedAmount = old.releasedAmount
      /\ requests'[r].refundedAmount = old.refundedAmount
      /\ requests'[r].proposedAmount = old.proposedAmount /\ requests'[r].carrier = old.carrier
  BY <1>3, <1>4 DEF Requests
<1>6. /\ old.totalAmount \in Nat /\ old.releasedAmount \in Nat /\ old.refundedAmount \in Nat
      /\ old.operationalAllowance \in Nat /\ old.operationalSpent \in Nat
  BY <1>4, RequestFigures
<1>7. Reimbursed(r) = paid
  BY <1>2, <1>5, <1>6 DEF Reimbursed
<1>8. OthersKept(r)
  BY <1>3, <1>4 DEF OthersKept
<1>9. PICK carrier \in Parties : carrier = old.carrier
  BY Figures DEF Requests, Parties
<1>a. PICK a : a = IfAny(Money(r, "OperationalAllowanceReimbursed", carrier, paid))
  OBVIOUS
<1> DEFINE b == <<Step(r, "ProofSubmitted", m)>>
           es == a \o b
<1>10. log' = Append(log, es)
  BY <1>7, <1>9, <1>a, EmitAppends
<1>11. /\ a \in Seq(EventsOf(r))
       /\ \A name : Says(r, a, name) = IF "OperationalAllowanceReimbursed" = name THEN paid ELSE 0
       /\ \A w : Booked(a, PaidTo(r, w)) = 0
  <2>1. /\ "OperationalAllowanceReimbursed" \in PaymentEvents
        /\ "OperationalAllowanceReimbursed" \notin PaidOutNames
    BY DEF PaymentEvents, PaidOutNames
  <2>2. QED BY <1>2, <1>9, <1>a, <2>1, MoneyBlock
<1>12. /\ b \in Seq(EventsOf(r)) /\ \A name \in PaymentEvents : Says(r, b, name) = 0
       /\ \A w : Booked(b, PaidTo(r, w)) = 0
  <2>1. m \in Int
    BY DEF MilestoneIds
  <2>2. b \in Seq(QuietOf(r))
    BY <2>1, QuietStep DEF QuietNames
  <2> HIDE DEF b
  <2>3. QED BY <2>2, QuietBlock
<1> HIDE DEF b
<1>13. /\ es \in Seq(EventsOf(r))
       /\ \A name : Says(r, es, name) = Says(r, a, name) + Says(r, b, name)
       /\ \A w : Booked(es, PaidTo(r, w)) = Booked(a, PaidTo(r, w)) + Booked(b, PaidTo(r, w))
  BY <1>11, <1>12, BlocksOf
<1> HIDE DEF es
<1>14. /\ Says(r, es, "OperationalAllowanceReimbursed") = paid
       /\ Says(r, es, "EscrowFunded") = 0 /\ Says(r, es, "OperationalAllowanceFunded") = 0
       /\ Says(r, es, "PaymentReleased") = 0 /\ Says(r, es, "RefundIssued") = 0
       /\ Says(r, es, "OperationalAllowanceRefunded") = 0
       /\ \A w : Booked(es, PaidTo(r, w)) = 0
  BY <1>2, <1>11, <1>12, <1>13 DEF PaymentEvents
<1>15. Explained(r, es)
  <2>1. WasFunded(requests[r])
    BY <1>3 DEF Active, WasFunded
  <2>2. /\ requests'[r].totalAmount = requests[r].totalAmount + Says(r, es, "EscrowFunded")
        /\ requests'[r].releasedAmount = requests[r].releasedAmount + Says(r, es, "PaymentReleased")
        /\ requests'[r].refundedAmount = requests[r].refundedAmount + Says(r, es, "RefundIssued")
        /\ requests'[r].operationalAllowance
             = requests[r].operationalAllowance + Says(r, es, "OperationalAllowanceFunded")
        /\ requests'[r].operationalSpent
             = requests[r].operationalSpent + Says(r, es, "OperationalAllowanceReimbursed")
                 + Says(r, es, "OperationalAllowanceRefunded")
    BY <1>2, <1>5, <1>6, <1>14
  <2>3. 0 \in Nat /\ tipAmounts'[r] = tipAmounts[r] + 0
    BY <1>3, <1>4
  <2>4. \A w \in Parties : Booked(es, PaidTo(r, w))
                             = IF w = requests[r].carrier THEN Says(r, es, "PaymentReleased") + 0 ELSE 0
    BY <1>14
  <2>5. Active(r)' => Active(r) /\ Says(r, es, "OperationalAllowanceRefunded") = 0
    BY <1>3, <1>14
  <2> HIDE DEF old
  <2>6. QED BY <1>5, <1>13, <2>1, <2>2, <2>3, <2>4, <2>5, FiguresExplained DEF old
<1>16. QED BY <1>8, <1>10, <1>13, <1>15, RecordedOfOne

LEMMA MoneyRecorded ==
  ASSUME IInv, NEW r \in RequestIds, WasFunded(requests[r]), NEW es \in Seq(EventsOf(r)),
         log' = Append(log, es), OthersKept(r), tipAmounts' = tipAmounts,
         requests'[r].totalAmount = requests[r].totalAmount + Says(r, es, "EscrowFunded"),
         requests'[r].releasedAmount = requests[r].releasedAmount + Says(r, es, "PaymentReleased"),
         requests'[r].refundedAmount = requests[r].refundedAmount + Says(r, es, "RefundIssued"),
         requests'[r].operationalAllowance
           = requests[r].operationalAllowance + Says(r, es, "OperationalAllowanceFunded"),
         requests'[r].operationalSpent
           = requests[r].operationalSpent + Says(r, es, "OperationalAllowanceReimbursed")
               + Says(r, es, "OperationalAllowanceRefunded"),
         requests'[r].carrier = requests[r].carrier,
         requests'[r].proposedAmount = requests[r].proposedAmount,
         Active(r)' => Active(r) /\ Says(r, es, "OperationalAllowanceRefunded") = 0,
         \A w \in Parties : Booked(es, PaidTo(r, w))
                              = IF w = requests[r].carrier THEN Says(r, es, "PaymentReleased") ELSE 0
  PROVE  Recorded(es)
<1>1. PICK tip : tip = 0
  OBVIOUS
<1>2. tipAmounts[r] \in Nat
  BY DEF IInv, ClockOK
<1>3. tip \in Nat /\ tipAmounts'[r] = tipAmounts[r] + tip
  BY <1>1, <1>2
<1>4. Says(r, es, "PaymentReleased") \in Nat
  BY BlocksOf
<1>5. \A w \in Parties : Booked(es, PaidTo(r, w))
                           = IF w = requests[r].carrier THEN Says(r, es, "PaymentReleased") + tip ELSE 0
  BY <1>1, <1>4
<1>6. Explained(r, es)
  BY <1>3, <1>5, FiguresExplained
<1>7. QED BY <1>6, RecordedOfOne

LEMMA TipRecorded ==
  ASSUME IInv, NEW r \in RequestIds, NEW amount \in Nat, TipCarrier(r, amount),
         Emit(<<Money(r, "CarrierTipped", requests[r].carrier, amount)>>)
  PROVE  \E es : Recorded(es)
<1>1. /\ requests[r].status = "Completed" /\ tipAmounts[r] = 0 /\ requests' = requests
      /\ tipAmounts' = [tipAmounts EXCEPT ![r] = amount]
  BY DEF TipCarrier
<1>2. /\ requests \in [RequestIds -> Requests] /\ tipAmounts \in [RequestIds -> Nat]
      /\ WasFunded(requests[r]) /\ ~Active(r)'
  BY <1>1, Figures DEF IInv, ClockOK, WasFunded, Active
<1>3. PICK carrier \in Parties : carrier = requests[r].carrier
  BY Figures DEF Requests, Parties
<1>4. PICK es : es = <<Money(r, "CarrierTipped", carrier, amount)>>
  OBVIOUS
<1>5. log' = Append(log, es)
  BY <1>3, <1>4, EmitAppends
<1>6. /\ es \in Seq(EventsOf(r))
      /\ \A name : Says(r, es, name) = IF "CarrierTipped" = name THEN amount ELSE 0
      /\ \A w : Booked(es, PaidTo(r, w)) = IF carrier = w THEN amount ELSE 0
  <2>1. "CarrierTipped" \in PaymentEvents /\ "CarrierTipped" \in PaidOutNames
    BY DEF PaymentEvents, PaidOutNames
  <2>2. QED BY <1>3, <1>4, <2>1, MoneyBlock
<1>7. OthersKept(r)
  BY <1>1, <1>2 DEF OthersKept
<1>8. /\ Says(r, es, "EscrowFunded") = 0 /\ Says(r, es, "PaymentReleased") = 0
      /\ Says(r, es, "RefundIssued") = 0 /\ Says(r, es, "OperationalAllowanceFunded") = 0
      /\ Says(r, es, "OperationalAllowanceReimbursed") = 0
      /\ Says(r, es, "OperationalAllowanceRefunded") = 0
  BY <1>6
<1>9. /\ requests'[r].totalAmount = requests[r].totalAmount + Says(r, es, "EscrowFunded")
      /\ requests'[r].releasedAmount = requests[r].releasedAmount + Says(r, es, "PaymentReleased")
      /\ requests'[r].refundedAmount = requests[r].refundedAmount + Says(r, es, "RefundIssued")
      /\ requests'[r].operationalAllowance
           = requests[r].operationalAllowance + Says(r, es, "OperationalAllowanceFunded")
      /\ requests'[r].operationalSpent
           = requests[r].operationalSpent + Says(r, es, "OperationalAllowanceReimbursed")
               + Says(r, es, "OperationalAllowanceRefunded")
      /\ requests'[r].carrier = requests[r].carrier
      /\ requests'[r].proposedAmount = requests[r].proposedAmount
  BY <1>1, <1>2, <1>8, RequestFigures
<1>10. amount \in Nat /\ tipAmounts'[r] = tipAmounts[r] + amount
  BY <1>1, <1>2
<1>11. \A w \in Parties : Booked(es, PaidTo(r, w))
             = IF w = requests[r].carrier THEN Says(r, es, "PaymentReleased") + amount ELSE 0
  BY <1>3, <1>6, <1>8
<1>12. Explained(r, es)
  BY <1>2, <1>6, <1>9, <1>10, <1>11, FiguresExplained
<1>13. QED BY <1>5, <1>6, <1>7, <1>12, RecordedOfOne

LEMMA TopUpRecorded ==
  ASSUME IInv, NEW r \in RequestIds, NEW amount \in Nat, TopUpOperationalAllowance(r, amount),
         Emit(<<Money(r, "OperationalAllowanceFunded", Escrow, amount)>>)
  PROVE  \E es : Recorded(es)
<1> DEFINE old == requests[r]
           topped == [old EXCEPT !.operationalAllowance = @ + amount]
           actions == RemainingProofActions(executionOrder[r], milestones[r])
           cap == FundedCap(topped, actions)
           raised == actions > 0 /\ cap > topped.gasPriceCap
           new == IF raised THEN [topped EXCEPT !.gasPriceCap = cap] ELSE topped
<1>1. requests' = [requests EXCEPT ![r] = new] /\ Active(r) /\ tipAmounts' = tipAmounts
  BY DEF TopUpOperationalAllowance
<1>2. old \in Requests /\ requests'[r] = new /\ requests \in [RequestIds -> Requests]
  BY <1>1, Figures
<1> HIDE DEF cap, actions, raised
<1>3. /\ new.operationalAllowance = old.operationalAllowance + amount
      /\ new.operationalSpent = old.operationalSpent
      /\ new.totalAmount = old.totalAmount
      /\ new.releasedAmount = old.releasedAmount
      /\ new.refundedAmount = old.refundedAmount
      /\ new.status = old.status
      /\ new.proposedAmount = old.proposedAmount /\ new.carrier = old.carrier
  BY <1>2 DEF Requests
<1> HIDE DEF new
<1>4. OthersKept(r)
  BY <1>1, <1>2 DEF OthersKept
<1>e. PICK escrow \in Parties : escrow = Escrow
  BY DEF Parties
<1>5. PICK es : es = <<Money(r, "OperationalAllowanceFunded", escrow, amount)>>
  OBVIOUS
<1>6. log' = Append(log, es)
  BY <1>e, <1>5, EmitAppends
<1>7. /\ es \in Seq(EventsOf(r))
      /\ \A name : Says(r, es, name) = IF "OperationalAllowanceFunded" = name THEN amount ELSE 0
      /\ \A w : Booked(es, PaidTo(r, w)) = 0
  <2>1. /\ "OperationalAllowanceFunded" \in PaymentEvents
        /\ "OperationalAllowanceFunded" \notin PaidOutNames
    BY DEF PaymentEvents, PaidOutNames
  <2>2. PICK name : name = "OperationalAllowanceFunded"
    OBVIOUS
  <2>3. /\ r \in RequestIds /\ name \in PaymentEvents /\ escrow \in Parties /\ amount \in Nat
        /\ es = <<Money(r, name, escrow, amount)>>
    BY <1>5, <2>1, <2>2
  <2>4. /\ es \in Seq(EventsOf(r))
        /\ \A n : Says(r, es, n) = IF name = n THEN amount ELSE 0
        /\ \A w : Booked(es, PaidTo(r, w)) = IF name \in PaidOutNames /\ escrow = w THEN amount ELSE 0
    BY ONLY <2>3, MoneyBlock
  <2>5. QED BY <2>1, <2>2, <2>4
<1>8. /\ Says(r, es, "EscrowFunded") = 0 /\ Says(r, es, "PaymentReleased") = 0
      /\ Says(r, es, "RefundIssued") = 0 /\ Says(r, es, "OperationalAllowanceFunded") = amount
      /\ Says(r, es, "OperationalAllowanceReimbursed") = 0
      /\ Says(r, es, "OperationalAllowanceRefunded") = 0
  BY <1>7
<1>9. /\ requests'[r].totalAmount = requests[r].totalAmount + Says(r, es, "EscrowFunded")
      /\ requests'[r].releasedAmount = requests[r].releasedAmount + Says(r, es, "PaymentReleased")
      /\ requests'[r].refundedAmount = requests[r].refundedAmount + Says(r, es, "RefundIssued")
      /\ requests'[r].operationalAllowance
           = requests[r].operationalAllowance + Says(r, es, "OperationalAllowanceFunded")
      /\ requests'[r].operationalSpent
           = requests[r].operationalSpent + Says(r, es, "OperationalAllowanceReimbursed")
               + Says(r, es, "OperationalAllowanceRefunded")
      /\ requests'[r].carrier = requests[r].carrier
      /\ requests'[r].proposedAmount = requests[r].proposedAmount
  <2>1. /\ old.totalAmount \in Nat /\ old.releasedAmount \in Nat /\ old.refundedAmount \in Nat
        /\ old.operationalAllowance \in Nat /\ old.operationalSpent \in Nat
    BY <1>2, RequestFigures
  <2>2. QED BY <1>2, <1>3, <1>8, <2>1
<1>10. WasFunded(requests[r])
  BY <1>1 DEF Active, WasFunded
<1>11. \A w \in Parties : Booked(es, PaidTo(r, w))
             = IF w = requests[r].carrier THEN Says(r, es, "PaymentReleased") ELSE 0
  BY <1>7, <1>8
<1> HIDE DEF old
<1>12. Active(r)' => Active(r) /\ Says(r, es, "OperationalAllowanceRefunded") = 0
  BY <1>1, <1>8
<1>13. QED BY <1>1, <1>4, <1>6, <1>7, <1>9, <1>10, <1>11, <1>12, MoneyRecorded

(* What is left goes back to the shipper.                                   *)
LEMMA ReserveSays ==
  ASSUME IInv, NEW r \in RequestIds
  PROVE  /\ OperationalRemaining(r) \in Nat
         /\ ReserveRefunded(r) \in Seq(EventsOf(r))
         /\ \A name : Says(r, ReserveRefunded(r), name)
                        = IF "OperationalAllowanceRefunded" = name THEN OperationalRemaining(r) ELSE 0
         /\ \A w : Booked(ReserveRefunded(r), PaidTo(r, w)) = 0
<1>1. PICK amount \in Nat : amount = OperationalRemaining(r)
  BY Figures DEF OperationalRemaining
<1>2. PICK shipper \in Parties : shipper = requests[r].shipper
  BY Figures DEF Requests, Parties
<1>3. PICK n : n = "OperationalAllowanceRefunded"
  OBVIOUS
<1>4. PICK a : a = IfAny(Money(r, n, shipper, amount))
  OBVIOUS
<1>5. n \in PaymentEvents /\ n \notin PaidOutNames
  BY <1>3 DEF PaymentEvents, PaidOutNames
<1>6. /\ r \in RequestIds /\ shipper \in Parties /\ amount \in Nat
      /\ a = <<Money(r, n, shipper, amount)>> \/ a = IfAny(Money(r, n, shipper, amount))
  BY <1>4
<1>7. /\ a \in Seq(EventsOf(r))
      /\ \A name : Says(r, a, name) = IF n = name THEN amount ELSE 0
      /\ \A w : Booked(a, PaidTo(r, w)) = IF n \in PaidOutNames /\ shipper = w THEN amount ELSE 0
  BY ONLY <1>5, <1>6, MoneyBlock
<1>8. a = ReserveRefunded(r)
  BY <1>1, <1>2, <1>3, <1>4 DEF ReserveRefunded
<1>9. QED BY <1>1, <1>3, <1>5, <1>7, <1>8

LEMMA RefundSays ==
  ASSUME IInv, NEW r \in RequestIds
  PROVE  /\ EscrowBalance(r) \in Nat /\ OperationalRemaining(r) \in Nat
         /\ Refunded(r) \in Seq(EventsOf(r))
         /\ \A name : Says(r, Refunded(r), name)
                        = IF "OperationalAllowanceRefunded" = name THEN OperationalRemaining(r)
                          ELSE IF "RefundIssued" = name THEN EscrowBalance(r) ELSE 0
         /\ \A w : Booked(Refunded(r), PaidTo(r, w)) = 0
<1>1. PICK amount \in Nat : amount = EscrowBalance(r)
  BY Figures DEF EscrowBalance
<1>2. PICK shipper \in Parties : shipper = requests[r].shipper
  BY Figures DEF Requests, Parties
<1>3. PICK n : n = "RefundIssued"
  OBVIOUS
<1>4. PICK a : a = <<Money(r, n, shipper, amount)>>
  OBVIOUS
<1>5. n \in PaymentEvents /\ n \notin PaidOutNames
  BY <1>3 DEF PaymentEvents, PaidOutNames
<1>6. /\ r \in RequestIds /\ shipper \in Parties /\ amount \in Nat
      /\ a = <<Money(r, n, shipper, amount)>> \/ a = IfAny(Money(r, n, shipper, amount))
  BY <1>4
<1>7. /\ a \in Seq(EventsOf(r))
      /\ \A name : Says(r, a, name) = IF n = name THEN amount ELSE 0
      /\ \A w : Booked(a, PaidTo(r, w)) = IF n \in PaidOutNames /\ shipper = w THEN amount ELSE 0
  BY ONLY <1>5, <1>6, MoneyBlock
<1>8. PICK b : b = ReserveRefunded(r)
  OBVIOUS
<1>9. /\ OperationalRemaining(r) \in Nat /\ b \in Seq(EventsOf(r))
      /\ \A name : Says(r, b, name)
                     = IF "OperationalAllowanceRefunded" = name THEN OperationalRemaining(r) ELSE 0
      /\ \A w : Booked(b, PaidTo(r, w)) = 0
  BY <1>8, ReserveSays
<1>10. Refunded(r) = a \o b
  BY <1>1, <1>2, <1>3, <1>4, <1>8 DEF Refunded
<1>11. /\ a \o b \in Seq(EventsOf(r))
       /\ \A name : Says(r, a \o b, name) = Says(r, a, name) + Says(r, b, name)
       /\ \A w : Booked(a \o b, PaidTo(r, w)) = Booked(a, PaidTo(r, w)) + Booked(b, PaidTo(r, w))
  BY <1>7, <1>9, BlocksOf
<1>12. QED BY <1>1, <1>3, <1>5, <1>7, <1>9, <1>10, <1>11

LEMMA RefundRecorded ==
  ASSUME IInv, NEW r \in RequestIds, RequestExists(r), Refund(r),
         NEW es \in Seq(EventsOf(r)), log' = Append(log, es),
         \A name \in PaymentEvents : Says(r, es, name) = Says(r, Refunded(r), name),
         \A w : Booked(es, PaidTo(r, w)) = Booked(Refunded(r), PaidTo(r, w))
  PROVE  Recorded(es)
<1>1. PICK remaining \in Nat : remaining = EscrowBalance(r)
  BY RefundSays
<1>2. PICK operational \in Nat : operational = OperationalRemaining(r)
  BY RefundSays
<1>3. /\ requests' = [requests EXCEPT ![r].refundedAmount = @ + remaining,
                                      ![r].operationalSpent = @ + operational,
                                      ![r].status = "Refunded"]
      /\ remaining > 0 /\ tipAmounts' = tipAmounts
  BY <1>1, <1>2 DEF Refund
<1>4. PICK old : old = requests[r]
  OBVIOUS
<1>5. requests \in [RequestIds -> Requests] /\ WasFunded(requests[r])
  BY <1>1, <1>3, Figures, FundedFacts
<1>6. /\ requests'[r].refundedAmount = old.refundedAmount + remaining
      /\ requests'[r].operationalSpent = old.operationalSpent + operational
      /\ requests'[r].operationalAllowance = old.operationalAllowance
      /\ requests'[r].totalAmount = old.totalAmount
      /\ requests'[r].releasedAmount = old.releasedAmount
      /\ requests'[r].status = "Refunded"
      /\ requests'[r].proposedAmount = old.proposedAmount /\ requests'[r].carrier = old.carrier
  BY <1>3, <1>4, <1>5 DEF Requests
<1>7. OthersKept(r)
  BY <1>3, <1>5 DEF OthersKept
<1>8. /\ Says(r, es, "EscrowFunded") = 0 /\ Says(r, es, "PaymentReleased") = 0
      /\ Says(r, es, "RefundIssued") = remaining /\ Says(r, es, "OperationalAllowanceFunded") = 0
      /\ Says(r, es, "OperationalAllowanceReimbursed") = 0
      /\ Says(r, es, "OperationalAllowanceRefunded") = operational
      /\ \A w : Booked(es, PaidTo(r, w)) = 0
  BY <1>1, <1>2, RefundSays DEF PaymentEvents
<1>9. /\ requests'[r].totalAmount = requests[r].totalAmount + Says(r, es, "EscrowFunded")
      /\ requests'[r].releasedAmount = requests[r].releasedAmount + Says(r, es, "PaymentReleased")
      /\ requests'[r].refundedAmount = requests[r].refundedAmount + Says(r, es, "RefundIssued")
      /\ requests'[r].operationalAllowance
           = requests[r].operationalAllowance + Says(r, es, "OperationalAllowanceFunded")
      /\ requests'[r].operationalSpent
           = requests[r].operationalSpent + Says(r, es, "OperationalAllowanceReimbursed")
               + Says(r, es, "OperationalAllowanceRefunded")
      /\ requests'[r].carrier = requests[r].carrier
      /\ requests'[r].proposedAmount = requests[r].proposedAmount
  <2>1. /\ old.totalAmount \in Nat /\ old.releasedAmount \in Nat /\ old.refundedAmount \in Nat
        /\ old.operationalAllowance \in Nat /\ old.operationalSpent \in Nat
    BY <1>4, <1>5, RequestFigures
  <2>2. QED BY <1>4, <1>6, <1>8, <2>1
<1>10. \A w \in Parties : Booked(es, PaidTo(r, w))
             = IF w = requests[r].carrier THEN Says(r, es, "PaymentReleased") ELSE 0
  BY <1>8
<1>11. ~Active(r)'
  BY <1>6 DEF Active
<1>12. QED BY <1>3, <1>5, <1>7, <1>9, <1>10, <1>11, MoneyRecorded

LEMMA ExpiryRecorded ==
  ASSUME IInv, NEW r \in RequestIds, RefundRemaining(r),
         EmitEnd((IF Overdue(r) THEN <<Of(r, "RequestExpired", requests[r].carrier)>> ELSE <<>>)
                   \o Refunded(r))
  PROVE  \E es : Recorded(es)
<1>1. RequestExists(r) /\ Refund(r)
  BY DEF RefundRemaining
<1>2. PICK a : a = IF Overdue(r) THEN <<Of(r, "RequestExpired", requests[r].carrier)>> ELSE <<>>
  OBVIOUS
<1>3. PICK b : b = Refunded(r)
  OBVIOUS
<1> DEFINE es == a \o b
<1>4. log' = Append(log, es)
  BY <1>2, <1>3 DEF EmitEnd
<1>5. a \in Seq(QuietOf(r))
  <2>1. requests[r].carrier \in Parties
    BY Figures DEF Requests, Parties
  <2>2. <<Of(r, "RequestExpired", requests[r].carrier)>> \in Seq(QuietOf(r))
    BY <2>1, QuietParty DEF QuietNames
  <2>3. <<>> \in Seq(QuietOf(r))
    <3> HIDE DEF QuietOf
    <3>1. QED OBVIOUS
  <2>4. QED BY <1>2, <2>2, <2>3
<1>6. /\ a \in Seq(EventsOf(r)) /\ \A name \in PaymentEvents : Says(r, a, name) = 0
      /\ \A w : Booked(a, PaidTo(r, w)) = 0
  BY <1>5, QuietBlock
<1>7. b \in Seq(EventsOf(r))
  BY <1>3, RefundSays
<1>8. /\ es \in Seq(EventsOf(r))
      /\ \A name : Says(r, es, name) = Says(r, a, name) + Says(r, b, name)
      /\ \A w : Booked(es, PaidTo(r, w)) = Booked(a, PaidTo(r, w)) + Booked(b, PaidTo(r, w))
      /\ \A name : Says(r, b, name) \in Nat /\ \A w : Booked(b, PaidTo(r, w)) \in Nat
  BY <1>6, <1>7, BlocksOf
<1> HIDE DEF es
<1>9. /\ \A name \in PaymentEvents : Says(r, es, name) = Says(r, Refunded(r), name)
      /\ \A w : Booked(es, PaidTo(r, w)) = Booked(Refunded(r), PaidTo(r, w))
  BY <1>3, <1>6, <1>8
<1>10. QED BY <1>1, <1>4, <1>8, <1>9, RefundRecorded

LEMMA MutualRecorded ==
  ASSUME IInv, NEW r \in RequestIds, NEW c, AcceptCancellation(r, c),
         Emit(<<Event(r, "RequestCancelled")>> \o Refunded(r) \o <<Event(r, "CancellationAccepted")>>)
  PROVE  \E es : Recorded(es)
<1>1. RequestExists(r) /\ Refund(r)
  BY DEF AcceptCancellation, FinalizeMutualCancellation
<1>2. PICK a : a = <<Event(r, "RequestCancelled")>>
  OBVIOUS
<1>3. PICK b : b = Refunded(r)
  OBVIOUS
<1>4. PICK c1 : c1 = <<Event(r, "CancellationAccepted")>>
  OBVIOUS
<1>5. PICK front : front = a \o b
  OBVIOUS
<1> DEFINE es == front \o c1
<1>6. log' = Append(log, es)
  BY <1>2, <1>3, <1>4, <1>5 DEF Emit, EmitEnd
<1>7. a \in Seq(QuietOf(r)) /\ c1 \in Seq(QuietOf(r))
  BY <1>2, <1>4, QuietEvent DEF QuietNames
<1>8. /\ a \in Seq(EventsOf(r)) /\ \A name \in PaymentEvents : Says(r, a, name) = 0
      /\ \A w : Booked(a, PaidTo(r, w)) = 0
  BY <1>7, QuietBlock
<1>9. /\ c1 \in Seq(EventsOf(r)) /\ \A name \in PaymentEvents : Says(r, c1, name) = 0
      /\ \A w : Booked(c1, PaidTo(r, w)) = 0
  BY <1>7, QuietBlock
<1>10. b \in Seq(EventsOf(r))
  BY <1>3, RefundSays
<1>11. /\ front \in Seq(EventsOf(r))
       /\ \A name : Says(r, front, name) = Says(r, a, name) + Says(r, b, name)
       /\ \A w : Booked(front, PaidTo(r, w)) = Booked(a, PaidTo(r, w)) + Booked(b, PaidTo(r, w))
       /\ \A name : Says(r, b, name) \in Nat
       /\ \A w : Booked(b, PaidTo(r, w)) \in Nat
  BY <1>5, <1>8, <1>10, BlocksOf
<1>12. /\ es \in Seq(EventsOf(r))
       /\ \A name : Says(r, es, name) = Says(r, front, name) + Says(r, c1, name)
       /\ \A w : Booked(es, PaidTo(r, w)) = Booked(front, PaidTo(r, w)) + Booked(c1, PaidTo(r, w))
  BY <1>9, <1>11, BlocksOf
<1> HIDE DEF es
<1>13. /\ \A name \in PaymentEvents : Says(r, es, name) = Says(r, Refunded(r), name)
       /\ \A w : Booked(es, PaidTo(r, w)) = Booked(Refunded(r), PaidTo(r, w))
  BY <1>3, <1>8, <1>9, <1>11, <1>12
<1>14. QED BY <1>1, <1>6, <1>12, <1>13, RefundRecorded

(* A verified milestone is paid, and with the last one the reserve goes     *)
(* back.                                                                    *)
PaymentBlock(r, m, carrier, amount) ==
  <<Step(r, "MilestoneVerified", m), [Step(r, "MilestonePaid", m) EXCEPT !.amount = amount],
    [Money(r, "PaymentReleased", carrier, amount) EXCEPT !.milestone = m]>>

LEMMA PaidSays ==
  ASSUME NEW r \in RequestIds, NEW m \in MilestoneIds, NEW carrier \in Parties, NEW amount \in Nat,
         NEW a, a = PaymentBlock(r, m, carrier, amount)
  PROVE  /\ a \in Seq(EventsOf(r))
         /\ \A name \in PaymentEvents : Says(r, a, name) = IF "PaymentReleased" = name THEN amount ELSE 0
         /\ \A w : Booked(a, PaidTo(r, w)) = IF carrier = w THEN amount ELSE 0
<1>1. m \in Int
  BY DEF MilestoneIds
<1>2. {"MilestoneVerified", "MilestonePaid", "PaymentReleased"} \subseteq EventNames
  BY DEF EventNames, QuietNames, PaymentEvents
<1>3. NoUser \in Parties /\ 0 \in Nat
  BY DEF Parties
<1>4. \A e \in LogEvents :
        LET priced == [e EXCEPT !.amount = amount]
            placed == [e EXCEPT !.milestone = m]
        IN  /\ priced \in LogEvents /\ priced.request = e.request /\ priced.name = e.name
            /\ priced.amount = amount
            /\ placed \in LogEvents /\ placed.request = e.request /\ placed.name = e.name
            /\ placed.amount = e.amount /\ placed.party = e.party
  BY <1>1 DEF LogEvents
<1>5. PICK x : x = Step(r, "MilestoneVerified", m)
  OBVIOUS
<1>6. PICK y : y = [Step(r, "MilestonePaid", m) EXCEPT !.amount = amount]
  OBVIOUS
<1>7. PICK z : z = [Money(r, "PaymentReleased", carrier, amount) EXCEPT !.milestone = m]
  OBVIOUS
<1>8. x \in LogEvents /\ x.request = r /\ x.name = "MilestoneVerified" /\ x.amount = 0
  BY <1>1, <1>2, <1>3, <1>5, EventsAreTyped
<1>9. y \in LogEvents /\ y.request = r /\ y.name = "MilestonePaid" /\ y.amount = amount
  <2>1. /\ Step(r, "MilestonePaid", m) \in LogEvents /\ Step(r, "MilestonePaid", m).request = r
        /\ Step(r, "MilestonePaid", m).name = "MilestonePaid"
    BY <1>1, <1>2, <1>3, EventsAreTyped
  <2>2. QED BY <1>4, <1>6, <2>1
<1>10. /\ z \in LogEvents /\ z.request = r /\ z.name = "PaymentReleased" /\ z.amount = amount
       /\ z.party = carrier
  <2>1. /\ Money(r, "PaymentReleased", carrier, amount) \in LogEvents
        /\ Money(r, "PaymentReleased", carrier, amount).request = r
        /\ Money(r, "PaymentReleased", carrier, amount).name = "PaymentReleased"
        /\ Money(r, "PaymentReleased", carrier, amount).amount = amount
        /\ Money(r, "PaymentReleased", carrier, amount).party = carrier
    BY <1>1, <1>2, <1>3, EventsAreTyped
  <2>2. QED BY <1>4, <1>7, <2>1
<1>11. x \in EventsOf(r) /\ y \in EventsOf(r) /\ z \in EventsOf(r) /\ a = <<x, y, z>>
  BY <1>5, <1>6, <1>7, <1>8, <1>9, <1>10 DEF EventsOf, PaymentBlock
<1>12. /\ a \in Seq(EventsOf(r))
       /\ \A name : Says(r, a, name) = AmountNamed(x, name) + AmountNamed(y, name) + AmountNamed(z, name)
       /\ \A w : Booked(a, PaidTo(r, w)) = AmountPaidTo(x, w) + AmountPaidTo(y, w) + AmountPaidTo(z, w)
  BY <1>11, ThreeSaid
<1>13. \A name \in PaymentEvents :
         /\ AmountNamed(x, name) = 0 /\ AmountNamed(y, name) = 0
         /\ AmountNamed(z, name) = IF "PaymentReleased" = name THEN amount ELSE 0
  <2>1. "MilestoneVerified" \notin PaymentEvents /\ "MilestonePaid" \notin PaymentEvents
    BY DEF PaymentEvents
  <2>2. QED BY <1>8, <1>9, <1>10, <2>1 DEF AmountNamed
<1>14. \A w : /\ AmountPaidTo(x, w) = 0 /\ AmountPaidTo(y, w) = 0
              /\ AmountPaidTo(z, w) = IF carrier = w THEN amount ELSE 0
  BY <1>8, <1>9, <1>10 DEF AmountPaidTo, PaidOutNames
<1>15. QED BY <1>12, <1>13, <1>14

LEMMA ApproveRecorded ==
  ASSUME IInv, NEW r \in RequestIds, NEW m \in MilestoneIds, NEW k, Active(r),
         ApproveMilestone(r, m, k),
         LET amount  == milestones[r][m].payoutAmount + milestones[r][m].additionalPayoutAmount
             carrier == requests[r].carrier
         IN  Emit(<<Step(r, "MilestoneVerified", m),
                    [Step(r, "MilestonePaid", m) EXCEPT !.amount = amount],
                    [Money(r, "PaymentReleased", carrier, amount) EXCEPT !.milestone = m]>>
                  \o IF requests'[r].status = "Completed"
                     THEN <<[Of(r, "RequestCompleted", carrier) EXCEPT !.completedAt = now]>>
                            \o ReserveRefunded(r)
                     ELSE <<>>)
  PROVE  \E es : Recorded(es)
<1>1. PICK amount : amount = milestones[r][m].payoutAmount + milestones[r][m].additionalPayoutAmount
  OBVIOUS
<1>2. amount \in Nat
  <2>1. milestones[r][m] \in Milestones
    BY StateTypes
  <2>2. QED BY <1>1, <2>1 DEF Milestones
<1>3. PICK carrier \in Parties : carrier = requests[r].carrier
  BY Figures DEF Requests, Parties
<1>4. PICK completed : completed = AllPaid(executionOrder[r], [milestones[r] EXCEPT ![m].status = "Paid"])
  OBVIOUS
<1>5. PICK returned : returned = IF completed THEN OperationalRemaining(r) ELSE 0
  OBVIOUS
<1>6. returned \in Nat
  BY <1>5, ReserveSays
<1>7. /\ requests' = [requests EXCEPT ![r].releasedAmount = @ + amount,
                                      ![r].status = IF completed THEN "Completed" ELSE @,
                                      ![r].operationalSpent = @ + returned]
      /\ tipAmounts' = tipAmounts
  BY <1>1, <1>4, <1>5 DEF ApproveMilestone
<1>8. PICK old : old = requests[r]
  OBVIOUS
<1>9. requests \in [RequestIds -> Requests]
  BY Figures
<1>10. /\ requests'[r].status = IF completed THEN "Completed" ELSE old.status
       /\ requests'[r].operationalSpent = old.operationalSpent + returned
       /\ requests'[r].operationalAllowance = old.operationalAllowance
       /\ requests'[r].totalAmount = old.totalAmount
       /\ requests'[r].releasedAmount = old.releasedAmount + amount
       /\ requests'[r].refundedAmount = old.refundedAmount
       /\ requests'[r].proposedAmount = old.proposedAmount /\ requests'[r].carrier = old.carrier
  BY <1>7, <1>8, <1>9 DEF Requests
<1>11. OthersKept(r)
  BY <1>7, <1>9 DEF OthersKept
<1>12. PICK a : a = PaymentBlock(r, m, carrier, amount)
  OBVIOUS
<1>13. PICK b : b = IF requests'[r].status = "Completed"
                    THEN <<[Of(r, "RequestCompleted", carrier) EXCEPT !.completedAt = now]>>
                           \o ReserveRefunded(r)
                    ELSE <<>>
  OBVIOUS
<1> DEFINE es == a \o b
<1>14. log' = Append(log, es)
  BY <1>1, <1>3, <1>12, <1>13 DEF Emit, EmitEnd, PaymentBlock
<1>15. /\ a \in Seq(EventsOf(r))
       /\ \A name \in PaymentEvents : Says(r, a, name) = IF "PaymentReleased" = name THEN amount ELSE 0
       /\ \A w : Booked(a, PaidTo(r, w)) = IF carrier = w THEN amount ELSE 0
  BY <1>2, <1>12, PaidSays
<1>16. requests'[r].status = "Completed" <=> completed
  BY <1>8, <1>10 DEF Active
<1>17. /\ b \in Seq(EventsOf(r))
       /\ \A name \in PaymentEvents :
            Says(r, b, name) = IF "OperationalAllowanceRefunded" = name THEN returned ELSE 0
       /\ \A w : Booked(b, PaidTo(r, w)) = 0
  <2>1. CASE completed
    <3>1. PICK c : c = <<[Of(r, "RequestCompleted", carrier) EXCEPT !.completedAt = now]>>
      OBVIOUS
    <3>2. PICK d : d = ReserveRefunded(r)
      OBVIOUS
    <3>3. b = c \o d
      BY <1>13, <1>16, <2>1, <3>1, <3>2
    <3>4. c \in Seq(QuietOf(r))
      <4>1. \A e \in LogEvents :
              LET dated == [e EXCEPT !.completedAt = now]
              IN  dated \in LogEvents /\ dated.request = e.request /\ dated.name = e.name
        BY DEF LogEvents, IInv, ClockOK
      <4>2. PICK e : e = [Of(r, "RequestCompleted", carrier) EXCEPT !.completedAt = now]
        OBVIOUS
      <4>3. "RequestCompleted" \in QuietNames /\ "RequestCompleted" \in EventNames /\ 0 \in Nat /\ 0 \in Int
        BY DEF QuietNames, EventNames
      <4>4. /\ Of(r, "RequestCompleted", carrier) \in LogEvents
            /\ Of(r, "RequestCompleted", carrier).request = r
            /\ Of(r, "RequestCompleted", carrier).name = "RequestCompleted"
        BY <4>3, EventsAreTyped
      <4>5. e \in LogEvents /\ e.request = r /\ e.name \in QuietNames
        BY <4>1, <4>2, <4>3, <4>4
      <4>6. QED BY <3>1, <4>2, <4>5, QuietIs
    <3>5. /\ c \in Seq(EventsOf(r)) /\ \A name \in PaymentEvents : Says(r, c, name) = 0
          /\ \A w : Booked(c, PaidTo(r, w)) = 0
      BY <3>4, QuietBlock
    <3>6. /\ d \in Seq(EventsOf(r))
          /\ \A name : Says(r, d, name) = IF "OperationalAllowanceRefunded" = name THEN returned ELSE 0
          /\ \A w : Booked(d, PaidTo(r, w)) = 0
      BY <1>5, <2>1, <3>2, ReserveSays
    <3>7. /\ c \o d \in Seq(EventsOf(r))
          /\ \A name : Says(r, c \o d, name) = Says(r, c, name) + Says(r, d, name)
          /\ \A w : Booked(c \o d, PaidTo(r, w)) = Booked(c, PaidTo(r, w)) + Booked(d, PaidTo(r, w))
      BY <3>5, <3>6, BlocksOf
    <3>8. QED BY <1>6, <3>3, <3>5, <3>6, <3>7
  <2>2. CASE ~completed
    <3>1. b = <<>> /\ returned = 0
      BY <1>5, <1>13, <1>16, <2>2
    <3>2. b \in Seq(QuietOf(r))
      <4> HIDE DEF QuietOf
      <4>1. QED BY <3>1
    <3>3. QED BY <3>1, <3>2, QuietBlock
  <2>3. QED BY <2>1, <2>2
<1>18. /\ es \in Seq(EventsOf(r))
       /\ \A name : Says(r, es, name) = Says(r, a, name) + Says(r, b, name)
       /\ \A w : Booked(es, PaidTo(r, w)) = Booked(a, PaidTo(r, w)) + Booked(b, PaidTo(r, w))
  BY <1>15, <1>17, BlocksOf
<1> HIDE DEF es
<1>19. /\ Says(r, es, "EscrowFunded") = 0 /\ Says(r, es, "PaymentReleased") = amount
       /\ Says(r, es, "RefundIssued") = 0 /\ Says(r, es, "OperationalAllowanceFunded") = 0
       /\ Says(r, es, "OperationalAllowanceReimbursed") = 0
       /\ Says(r, es, "OperationalAllowanceRefunded") = returned
       /\ \A w : Booked(es, PaidTo(r, w)) = IF carrier = w THEN amount ELSE 0
  BY <1>2, <1>6, <1>15, <1>17, <1>18 DEF PaymentEvents
<1>20. /\ requests'[r].totalAmount = requests[r].totalAmount + Says(r, es, "EscrowFunded")
       /\ requests'[r].releasedAmount = requests[r].releasedAmount + Says(r, es, "PaymentReleased")
       /\ requests'[r].refundedAmount = requests[r].refundedAmount + Says(r, es, "RefundIssued")
       /\ requests'[r].operationalAllowance
            = requests[r].operationalAllowance + Says(r, es, "OperationalAllowanceFunded")
       /\ requests'[r].operationalSpent
            = requests[r].operationalSpent + Says(r, es, "OperationalAllowanceReimbursed")
                + Says(r, es, "OperationalAllowanceRefunded")
       /\ requests'[r].carrier = requests[r].carrier
       /\ requests'[r].proposedAmount = requests[r].proposedAmount
  <2>1. /\ old.totalAmount \in Nat /\ old.releasedAmount \in Nat /\ old.refundedAmount \in Nat
        /\ old.operationalAllowance \in Nat /\ old.operationalSpent \in Nat
    BY <1>8, <1>9, RequestFigures
  <2>2. QED BY <1>6, <1>8, <1>10, <1>19, <2>1
<1>21. \A w \in Parties : Booked(es, PaidTo(r, w))
             = IF w = requests[r].carrier THEN Says(r, es, "PaymentReleased") ELSE 0
  BY <1>3, <1>19
<1>22. Active(r)' => Active(r) /\ Says(r, es, "OperationalAllowanceRefunded") = 0
  BY <1>5, <1>10, <1>19 DEF Active
<1>w. WasFunded(requests[r])
  BY DEF Active, WasFunded
<1>23. QED BY <1>w, <1>7, <1>11, <1>14, <1>18, <1>20, <1>21, <1>22, MoneyRecorded

LEMMA AcceptRecorded ==
  ASSUME ChainInv, NEW r \in RequestIds, NEW a, NEW gas \in Nat, NEW price \in Nat,
         AcceptAmendment(r, a, gas, price),
         LET amendment == amendmentRequests[r][a] IN
         Emit(Amended(r, amendment.additionalFunding, amendment.operationalAllowance)
                \o ResponseSettled(r, amendment, ResponseReimbursement(amendment, gas, price))
                \o <<Event(r, "AmendmentAccepted")>>)
  PROVE  \E es : Recorded(es)
<1>1. EscrowInv /\ NegotiationInv /\ ManagerHoldsTheStakes /\ IInv
  BY ChainFacts
<1>2. PICK amendment : amendment = amendmentRequests[r][a]
  OBVIOUS
<1>3. /\ amendment \in Amendments /\ PendingOK(amendment) /\ amendment.status = "Pending"
      /\ PaidAmendment(r, amendment.proposedDeadline, amendment.existing, amendment.additions,
                       amendment.operationalAllowance)
      /\ amendment.existing \in Fundings(r) /\ amendment.additions \in Additions(r)
  <2>1. PendingAmendment(r, a)
    BY DEF AcceptAmendment
  <2>2. amendment \in Amendments /\ PendingOK(amendment) /\ amendment.status = "Pending"
    BY <1>1, <1>2, <2>1, PendingFacts
  <2>3. /\ PaidAmendment(r, amendment.proposedDeadline, amendment.existing, amendment.additions,
                         amendment.operationalAllowance)
        /\ amendment.existing \in Fundings(r) /\ amendment.additions \in Additions(r)
    BY <1>1, <1>2, AcceptFacts
  <2>4. QED BY <2>2, <2>3
<1>4. /\ amendment.responseAllowanceSpent = 0
      /\ amendment.additionalFunding = Allocated(amendment.existing, amendment.additions)
      /\ amendment.additionalFunding \in Nat /\ amendment.operationalAllowance \in Nat
      /\ amendment.proposedDeadline \in Deadlines
  BY <1>3 DEF PendingOK, Amendments
<1>5. PICK reimbursed : reimbursed = ResponseReimbursement(amendment, gas, price)
  OBVIOUS
<1>6. reimbursed \in Nat /\ reimbursed <= amendment.responseAllowance
  BY <1>3, <1>4, <1>5, ReimbursementWithin
<1>7. PICK escrow \in Parties : escrow = Escrow
  BY DEF Parties
<1>8. PICK funding \in Nat : funding = amendment.additionalFunding
  BY <1>4
<1>9. PICK operational \in Nat : operational = amendment.operationalAllowance
  BY <1>4
<1>10. PICK n1, n2 : n1 = "EscrowFunded" /\ n2 = "OperationalAllowanceFunded"
  OBVIOUS
<1>11. PICK b1 : b1 = IfAny(Money(r, n1, escrow, funding))
  OBVIOUS
<1>12. PICK b2 : b2 = IfAny(Money(r, n2, escrow, operational))
  OBVIOUS
<1>13. n1 \in PaymentEvents /\ n2 \in PaymentEvents /\ n1 \notin PaidOutNames /\ n2 \notin PaidOutNames
  BY <1>10 DEF PaymentEvents, PaidOutNames
<1>14. /\ b1 \in Seq(EventsOf(r))
       /\ \A name : Says(r, b1, name) = IF n1 = name THEN funding ELSE 0
       /\ \A w : Booked(b1, PaidTo(r, w)) = 0
  <2>1. /\ r \in RequestIds /\ escrow \in Parties /\ funding \in Nat
        /\ b1 = <<Money(r, n1, escrow, funding)>> \/ b1 = IfAny(Money(r, n1, escrow, funding))
    BY <1>11
  <2>2. /\ b1 \in Seq(EventsOf(r))
        /\ \A name : Says(r, b1, name) = IF n1 = name THEN funding ELSE 0
        /\ \A w : Booked(b1, PaidTo(r, w)) = IF n1 \in PaidOutNames /\ escrow = w THEN funding ELSE 0
    BY ONLY <1>13, <2>1, MoneyBlock
  <2>3. QED BY <1>13, <2>2
<1>15. /\ b2 \in Seq(EventsOf(r))
       /\ \A name : Says(r, b2, name) = IF n2 = name THEN operational ELSE 0
       /\ \A w : Booked(b2, PaidTo(r, w)) = 0
  <2>1. /\ r \in RequestIds /\ escrow \in Parties /\ operational \in Nat
        /\ b2 = <<Money(r, n2, escrow, operational)>> \/ b2 = IfAny(Money(r, n2, escrow, operational))
    BY <1>12
  <2>2. /\ b2 \in Seq(EventsOf(r))
        /\ \A name : Says(r, b2, name) = IF n2 = name THEN operational ELSE 0
        /\ \A w : Booked(b2, PaidTo(r, w)) = IF n2 \in PaidOutNames /\ escrow = w THEN operational ELSE 0
    BY ONLY <1>13, <2>1, MoneyBlock
  <2>3. QED BY <1>13, <2>2
<1>16. PICK paid : paid = b1 \o b2
  OBVIOUS
<1>17. PICK settled : settled = ResponseSettled(r, amendment, reimbursed)
  OBVIOUS
<1>18. PICK answer : answer = <<Event(r, "AmendmentAccepted")>>
  OBVIOUS
<1>19. PICK front : front = paid \o settled
  OBVIOUS
<1> DEFINE es == front \o answer
<1>20. log' = Append(log, es)
  <2>1. Amended(r, amendment.additionalFunding, amendment.operationalAllowance) = paid
    BY <1>7, <1>8, <1>9, <1>10, <1>11, <1>12, <1>16 DEF Amended
  <2>2. QED BY <1>2, <1>5, <1>17, <1>18, <1>19, <2>1 DEF Emit, EmitEnd
<1>21. settled \in Seq(QuietOf(r)) /\ answer \in Seq(QuietOf(r))
  <2>1. settled \in Seq(QuietOf(r))
    BY <1>3, <1>4, <1>6, <1>17, SettledQuietly
  <2>2. answer \in Seq(QuietOf(r))
    BY <1>18, QuietEvent DEF QuietNames
  <2>3. QED BY <2>1, <2>2
<1>22. /\ settled \in Seq(EventsOf(r)) /\ \A name \in PaymentEvents : Says(r, settled, name) = 0
       /\ \A w : Booked(settled, PaidTo(r, w)) = 0
  BY <1>21, QuietBlock
<1>23. /\ answer \in Seq(EventsOf(r)) /\ \A name \in PaymentEvents : Says(r, answer, name) = 0
       /\ \A w : Booked(answer, PaidTo(r, w)) = 0
  BY <1>21, QuietBlock
<1>24. /\ paid \in Seq(EventsOf(r))
       /\ \A name : Says(r, paid, name) = Says(r, b1, name) + Says(r, b2, name)
       /\ \A w : Booked(paid, PaidTo(r, w)) = Booked(b1, PaidTo(r, w)) + Booked(b2, PaidTo(r, w))
  BY <1>14, <1>15, <1>16, BlocksOf
<1>25. /\ front \in Seq(EventsOf(r))
       /\ \A name : Says(r, front, name) = Says(r, paid, name) + Says(r, settled, name)
       /\ \A w : Booked(front, PaidTo(r, w)) = Booked(paid, PaidTo(r, w)) + Booked(settled, PaidTo(r, w))
  BY <1>19, <1>22, <1>24, BlocksOf
<1>26. /\ es \in Seq(EventsOf(r))
       /\ \A name : Says(r, es, name) = Says(r, front, name) + Says(r, answer, name)
       /\ \A w : Booked(es, PaidTo(r, w)) = Booked(front, PaidTo(r, w)) + Booked(answer, PaidTo(r, w))
  BY <1>23, <1>25, BlocksOf
<1> HIDE DEF es
<1>27. \A name \in PaymentEvents : Says(r, es, name) = Says(r, b1, name) + Says(r, b2, name)
  <2>1. \A name : Says(r, b1, name) \in Nat /\ Says(r, b2, name) \in Nat
    BY <1>14, <1>15, BlocksOf
  <2>2. QED BY <1>22, <1>23, <1>24, <1>25, <1>26, <2>1
<1>28. \A w : Booked(es, PaidTo(r, w)) = 0
  BY <1>14, <1>15, <1>22, <1>23, <1>24, <1>25, <1>26
<1>29. /\ Says(r, es, "EscrowFunded") = funding /\ Says(r, es, "OperationalAllowanceFunded") = operational
       /\ Says(r, es, "PaymentReleased") = 0 /\ Says(r, es, "RefundIssued") = 0
       /\ Says(r, es, "OperationalAllowanceReimbursed") = 0
       /\ Says(r, es, "OperationalAllowanceRefunded") = 0
  BY <1>10, <1>14, <1>15, <1>27 DEF PaymentEvents
<1>30. Explained(r, es) /\ OthersKept(r)
  <2>1. Amends(r, amendment.proposedDeadline, amendment.existing, amendment.additions,
               amendment.operationalAllowance)
    BY <1>3 DEF PaidAmendment
  <2>2. PICK newDeadline, existing, additions :
          /\ newDeadline = amendment.proposedDeadline /\ existing = amendment.existing
          /\ additions = amendment.additions
    OBVIOUS
  <2>3. /\ newDeadline \in Deadlines /\ existing \in Fundings(r) /\ additions \in Additions(r)
        /\ operational \in Nat /\ Amends(r, newDeadline, existing, additions, operational)
        /\ funding = Allocated(existing, additions)
    BY <1>3, <1>4, <1>8, <1>9, <2>1, <2>2
  <2>4. Says(r, es, "EscrowFunded") = Allocated(existing, additions)
    BY <1>29, <2>3
  <2>5. QED BY <1>1, <1>26, <1>28, <1>29, <2>3, <2>4, AmendsExplained
<1>31. QED BY <1>1, <1>20, <1>26, <1>30, RecordedOfOne

-----------------------------------------------------------------------------
(* Part IV.  The ledger always balances.                                    *)

(* Every step of the system with its log is one of the system without.      *)
LEMMA EscrowEventsMove ==
  ASSUME EscrowEvents
  PROVE  EscrowStep
<1>1. CASE Tick
  BY <1>1 DEF EscrowStep
<1>2. ASSUME NEW u \in Shippers, NEW deadline \in Deadlines, NEW amount \in Amounts,
             CreateRequest(u, deadline, amount)
      PROVE  EscrowStep
  <2>1. u \in Users
    BY RecordsAssumption
  <2>2. QED BY <1>2, <2>1 DEF EscrowStep
<1>3. ASSUME NEW r \in RequestIds, ProposalEvents(r) PROVE EscrowStep
  <2>1. \A u \in Carriers : u \in Users
    BY RecordsAssumption
  <2>2. MarketStep(r)
    BY <1>3, <2>1 DEF ProposalEvents, MarketStep
  <2>3. QED BY <2>2 DEF EscrowStep
<1>4. ASSUME NEW r \in RequestIds, ProofEvents(r) PROVE EscrowStep
  <2>1. CarrierStep(r)
    BY <1>4 DEF ProofEvents, CarrierStep
  <2>2. QED BY <2>1 DEF EscrowStep
<1>5. ASSUME NEW r \in RequestIds, ReviewEvents(r) PROVE EscrowStep
  <2>1. ReviewStep(r)
    BY <1>5 DEF ReviewEvents, ReviewStep
  <2>2. QED BY <2>1 DEF EscrowStep
<1>6. ASSUME NEW r \in RequestIds, SettlementEvents(r) PROVE EscrowStep
  <2>1. SettlementStep(r)
    BY <1>6 DEF SettlementEvents, SettlementStep
  <2>2. QED BY <2>1 DEF EscrowStep
<1>7. QED BY <1>1, <1>2, <1>3, <1>4, <1>5, <1>6 DEF EscrowEvents

LEMMA AmendmentEventsMove ==
  ASSUME IInv, NEW r \in RequestIds, AmendmentEvents(r)
  PROVE  AmendmentStep(r)
<1>1. ASSUME NEW who \in Participants(r), NEW proposedDeadline \in Deadlines,
             NEW responseDeadline \in Deadlines, NEW existing \in Fundings(r),
             NEW additions \in Additions(r), NEW price \in ReferenceGasPrices,
             NEW allowance \in ResponseAllowances,
             RequestAmendment(r, who, proposedDeadline, responseDeadline,
                              existing, additions, price, allowance)
      PROVE  AmendmentStep(r)
  <2>1. NegotiableShipment(r)
    BY <1>1 DEF RequestAmendment, AmendmentTerms
  <2>2. who \in Users
    BY <2>1, ParticipantsAreUsers
  <2>3. QED BY <1>1, <2>2 DEF AmendmentStep
<1>2. ASSUME NEW newDeadline \in Deadlines, ExtendShipmentDeadline(r, newDeadline)
      PROVE  AmendmentStep(r)
  BY <1>2 DEF AmendmentStep
<1>3. ASSUME NEW a \in 1 .. MaxNegotiations, AnswerAmendmentEvents(r, a)
      PROVE  AmendmentStep(r)
  BY <1>3 DEF AnswerAmendmentEvents, AmendmentStep
<1>4. QED BY <1>1, <1>2, <1>3 DEF AmendmentEvents, RequestAmendmentEvents

LEMMA CancellationEventsMove ==
  ASSUME IInv, NEW r \in RequestIds, CancellationEvents(r)
  PROVE  CancellationStep(r)
<1>1. ASSUME NEW who \in Participants(r), NEW responseDeadline \in Deadlines,
             RequestCancellation(r, who, responseDeadline)
      PROVE  CancellationStep(r)
  <2>1. NegotiableShipment(r)
    BY <1>1 DEF RequestCancellation, CancellationTerms
  <2>2. who \in Users
    BY <2>1, ParticipantsAreUsers
  <2>3. QED BY <1>1, <2>2 DEF CancellationStep
<1>2. QED BY <1>1 DEF CancellationEvents, CancellationStep

LEMMA RecordsMove ==
  ASSUME ChainInv, [RecordsNext]_recordVars
  PROVE  [ChainNext]_chainVars
<1>1. IInv
  BY ChainFacts
<1>2. CASE EscrowEvents /\ UNCHANGED <<negotiationVars, ratingVars>>
  <2>1. EscrowStep /\ UNCHANGED negotiationVars
    BY <1>2, EscrowEventsMove
  <2>2. QED BY <2>1 DEF ChainNext
<1>3. ASSUME NEW r \in RequestIds, AmendmentEvents(r) PROVE [ChainNext]_chainVars
  BY <1>1, <1>3, AmendmentEventsMove DEF ChainNext
<1>4. ASSUME NEW r \in RequestIds, CancellationEvents(r) PROVE [ChainNext]_chainVars
  BY <1>1, <1>4, CancellationEventsMove DEF ChainNext
<1>5. ASSUME NEW r \in RequestIds, PublishRating(r) PROVE [ChainNext]_chainVars
  BY <1>5 DEF PublishRating, SubmitCarrierRating
<1>6. CASE UNCHANGED recordVars
  BY <1>6 DEF recordVars
<1>7. QED BY <1>2, <1>3, <1>4, <1>5, <1>6 DEF RecordsNext

(* ... and writes down what it does.                                        *)
LEMMA EscrowEventsRecorded ==
  ASSUME ChainInv, NEW r \in RequestIds,
         ProposalEvents(r) \/ ProofEvents(r) \/ ReviewEvents(r) \/ SettlementEvents(r)
  PROVE  \E es : Recorded(es)
<1>1. IInv /\ Sound(r) /\ Balanced(r) /\ Held(r)
  BY ChainFacts DEF EscrowInv, AllInv, OrderInv, WorthInv, HeldInv
<1>2. /\ GasReadings \subseteq Nat /\ TxGasPrices \subseteq Nat
      /\ \A amount \in FundingAmounts : amount \in Nat
  BY InputAssumption
<1>3. CASE ProposalEvents(r)
  <2>1. ASSUME NEW p \in DOMAIN proposals[r], NEW price \in ReferenceGasPrices, NEW extra \in ExtraAllowances,
               LET allowance == MinimumOperationalAllowance(r, p, price) + extra
               IN  /\ ApproveAndFund(r, p, price, allowance)
                   /\ Emit(<<Of(r, "MilestonePlanAccepted", proposals[r][p].carrier),
                             Money(r, "EscrowFunded", Escrow, requests[r].proposedAmount),
                             Money(r, "OperationalAllowanceFunded", Escrow, allowance)>>)
        PROVE  \E es : Recorded(es)
    BY <2>1, FundRecorded
  <2>2. CASE \/ \E u \in Carriers :
                  \/ \E plan \in Plans :
                       ProposeMilestones(u, r, plan) /\ Emit(<<Of(r, "MilestonePlanProposed", u)>>)
                  \/ RevokeMilestoneProposal(u, r) /\ Emit(<<Of(r, "MilestonePlanRevoked", u)>>)
             \/ \E p \in 1 .. MaxProposals :
                  RejectMilestoneProposal(r, p)
                    /\ Emit(<<Of(r, "MilestonePlanRejected", proposals[r][p].carrier)>>)
             \/ CancelRequest(r) /\ Emit(<<Event(r, "RequestCancelled")>>)
    BY <1>1, <2>2, ProposalsRecorded
  <2>3. QED BY <1>3, <2>1, <2>2 DEF ProposalEvents
<1>4. CASE ProofEvents(r)
  <2>1. ASSUME NEW m \in MilestoneIds, NEW uri, NEW gas \in GasReadings, NEW price \in TxGasPrices,
               SubmitProof(r, m, uri, gas, price),
               Emit(IfAny(Money(r, "OperationalAllowanceReimbursed", requests[r].carrier, Reimbursed(r)))
                      \o <<Step(r, "ProofSubmitted", m)>>)
        PROVE  \E es : Recorded(es)
    BY <1>1, <1>2, <2>1, SubmitRecorded
  <2>2. ASSUME NEW m \in MilestoneIds, WithdrawProof(r, m), Emit(<<Step(r, "ProofWithdrawn", m)>>)
        PROVE  \E es : Recorded(es)
    BY <1>1, <2>2, ReviewsRecorded
  <2>3. QED BY <1>4, <2>1, <2>2 DEF ProofEvents
<1>5. CASE ReviewEvents(r)
  <2>1. PICK m \in MilestoneIds, n \in 1 .. MaxVersion :
          \/ /\ RejectMilestone(r, m, n)
             /\ Emit(<<[Step(r, "MilestoneVerified", m) EXCEPT !.approved = FALSE],
                       Step(r, "MilestoneRejected", m)>>)
          \/ /\ ApproveMilestone(r, m, n)
             /\ LET amount  == milestones[r][m].payoutAmount + milestones[r][m].additionalPayoutAmount
                    carrier == requests[r].carrier
                IN  Emit(<<Step(r, "MilestoneVerified", m),
                           [Step(r, "MilestonePaid", m) EXCEPT !.amount = amount],
                           [Money(r, "PaymentReleased", carrier, amount) EXCEPT !.milestone = m]>>
                         \o IF requests'[r].status = "Completed"
                            THEN <<[Of(r, "RequestCompleted", carrier) EXCEPT !.completedAt = now]>>
                                   \o ReserveRefunded(r)
                            ELSE <<>>)
    BY <1>5 DEF ReviewEvents
  <2>2. CASE /\ RejectMilestone(r, m, n)
             /\ Emit(<<[Step(r, "MilestoneVerified", m) EXCEPT !.approved = FALSE],
                       Step(r, "MilestoneRejected", m)>>)
    BY <1>1, <2>2, ReviewsRecorded
  <2>3. CASE ~(/\ RejectMilestone(r, m, n)
               /\ Emit(<<[Step(r, "MilestoneVerified", m) EXCEPT !.approved = FALSE],
                         Step(r, "MilestoneRejected", m)>>))
    <3>a. ApproveMilestone(r, m, n)
      BY <2>1, <2>3
    <3>1. Running(requests[r])
      BY <1>1, <3>a, ApproveFigures
    <3>2. Active(r)
      BY <3>1 DEF Running, Active
    <3>4. LET amount  == milestones[r][m].payoutAmount + milestones[r][m].additionalPayoutAmount
              carrier == requests[r].carrier
          IN  Emit(<<Step(r, "MilestoneVerified", m),
                     [Step(r, "MilestonePaid", m) EXCEPT !.amount = amount],
                     [Money(r, "PaymentReleased", carrier, amount) EXCEPT !.milestone = m]>>
                   \o IF requests'[r].status = "Completed"
                      THEN <<[Of(r, "RequestCompleted", carrier) EXCEPT !.completedAt = now]>>
                             \o ReserveRefunded(r)
                      ELSE <<>>)
      BY <2>1, <2>3
    <3>5. QED BY <1>1, <3>a, <3>2, <3>4, ApproveRecorded
  <2>4. QED BY <2>2, <2>3
<1>6. CASE SettlementEvents(r)
  <2>1. CASE /\ RefundRemaining(r)
             /\ EmitEnd((IF Overdue(r) THEN <<Of(r, "RequestExpired", requests[r].carrier)>> ELSE <<>>)
                          \o Refunded(r))
    BY <1>1, <2>1, ExpiryRecorded
  <2>2. ASSUME NEW amount \in FundingAmounts, TipCarrier(r, amount),
               Emit(<<Money(r, "CarrierTipped", requests[r].carrier, amount)>>)
        PROVE  \E es : Recorded(es)
    BY <1>1, <1>2, <2>2, TipRecorded
  <2>3. ASSUME NEW amount \in FundingAmounts, TopUpOperationalAllowance(r, amount),
               Emit(<<Money(r, "OperationalAllowanceFunded", Escrow, amount)>>)
        PROVE  \E es : Recorded(es)
    BY <1>1, <1>2, <2>3, TopUpRecorded
  <2>4. QED BY <1>6, <2>1, <2>2, <2>3 DEF SettlementEvents
<1>7. QED BY <1>3, <1>4, <1>5, <1>6

LEMMA AmendmentEventsRecorded ==
  ASSUME ChainInv, NEW r \in RequestIds, AmendmentEvents(r)
  PROVE  \E es : Recorded(es)
<1>1. IInv
  BY ChainFacts
<1>2. /\ GasReadings \subseteq Nat /\ TxGasPrices \subseteq Nat
  BY InputAssumption
<1>3. ASSUME NEW newDeadline \in Deadlines, ExtendShipmentDeadline(r, newDeadline),
             Emit(<<Event(r, "ShipmentDeadlineExtended")>>)
      PROVE  \E es : Recorded(es)
  BY <1>3, ExtensionRecorded
<1>4. CASE RequestAmendmentEvents(r)
  <2>1. PICK who \in Participants(r), proposedDeadline, responseDeadline \in Deadlines,
             existing \in Fundings(r), additions \in Additions(r),
             price \in ReferenceGasPrices, allowance \in ResponseAllowances :
          /\ RequestAmendment(r, who, proposedDeadline, responseDeadline,
                              existing, additions, price, allowance)
          /\ Emit(<<Event(r, "AmendmentRequested")>>
                    \o IfAny(Money(r, "AmendmentResponseAllowanceFunded", Manager, allowance)))
    BY <1>4 DEF RequestAmendmentEvents
  <2>2. QED BY <1>1, <2>1, AskedRecorded
<1>5. ASSUME NEW a \in 1 .. MaxNegotiations, AnswerAmendmentEvents(r, a)
      PROVE  \E es : Recorded(es)
  <2>1. PICK amendment : amendment = amendmentRequests[r][a]
    OBVIOUS
  <2>2. ASSUME NEW gas \in GasReadings, NEW price \in TxGasPrices,
               AcceptAmendment(r, a, gas, price),
               Emit(Amended(r, amendment.additionalFunding, amendment.operationalAllowance)
                      \o ResponseSettled(r, amendment, ResponseReimbursement(amendment, gas, price))
                      \o <<Event(r, "AmendmentAccepted")>>)
        PROVE  \E es : Recorded(es)
    BY <1>2, <2>1, <2>2, AcceptRecorded
  <2>3. ASSUME PendingAmendment(r, a)
        PROVE  /\ amendment \in Amendments /\ amendment.responseAllowanceSpent = 0
               /\ 0 <= amendment.responseAllowance
    <3>1. /\ amendment \in Amendments /\ PendingOK(amendment) /\ amendment.status = "Pending"
          /\ amendment.responseAllowance \in Nat
      BY <2>1, <2>3, ChainFacts, PendingFacts
    <3>2. QED BY <3>1 DEF PendingOK
  <2>4. ASSUME NEW gas \in GasReadings, NEW price \in TxGasPrices,
               RejectAmendment(r, a, gas, price),
               Emit(ResponseSettled(r, amendment, ResponseReimbursement(amendment, gas, price))
                      \o <<Event(r, "AmendmentRejected")>>)
        PROVE  \E es : Recorded(es)
    <3>1. PICK reimbursed : reimbursed = ResponseReimbursement(amendment, gas, price)
      OBVIOUS
    <3>2. PendingAmendment(r, a) /\ ResolveAmendment(r, a, "Rejected", reimbursed)
      BY <2>1, <2>4, <3>1 DEF RejectAmendment
    <3>3. reimbursed \in Nat /\ reimbursed <= amendment.responseAllowance
      BY <1>2, <2>3, <3>1, <3>2, ReimbursementWithin
    <3>4. PICK name \in QuietNames : name = "AmendmentRejected"
      BY DEF QuietNames
    <3>5. Emit(ResponseSettled(r, amendmentRequests[r][a], reimbursed) \o <<Event(r, name)>>)
      BY <2>1, <2>4, <3>1, <3>4
    <3>6. PICK outcome : outcome = "Rejected"
      OBVIOUS
    <3>7. /\ ResolveAmendment(r, a, outcome, reimbursed)
          /\ reimbursed <= amendmentRequests[r][a].responseAllowance
      BY <2>1, <3>2, <3>3, <3>6
    <3>8. QED BY <3>2, <3>3, <3>5, <3>7, ResolvedRecorded
  <2>5. ASSUME NEW outcome, NEW name \in QuietNames,
               PendingAmendment(r, a), ResolveAmendment(r, a, outcome, 0),
               LET es == ResponseSettled(r, amendment, 0) \o <<Event(r, name)>>
               IN  Emit(es) \/ EmitEnd(es)
        PROVE  \E es : Recorded(es)
    <3>1. PICK reimbursed \in Nat : reimbursed = 0
      OBVIOUS
    <3>2. LET es == ResponseSettled(r, amendmentRequests[r][a], reimbursed) \o <<Event(r, name)>>
          IN  Emit(es) \/ EmitEnd(es)
      BY <2>1, <2>5, <3>1
    <3>3. /\ ResolveAmendment(r, a, outcome, reimbursed)
          /\ reimbursed <= amendmentRequests[r][a].responseAllowance
      BY <2>1, <2>3, <2>5, <3>1
    <3>4. QED BY <2>5, <3>2, <3>3, ResolvedRecorded
  <2>6. CASE /\ WithdrawAmendment(r, a)
             /\ Emit(ResponseSettled(r, amendment, 0) \o <<Event(r, "AmendmentWithdrawn")>>)
    <3>1. PendingAmendment(r, a) /\ ResolveAmendment(r, a, "Withdrawn", 0)
      BY <2>6 DEF WithdrawAmendment
    <3>2. PICK name \in QuietNames : name = "AmendmentWithdrawn"
      BY DEF QuietNames
    <3>3. PICK outcome : outcome = "Withdrawn"
      OBVIOUS
    <3>4. QED BY <2>5, <2>6, <3>1, <3>2, <3>3
  <2>7. CASE /\ ExpireAmendment(r, a)
             /\ EmitEnd(ResponseSettled(r, amendment, 0) \o <<Event(r, "AmendmentExpired")>>)
    <3>1. PendingAmendment(r, a) /\ ResolveAmendment(r, a, "Expired", 0)
      BY <2>7 DEF ExpireAmendment
    <3>2. PICK name \in QuietNames : name = "AmendmentExpired"
      BY DEF QuietNames
    <3>3. PICK outcome : outcome = "Expired"
      OBVIOUS
    <3>4. QED BY <2>5, <2>7, <3>1, <3>2, <3>3
  <2>8. QED BY <1>5, <2>1, <2>2, <2>4, <2>6, <2>7 DEF AnswerAmendmentEvents
<1>6. QED BY <1>3, <1>4, <1>5 DEF AmendmentEvents

LEMMA CancellationEventsRecorded ==
  ASSUME IInv, NEW r \in RequestIds, CancellationEvents(r)
  PROVE  \E es : Recorded(es)
<1>1. ASSUME NEW name \in QuietNames,
             \/ \E who, responseDeadline : RequestCancellation(r, who, responseDeadline)
             \/ \E c : RejectCancellation(r, c) \/ WithdrawCancellation(r, c) \/ ExpireCancellation(r, c),
             Emit(<<Event(r, name)>>) \/ EmitEnd(<<Event(r, name)>>)
      PROVE  \E es : Recorded(es)
  BY <1>1, CancellationsRecorded
<1>2. /\ "CancellationRequested" \in QuietNames /\ "CancellationRejected" \in QuietNames
      /\ "CancellationWithdrawn" \in QuietNames /\ "CancellationExpired" \in QuietNames
  BY DEF QuietNames
<1>3. ASSUME NEW who, NEW responseDeadline, RequestCancellation(r, who, responseDeadline),
             Emit(<<Event(r, "CancellationRequested")>>)
      PROVE  \E es : Recorded(es)
  BY <1>1, <1>2, <1>3
<1>4. ASSUME NEW c, AcceptCancellation(r, c),
             Emit(<<Event(r, "RequestCancelled")>> \o Refunded(r) \o <<Event(r, "CancellationAccepted")>>)
      PROVE  \E es : Recorded(es)
  BY <1>4, MutualRecorded
<1>5. ASSUME NEW c, RejectCancellation(r, c), Emit(<<Event(r, "CancellationRejected")>>)
      PROVE  \E es : Recorded(es)
  BY <1>1, <1>2, <1>5
<1>6. ASSUME NEW c, WithdrawCancellation(r, c), Emit(<<Event(r, "CancellationWithdrawn")>>)
      PROVE  \E es : Recorded(es)
  BY <1>1, <1>2, <1>6
<1>7. ASSUME NEW c, ExpireCancellation(r, c), EmitEnd(<<Event(r, "CancellationExpired")>>)
      PROVE  \E es : Recorded(es)
  BY <1>1, <1>2, <1>7
<1>8. QED BY <1>3, <1>4, <1>5, <1>6, <1>7 DEF CancellationEvents

(* Nothing happens to the money without a word in the log.                  *)
LEMMA EveryStepRecorded ==
  ASSUME ChainInv, [RecordsNext]_recordVars
  PROVE  (\E es : Recorded(es)) \/ UNCHANGED <<log, requests, tipAmounts>>
<1>1. IInv
  BY ChainFacts
<1>2. CASE EscrowEvents
  <2>1. CASE Tick /\ UNCHANGED log
    BY <2>1 DEF Tick
  <2>2. ASSUME NEW u \in Shippers, NEW deadline \in Deadlines, NEW amount \in Amounts,
               CreateRequest(u, deadline, amount), Emit(<<Event(nextRequestId, "RequestCreated")>>)
        PROVE  \E es : Recorded(es)
    <3>1. u \in Users
      BY RecordsAssumption
    <3>2. QED BY <1>1, <2>2, <3>1, CreateRecorded
  <2>3. ASSUME NEW r \in RequestIds,
               ProposalEvents(r) \/ ProofEvents(r) \/ ReviewEvents(r) \/ SettlementEvents(r)
        PROVE  \E es : Recorded(es)
    BY <2>3, EscrowEventsRecorded
  <2>4. QED BY <1>2, <2>1, <2>2, <2>3 DEF EscrowEvents
<1>3. ASSUME NEW r \in RequestIds, AmendmentEvents(r) PROVE \E es : Recorded(es)
  BY <1>3, AmendmentEventsRecorded
<1>4. ASSUME NEW r \in RequestIds, CancellationEvents(r) PROVE \E es : Recorded(es)
  BY <1>1, <1>4, CancellationEventsRecorded
<1>5. ASSUME NEW r \in RequestIds, PublishRating(r) PROVE \E es : Recorded(es)
  BY <1>1, <1>5, RatingRecorded
<1>6. CASE UNCHANGED recordVars
  BY <1>6 DEF recordVars, chainVars, vars
<1>7. QED BY <1>2, <1>3, <1>4, <1>5, <1>6 DEF RecordsNext

LedgerInv == log \in Seq(Seq(LogEvents)) /\ \A q \in RequestIds : Ledger(q)
RecordsInv == ChainInv /\ LedgerInv

LEMMA RecordsInitOK == RecordsInit => RecordsInv
<1> SUFFICES ASSUME RecordsInit PROVE RecordsInv
  OBVIOUS
<1>1. ChainInv /\ log = <<>>
  BY ChainInitOK DEF RecordsInit
<1>2. log \in Seq(Seq(LogEvents))
  BY <1>1
<1>3. ASSUME NEW K PROVE AddsUp(log, K) = 0
  <2>1. PlacesIn(log) = {}
    BY <1>1 DEF PlacesIn
  <2>2. FoundIn(log, K) = {}
    BY <2>1 DEF FoundIn
  <2>3. QED BY <2>2, SumOfZeros DEF AddsUp
<1>4. ASSUME NEW q \in RequestIds PROVE Ledger(q)
  <2>1. requests[q] = NoRequest /\ tipAmounts[q] = 0
    BY DEF RecordsInit, ChainInit, Init
  <2>2. /\ requests[q].totalAmount = 0 /\ requests[q].releasedAmount = 0
        /\ requests[q].refundedAmount = 0 /\ requests[q].operationalAllowance = 0
        /\ requests[q].operationalSpent = 0
    BY <2>1 DEF NoRequest
  <2>3. Earned(q) = 0 /\ ~WasFunded(requests[q])
    BY <2>1, <2>2 DEF Earned, WasFunded, NoRequest
  <2>4. /\ \A name : Written(q, name) = 0
        /\ \A w : WrittenTo(q, w) = 0
    BY <1>3 DEF Written, WrittenTo
  <2>5. QED BY <2>2, <2>3, <2>4 DEF Ledger
<1>5. QED BY <1>1, <1>2, <1>4 DEF RecordsInv, LedgerInv

LEMMA RecordsStepOK == RecordsInv /\ [RecordsNext]_recordVars => RecordsInv'
<1> SUFFICES ASSUME RecordsInv, [RecordsNext]_recordVars PROVE RecordsInv'
  OBVIOUS
<1>1. ChainInv /\ log \in Seq(Seq(LogEvents)) /\ \A q \in RequestIds : Ledger(q)
  BY DEF RecordsInv, LedgerInv
<1>2. ChainInv'
  BY <1>1, RecordsMove, ChainStepOK DEF StepSound, ChainInv
<1>3. /\ requests \in [RequestIds -> Requests] /\ tipAmounts \in [RequestIds -> Nat]
      /\ requests' \in [RequestIds -> Requests] /\ tipAmounts' \in [RequestIds -> Nat]
  BY <1>1, <1>2 DEF ChainInv, EscrowInv, AllInv, IInv, RequestsOK, ClockOK
<1>4. CASE \E es : Recorded(es)
  <2>1. PICK es : Recorded(es)
    BY <1>4
  <2>2. es \in Seq(LogEvents) /\ log' = Append(log, es)
    BY <2>1 DEF Recorded
  <2>3. log' \in Seq(Seq(LogEvents))
    BY <1>1, <2>2
  <2>4. ASSUME NEW q \in RequestIds PROVE Ledger(q)'
    <3>1. /\ requests[q] \in Requests /\ requests'[q] \in Requests
          /\ tipAmounts[q] \in Nat /\ tipAmounts'[q] \in Nat
      BY <1>3
    <3>2. Ledger(q) /\ Explained(q, es)
      BY <1>1, <2>1 DEF Recorded
    <3>3. QED BY <1>1, <2>2, <3>1, <3>2, LedgerKept
  <2>5. QED BY <1>2, <2>3, <2>4 DEF RecordsInv, LedgerInv
<1>5. CASE UNCHANGED <<log, requests, tipAmounts>>
  <2>1. ASSUME NEW q \in RequestIds PROVE Ledger(q)'
    <3>1. Ledger(q)
      BY <1>1
    <3>2. /\ \A name : Written(q, name)' = Written(q, name)
          /\ \A w : WrittenTo(q, w)' = WrittenTo(q, w)
          /\ Earned(q)' = Earned(q) /\ (Active(q)' <=> Active(q))
      BY <1>5 DEF Written, WrittenTo, Earned, Active
    <3>3. QED BY <1>5, <3>1, <3>2 DEF Ledger
  <2>2. log' \in Seq(Seq(LogEvents))
    BY <1>1, <1>5
  <2>3. QED BY <1>2, <2>1, <2>2 DEF RecordsInv, LedgerInv
<1>6. QED BY <1>1, <1>4, <1>5, EveryStepRecorded

LEMMA RecordsInvariant == FairRecordsSpec => []RecordsInv
BY RecordsInitOK, RecordsStepOK, PTL DEF FairRecordsSpec

-----------------------------------------------------------------------------
(* Part V.  What is read out of the log.                                    *)

LEMMA PlacesRead ==
  /\ AllPlaces = PlacesIn(log) /\ Places(1, Len(log)) = PlacesIn(log)
  /\ \A p : EventAt(p) = log[p[1]][p[2]]
BY DEF AllPlaces, Places, PlacesIn, EventAt

LEMMA AmountRead ==
  ASSUME NEW K, NEW S, S = FoundIn(log, K)
  PROVE  AmountOf(S) = AddsUp(log, K)
<1>1. [p \in S |-> EventAt(p).amount] = [p \in FoundIn(log, K) |-> log[p[1]][p[2]].amount]
  BY PlacesRead
<1>2. QED BY <1>1 DEF AmountOf, AddsUp

LEMMA FoundIs ==
  ASSUME log \in Seq(Seq(LogEvents)), NEW K, NEW p
  PROVE  p \in FoundIn(log, K) <=>
           p \in PlacesIn(log) /\ EventAt(p) \in LogEvents /\ EventAt(p) \in K
BY FoundIsEvent, PlacesRead DEF FoundIn

LEMMA ClassesAddUp ==
  ASSUME log \in Seq(Seq(LogEvents)), NEW K, NEW L, K \cap L = {}
  PROVE  /\ AddsUp(log, K \cup L) = AddsUp(log, K) + AddsUp(log, L)
         /\ AddsUp(log, K) \in Nat /\ AddsUp(log, L) \in Nat
<1> DEFINE S == FoundIn(log, K)
           T == FoundIn(log, L)
           U == FoundIn(log, K \cup L)
           f == [p \in U |-> log[p[1]][p[2]].amount]
           g == [p \in S |-> log[p[1]][p[2]].amount]
           h == [p \in T |-> log[p[1]][p[2]].amount]
<1>1. U = S \cup T /\ S \cap T = {}
  BY DEF FoundIn
<1>2. IsFiniteSet(S) /\ IsFiniteSet(T)
  BY PlacesFinite
<1>3. \A p \in U : log[p[1]][p[2]].amount \in Nat
  <2>1. \A p \in U : log[p[1]][p[2]] \in LogEvents
    BY FoundIsEvent DEF FoundIn
  <2>2. QED BY <2>1 DEF LogEvents
<1>4. f \in [U -> Nat] /\ g \in [S -> Nat] /\ h \in [T -> Nat]
  <2> HIDE DEF S, T, U
  <2>1. QED BY <1>1, <1>3
<1>5. \A p \in S : f[p] = g[p]
  <2> HIDE DEF S, T, U
  <2>1. QED BY <1>1
<1>6. \A p \in T : f[p] = h[p]
  <2> HIDE DEF S, T, U
  <2>1. QED BY <1>1
<1>7. /\ AddsUp(log, K \cup L) = SumOver(f) /\ AddsUp(log, K) = SumOver(g)
      /\ AddsUp(log, L) = SumOver(h)
  BY DEF AddsUp
<1> HIDE DEF S, T, U, f, g, h
<1>8. SumOver(f) = SumOver(g) + SumOver(h)
  BY ONLY <1>1, <1>2, <1>4, <1>5, <1>6, SumOfUnion
<1>9. AddsUp(log, K) \in Nat /\ AddsUp(log, L) \in Nat
  BY AmountIsNat
<1>10. QED BY <1>7, <1>8, <1>9

LEMMA LoggedIs ==
  ASSUME log \in Seq(Seq(LogEvents)), NEW r, NEW name
  PROVE  LoggedFor(r, name) = Written(r, name)
<1> DEFINE S == {p \in AllPlaces : EventAt(p).name = name /\ EventAt(p).request = r}
<1>1. \A p \in PlacesIn(log) : EventAt(p) \in LogEvents
  BY FoundIsEvent, PlacesRead
<1>2. S = FoundIn(log, NamedOf(r, name))
  <2>1. AllPlaces = PlacesIn(log)
    BY PlacesRead
  <2>2. \A p \in PlacesIn(log) :
          (EventAt(p).name = name /\ EventAt(p).request = r) <=> EventAt(p) \in NamedOf(r, name)
    BY <1>1 DEF NamedOf
  <2>3. \A p : p \in S <=> p \in FoundIn(log, NamedOf(r, name))
    <3> HIDE DEF NamedOf
    <3>1. QED BY <1>1, <2>1, <2>2, FoundIs
  <2> HIDE DEF S
  <2>4. QED BY <2>3
<1>3. QED BY <1>2, AmountRead DEF LoggedFor, Written

(* The rows of one request a wallet is shown.                               *)
LEMMA RowsAre ==
  ASSUME log \in Seq(Seq(LogEvents)), NEW u, NEW r, NEW p
  PROVE  p \in RowsOf(u, r) <=>
           /\ p \in PlacesIn(log) /\ EventAt(p) \in LogEvents
           /\ EventAt(p).name \in PaymentEvents /\ EventAt(p).request = r /\ Concerns(u, r)
<1>1. p \in PlacesIn(log) => EventAt(p) \in LogEvents
  BY FoundIsEvent, PlacesRead
<1>2. QED BY <1>1, PlacesRead DEF RowsOf, PaymentHistory

Paying(r) ==
  NamedOf(r, "PaymentReleased") \cup NamedOf(r, "RefundIssued")
    \cup NamedOf(r, "OperationalAllowanceReimbursed") \cup NamedOf(r, "OperationalAllowanceRefunded")
Funding(r) == NamedOf(r, "EscrowFunded") \cup NamedOf(r, "OperationalAllowanceFunded")

LEMMA RowsAddUp ==
  ASSUME log \in Seq(Seq(LogEvents)), NEW u, NEW r, Concerns(u, r)
  PROVE  /\ AmountOf(Named(RowsOf(u, r), Contributions))
              = Written(r, "EscrowFunded") + Written(r, "OperationalAllowanceFunded")
         /\ AmountOf(Named(RowsOf(u, r), Payments))
              = Written(r, "PaymentReleased") + Written(r, "RefundIssued")
                  + Written(r, "OperationalAllowanceReimbursed")
                  + Written(r, "OperationalAllowanceRefunded")
         /\ \A w : AmountOf(Earnings(w, RowsOf(u, r))) = WrittenTo(r, w)
<1>1. Named(RowsOf(u, r), Contributions) = FoundIn(log, Funding(r))
  <2>1. \A e \in LogEvents :
          e \in Funding(r) <=> e.name \in PaymentEvents /\ e.request = r /\ e.name \in Contributions
    BY DEF Funding, NamedOf, Contributions, PaymentEvents
  <2>2. \A p : p \in Named(RowsOf(u, r), Contributions) <=>
               p \in RowsOf(u, r) /\ EventAt(p).name \in Contributions
    BY DEF Named
  <2>3. \A p : p \in Named(RowsOf(u, r), Contributions) <=> p \in FoundIn(log, Funding(r))
    BY <2>1, <2>2, RowsAre, FoundIs
  <2>4. QED BY <2>3 DEF Named, FoundIn
<1>2. Named(RowsOf(u, r), Payments) = FoundIn(log, Paying(r))
  <2>1. \A e \in LogEvents :
          e \in Paying(r) <=> e.name \in PaymentEvents /\ e.request = r /\ e.name \in Payments
    BY DEF Paying, NamedOf, Payments, PaymentEvents
  <2>2. \A p : p \in Named(RowsOf(u, r), Payments) <=>
               p \in RowsOf(u, r) /\ EventAt(p).name \in Payments
    BY DEF Named
  <2>3. \A p : p \in Named(RowsOf(u, r), Payments) <=> p \in FoundIn(log, Paying(r))
    BY <2>1, <2>2, RowsAre, FoundIs
  <2>4. QED BY <2>3 DEF Named, FoundIn
<1>3. ASSUME NEW w PROVE Earnings(w, RowsOf(u, r)) = FoundIn(log, PaidTo(r, w))
  <2>1. \A e \in LogEvents :
          e \in PaidTo(r, w) <=>
            /\ e.name \in PaymentEvents /\ e.request = r
            /\ e.name \in {"PaymentReleased", "CarrierTipped"} /\ e.party = w
    BY DEF PaidTo, PaidOutNames, PaymentEvents
  <2>2. \A p : p \in Earnings(w, RowsOf(u, r)) <=>
               /\ p \in RowsOf(u, r) /\ EventAt(p).name \in {"PaymentReleased", "CarrierTipped"}
               /\ EventAt(p).party = w
    BY DEF Earnings
  <2>3. \A p : p \in Earnings(w, RowsOf(u, r)) <=> p \in FoundIn(log, PaidTo(r, w))
    BY <2>1, <2>2, RowsAre, FoundIs
  <2>4. QED BY <2>3 DEF Earnings, FoundIn
<1>4. AddsUp(log, Funding(r)) = Written(r, "EscrowFunded") + Written(r, "OperationalAllowanceFunded")
  <2>1. NamedOf(r, "EscrowFunded") \cap NamedOf(r, "OperationalAllowanceFunded") = {}
    BY DEF NamedOf
  <2> HIDE DEF NamedOf
  <2>2. QED BY <2>1, ClassesAddUp DEF Funding, Written
<1>5. AddsUp(log, Paying(r))
        = Written(r, "PaymentReleased") + Written(r, "RefundIssued")
            + Written(r, "OperationalAllowanceReimbursed") + Written(r, "OperationalAllowanceRefunded")
  <2> DEFINE A == NamedOf(r, "PaymentReleased")
             B == NamedOf(r, "RefundIssued")
             C == NamedOf(r, "OperationalAllowanceReimbursed")
             D == NamedOf(r, "OperationalAllowanceRefunded")
  <2>1. A \cap B = {} /\ (A \cup B) \cap C = {} /\ (A \cup B \cup C) \cap D = {}
    BY DEF NamedOf
  <2>2. /\ Paying(r) = A \cup B \cup C \cup D
        /\ Written(r, "PaymentReleased") = AddsUp(log, A) /\ Written(r, "RefundIssued") = AddsUp(log, B)
        /\ Written(r, "OperationalAllowanceReimbursed") = AddsUp(log, C)
        /\ Written(r, "OperationalAllowanceRefunded") = AddsUp(log, D)
    BY DEF Paying, Written
  <2> HIDE DEF A, B, C, D
  <2>3. AddsUp(log, A \cup B) = AddsUp(log, A) + AddsUp(log, B)
    BY <2>1, ClassesAddUp
  <2>4. AddsUp(log, (A \cup B) \cup C) = AddsUp(log, A \cup B) + AddsUp(log, C)
    BY <2>1, ClassesAddUp
  <2>5. AddsUp(log, (A \cup B \cup C) \cup D) = AddsUp(log, A \cup B \cup C) + AddsUp(log, D)
    BY <2>1, ClassesAddUp
  <2>6. QED BY <2>2, <2>3, <2>4, <2>5
<1>6. QED BY <1>1, <1>2, <1>3, <1>4, <1>5, AmountRead DEF WrittenTo

LEMMA RowsMatchTheRequest ==
  ASSUME RecordsInv, NEW r \in RequestIds, NEW u, Concerns(u, r)
  PROVE  /\ AmountOf(Named(RowsOf(u, r), Contributions)) - AmountOf(Named(RowsOf(u, r), Payments))
              = Pot(requests[r])
         /\ AmountOf(Earnings(requests[r].carrier, RowsOf(u, r))) = requests[r].releasedAmount + tipAmounts[r]
<1>1. ChainInv /\ IInv /\ log \in Seq(Seq(LogEvents)) /\ Ledger(r)
  BY ChainFacts DEF RecordsInv, LedgerInv
<1>2. requests[r] \in Requests /\ Solvent(requests[r])
  BY <1>1, Figures DEF IInv, RequestsOK
<1>3. PICK a, b, c, d, e, f : /\ a = Written(r, "EscrowFunded") /\ b = Written(r, "OperationalAllowanceFunded")
                             /\ c = Written(r, "PaymentReleased") /\ d = Written(r, "RefundIssued")
                             /\ e = Written(r, "OperationalAllowanceReimbursed")
                             /\ f = Written(r, "OperationalAllowanceRefunded")
  OBVIOUS
<1>4. e \in Nat /\ f \in Nat
  BY <1>1, <1>3, AmountIsNat DEF Written
<1>5. /\ a = requests[r].totalAmount /\ c = requests[r].releasedAmount
      /\ d = requests[r].refundedAmount /\ b = requests[r].operationalAllowance
      /\ e + f = requests[r].operationalSpent
  BY <1>1, <1>3 DEF Ledger
<1>6. a \in Nat /\ b \in Nat /\ c \in Nat /\ d \in Nat
  BY <1>2, <1>5, RequestFigures
<1>7. Pot(requests[r]) = (a - c - d) + (b - (e + f))
  BY <1>2, <1>5, PotOfSolvent
<1>8. AmountOf(Named(RowsOf(u, r), Contributions)) = a + b
  BY <1>1, <1>3, RowsAddUp
<1>9. AmountOf(Named(RowsOf(u, r), Payments)) = c + d + e + f
  BY <1>1, <1>3, RowsAddUp
<1>10. AmountOf(Earnings(requests[r].carrier, RowsOf(u, r))) = requests[r].releasedAmount + tipAmounts[r]
  <2>1. requests[r].carrier \in Parties
    BY <1>2 DEF Requests, Parties
  <2>2. WrittenTo(r, requests[r].carrier) = Earned(r)
    BY <1>1, <2>1 DEF Ledger
  <2>3. AmountOf(Earnings(requests[r].carrier, RowsOf(u, r))) = WrittenTo(r, requests[r].carrier)
    BY <1>1, RowsAddUp
  <2>4. QED BY <2>2, <2>3 DEF Earned
<1>11. QED BY <1>4, <1>6, <1>7, <1>8, <1>9, <1>10

(* The lines of the escrow panel.                                           *)
LEMMA PanelIsRight ==
  ASSUME RecordsInv, NEW r \in RequestIds
  PROVE  PanelAddsUp(r, ShipmentRead(r))
<1>1. ChainInv /\ IInv /\ log \in Seq(Seq(LogEvents)) /\ Ledger(r)
  BY ChainFacts DEF RecordsInv, LedgerInv
<1>2. requests[r] \in Requests /\ Solvent(requests[r])
  BY <1>1, Figures DEF IInv, RequestsOK
<1>3. PICK shipment : shipment = ShipmentRead(r)
  OBVIOUS
<1>4. PICK shown : shown = [i \in DOMAIN executionOrder[r] |-> milestones[r][executionOrder[r][i]]]
  OBVIOUS
<1>5. /\ shipment.request = requests[r]
      /\ shipment.operationalRemaining = OperationalRemaining(r)
      /\ shipment.operationalReimbursed = Written(r, "OperationalAllowanceReimbursed")
      /\ shipment.operationalReturned = Written(r, "OperationalAllowanceRefunded")
      /\ shipment.milestones = shown
  <2>1. /\ shipment.request = requests[r]
        /\ shipment.operationalRemaining = OperationalRemaining(r)
        /\ shipment.operationalReimbursed = LoggedFor(r, "OperationalAllowanceReimbursed")
        /\ shipment.operationalReturned = LoggedFor(r, "OperationalAllowanceRefunded")
        /\ shipment.milestones = shown
    BY <1>3, <1>4 DEF ShipmentRead
  <2>2. QED BY <1>1, <2>1, LoggedIs
<1>6. PICK total, proposed, allowance, spent, e, f :
        /\ total = requests[r].totalAmount /\ proposed = requests[r].proposedAmount
        /\ allowance = requests[r].operationalAllowance /\ spent = requests[r].operationalSpent
        /\ e = Written(r, "OperationalAllowanceReimbursed")
        /\ f = Written(r, "OperationalAllowanceRefunded")
  OBVIOUS
<1>7. /\ total \in Nat /\ proposed \in Nat /\ allowance \in Nat /\ spent \in Nat
      /\ e \in Nat /\ f \in Nat
  BY <1>1, <1>2, <1>6, RequestFigures, AmountIsNat DEF Written
<1>8. total > 0 => proposed + AmendmentFunding(shipment) = total
  <2>1. ASSUME total > 0 PROVE proposed <= total
    <3>1. ~WasFunded(requests[r]) => total = 0
      BY <1>1, <1>6 DEF IInv, RequestsOK, Unfunded
    <3>2. WasFunded(requests[r])
      BY <2>1, <3>1, <1>7
    <3>3. QED BY <3>2, <1>1, <1>6 DEF Ledger
  <2>2. AmendmentFunding(shipment) = IF total > proposed THEN total - proposed ELSE 0
    BY <1>5, <1>6 DEF AmendmentFunding
  <2>3. QED BY <1>7, <2>1, <2>2
<1>9. e + f + OperationalRemaining(r) = allowance
  <2>1. e + f = spent
    BY <1>1, <1>6 DEF Ledger
  <2>2. OperationalRemaining(r) = allowance - spent
    BY <1>1, <1>6, Figures DEF OperationalRemaining
  <2>3. QED BY <1>7, <2>1, <2>2
<1>10. f > 0 => ~Active(r)
  BY <1>1, <1>6, <1>7 DEF Ledger
<1>11. Active(r) => OperationalRemaining(r)
                      >= EligibleProofs(shipment) * ProofReserve(requests[r].gasPriceCap)
  <2>1. {i \in DOMAIN shown : ~shown[i].proofSubmissionReimbursed /\ shown[i].status # "Paid"}
          = {i \in DOMAIN executionOrder[r] :
               /\ ~milestones[r][executionOrder[r][i]].proofSubmissionReimbursed
               /\ milestones[r][executionOrder[r][i]].status # "Paid"}
    BY <1>4
  <2>2. EligibleProofs(shipment) = RemainingProofActions(executionOrder[r], milestones[r])
    BY <1>5, <2>1 DEF EligibleProofs, RemainingProofActions
  <2>3. Sound(r) /\ Balanced(r) /\ Held(r)
    BY <1>1 DEF ChainInv, EscrowInv, AllInv, OrderInv, WorthInv, HeldInv
  <2>4. QED BY <1>1, <2>2, <2>3, HeldMeans
<1>12. QED BY <1>3, <1>5, <1>6, <1>8, <1>9, <1>10, <1>11 DEF PanelAddsUp

LEMMA RowsExplain == RecordsInv => RowsExplainTheMoney
<1> SUFFICES ASSUME RecordsInv, NEW r \in RequestIds
             PROVE  /\ PanelAddsUp(r, ShipmentRead(r))
                    /\ \A u \in Users :
                         IF Concerns(u, r)
                         THEN LET rows == RowsOf(u, r) IN
                              /\ AmountOf(Named(rows, Contributions)) - AmountOf(Named(rows, Payments))
                                   = Pot(requests[r])
                              /\ AmountOf(Earnings(requests[r].carrier, rows))
                                   = requests[r].releasedAmount + tipAmounts[r]
                         ELSE RowsOf(u, r) = {}
  BY DEF RowsExplainTheMoney
<1>1. log \in Seq(Seq(LogEvents))
  BY DEF RecordsInv, LedgerInv
<1>2. ASSUME NEW u \in Users, ~Concerns(u, r) PROVE RowsOf(u, r) = {}
  BY <1>1, <1>2, RowsAre
<1>3. QED BY <1>2, PanelIsRight, RowsMatchTheRequest

(* What the log tells of a shipment's money is what its records say, for    *)
(* every number of users, shipments and blocks: whatever the escrow, the    *)
(* manager and the registry do in whatever order, the rows of a payment     *)
(* history add up to what the escrow still holds for the request, the       *)
(* carrier's earnings to what was released and tipped, and the lines of the *)
(* escrow panel to what was funded (paymentHistory.js, Track.jsx).          *)
THEOREM HistoryAlwaysExplainsTheMoney == FairRecordsSpec => []RowsExplainTheMoney
BY RecordsInvariant, RowsExplain, PTL

-----------------------------------------------------------------------------
(* Part VI.  Whether something was said, once, and what was said last.      *)

Mentioned(l, K) == FoundIn(l, K) # {}
Once(l, K) == \E p \in FoundIn(l, K) : FoundIn(l, K) = {p}
LastWord(l, K, S) ==
  \E p \in FoundIn(l, K) :
    l[p[1]][p[2]] \in S /\ \A q \in FoundIn(l, K) : q = p \/ Before(q, p)

Mute(es, K) == \A i \in DOMAIN es : es[i] \notin K

(* A log with one block more.                                               *)
Grows(l, es, l2) == l \in Seq(Seq(LogEvents)) /\ es \in Seq(LogEvents) /\ l2 = Append(l, es)
SaidIn(es, K) == {j \in DOMAIN es : es[j] \in K}

LEMMA FoundGrows ==
  ASSUME NEW l, NEW es, NEW l2, Grows(l, es, l2), NEW K
  PROVE  /\ FoundIn(l2, K) = FoundIn(l, K) \cup ({Len(l) + 1} \X SaidIn(es, K))
         /\ \A p \in FoundIn(l, K) : l2[p[1]][p[2]] = l[p[1]][p[2]] /\ p[1] < Len(l) + 1
         /\ l2[Len(l) + 1] = es
<1> DEFINE n == Len(l) + 1
           new == {n} \X SaidIn(es, K)
           m == Append(l, es)
<1>1. /\ l2[n] = es /\ n \in Nat
      /\ PlacesIn(l2) = PlacesIn(l) \cup ({n} \X DOMAIN es)
      /\ \A p \in PlacesIn(l) : l2[p[1]][p[2]] = l[p[1]][p[2]]
  <2>1. /\ m[n] = es /\ n \in Nat
        /\ PlacesIn(m) = PlacesIn(l) \cup ({n} \X DOMAIN es)
        /\ \A p \in PlacesIn(l) : m[p[1]][p[2]] = l[p[1]][p[2]]
    BY PlacesGrow DEF Grows
  <2>2. m = l2
    BY DEF Grows
  <2> HIDE DEF m
  <2>3. QED BY <2>1, <2>2
<1>2. \A p \in PlacesIn(l) : p[1] \in 1 .. Len(l)
  BY PlaceIs
<1>3. \A p \in PlacesIn(l) : p[1] < n
  BY <1>2
<1> HIDE DEF n
<1>4. FoundIn(l2, K) \subseteq FoundIn(l, K) \cup new
  <2>1. ASSUME NEW p \in FoundIn(l2, K) PROVE p \in FoundIn(l, K) \cup new
    <3>1. p \in PlacesIn(l2) /\ l2[p[1]][p[2]] \in K
      BY <2>1 DEF FoundIn
    <3>2. CASE p \in PlacesIn(l)
      BY <1>1, <3>1, <3>2 DEF FoundIn
    <3>3. CASE p \in {n} \X DOMAIN es
      <4>1. PICK i \in DOMAIN es : p = <<n, i>>
        BY <3>3
      <4>2. es[i] \in K
        BY <1>1, <3>1, <4>1
      <4>3. QED BY <4>1, <4>2 DEF SaidIn
    <3>4. QED BY <1>1, <3>1, <3>2, <3>3
  <2>2. QED BY <2>1
<1>5. FoundIn(l, K) \subseteq FoundIn(l2, K)
  BY <1>1 DEF FoundIn
<1>6. new \subseteq FoundIn(l2, K)
  <2>1. ASSUME NEW i \in DOMAIN es, es[i] \in K PROVE <<n, i>> \in FoundIn(l2, K)
    <3>1. <<n, i>> \in PlacesIn(l2)
      BY <1>1
    <3>2. QED BY <1>1, <2>1, <3>1 DEF FoundIn
  <2>2. QED BY <2>1 DEF SaidIn
<1>7. FoundIn(l, K) \subseteq PlacesIn(l)
  BY DEF FoundIn
<1>8. QED BY <1>1, <1>3, <1>4, <1>5, <1>6, <1>7 DEF n

(* What is not mentioned in the new block is as it was.                     *)
LEMMA MuteKeeps ==
  ASSUME NEW l, NEW es, NEW l2, Grows(l, es, l2), NEW K,
         Mute(es, K)
  PROVE  /\ Mentioned(l2, K) <=> Mentioned(l, K)
         /\ Once(l2, K) <=> Once(l, K)
         /\ \A S : LastWord(l2, K, S) <=> LastWord(l, K, S)
<1>1. SaidIn(es, K) = {}
  BY DEF Mute, SaidIn
<1> HIDE DEF SaidIn
<1>2. FoundIn(l2, K) = FoundIn(l, K) /\ \A p \in FoundIn(l, K) : l2[p[1]][p[2]] = l[p[1]][p[2]]
  BY <1>1, FoundGrows
<1>3. \A S : LastWord(l2, K, S) <=> LastWord(l, K, S)
  BY <1>2 DEF LastWord
<1>4. QED BY <1>2, <1>3 DEF Mentioned, Once

(* A block that mentions it once.                                           *)
LEMMA OneWord ==
  ASSUME NEW l, NEW es, NEW l2, Grows(l, es, l2), NEW K,
         NEW i \in DOMAIN es, es[i] \in K, \A j \in DOMAIN es : j # i => es[j] \notin K
  PROVE  /\ Mentioned(l2, K)
         /\ ~Mentioned(l, K) => Once(l2, K)
         /\ \A S : LastWord(l2, K, S) <=> es[i] \in S
<1> DEFINE n == Len(l) + 1
           at == <<n, i>>
<1>1. /\ FoundIn(l2, K) = FoundIn(l, K) \cup {at} /\ l2[n] = es
      /\ \A p \in FoundIn(l, K) : p[1] < n
  <2>1. SaidIn(es, K) = {i}
    BY DEF SaidIn
  <2>2. /\ FoundIn(l2, K) = FoundIn(l, K) \cup ({n} \X SaidIn(es, K))
        /\ l2[n] = es /\ \A p \in FoundIn(l, K) : p[1] < n
    BY FoundGrows
  <2>3. {n} \X SaidIn(es, K) = {at}
    BY <2>1
  <2>4. QED BY <2>2, <2>3
<1>2. n \in Nat /\ \A p \in FoundIn(l, K) : p[1] \in Nat
  <2>1. \A p \in PlacesIn(l) : p[1] \in 1 .. Len(l)
    BY PlaceIs
  <2>2. l \in Seq(Seq(LogEvents))
    BY DEF Grows
  <2>3. QED BY <2>1, <2>2 DEF FoundIn
<1>3. at[1] = n /\ at[2] = i
  OBVIOUS
<1> HIDE DEF at, n
<1>4. \A p \in FoundIn(l, K) : Before(p, at) /\ ~Before(at, p) /\ p # at
  BY <1>1, <1>2, <1>3 DEF Before
<1>5. ASSUME NEW S PROVE LastWord(l2, K, S) <=> es[i] \in S
  <2>1. ASSUME es[i] \in S PROVE LastWord(l2, K, S)
    BY <1>1, <1>3, <1>4, <2>1 DEF LastWord
  <2>2. ASSUME LastWord(l2, K, S) PROVE es[i] \in S
    <3>1. PICK p \in FoundIn(l2, K) :
            l2[p[1]][p[2]] \in S /\ \A q \in FoundIn(l2, K) : q = p \/ Before(q, p)
      BY <2>2 DEF LastWord
    <3>2. at = p \/ Before(at, p)
      BY <1>1, <3>1
    <3>3. p = at
      BY <1>1, <1>4, <3>2
    <3>4. QED BY <1>1, <1>3, <3>1, <3>3
  <2>3. QED BY <2>1, <2>2
<1>6. QED BY <1>1, <1>5 DEF Mentioned, Once

(* A sequence of events, one of them in the class.                          *)
Between(es, front, e, back) == es = front \o <<e>> \o back

LEMMA WordBetween ==
  ASSUME NEW front \in Seq(LogEvents), NEW e \in LogEvents, NEW back \in Seq(LogEvents),
         NEW K, Mute(front, K), Mute(back, K), e \in K,
         NEW es, Between(es, front, e, back)
  PROVE  /\ es \in Seq(LogEvents)
         /\ \E i \in DOMAIN es : es[i] = e /\ \A j \in DOMAIN es : j # i => es[j] \notin K
<1> DEFINE i == Len(front) + 1
<1>1. /\ es \in Seq(LogEvents) /\ i \in DOMAIN es /\ es[i] = e
      /\ \A j \in DOMAIN es : j < i => j \in DOMAIN front /\ es[j] = front[j]
      /\ \A j \in DOMAIN es : j > i => (j - i) \in DOMAIN back /\ es[j] = back[j - i]
      /\ \A j \in DOMAIN es : j \in Int
      /\ i \in Int
  BY DEF Between
<1> HIDE DEF i
<1>2. ASSUME NEW j \in DOMAIN es, j # i PROVE es[j] \notin K
  <2>1. j < i \/ j > i
    BY <1>1, <1>2
  <2>2. QED BY <1>1, <2>1 DEF Mute
<1>3. QED BY <1>1, <1>2

-----------------------------------------------------------------------------
(* Part VII.  The story: what was said about a request, and how it stands.  *)

OutcomeNames == {"RequestCompleted", "RefundIssued", "CarrierTipped"}
AboutNames == {"ProofSubmitted", "MilestoneVerified", "MilestoneRejected", "MilestonePaid"}
WorkNames == AboutNames \cup {"ProofWithdrawn", "PaymentReleased"}

(* Only an event about a milestone names one, and the beginning and the end *)
(* of a request are about nobody in particular.                             *)
PlainEvents ==
  {e \in LogEvents : /\ e.name \notin WorkNames => e.milestone = -1
                     /\ e.name \in {"RequestCreated", "RequestCancelled"} => e.party = NoUser}
Sayings(r, names) == {e \in PlainEvents : e.request = r /\ e.name \in names}

Awarded(r, w) == {e \in LogEvents : e.request = r /\ e.name = "MilestonePlanAccepted" /\ e.party = w}
OwnOffers(r, w) == {e \in LogEvents : e.request = r /\ e.name \in ProposalNames /\ e.party = w}
PaidFor(r, m) == {e \in LogEvents : e.request = r /\ e.name = "MilestonePaid" /\ e.milestone = m}
About(r, m) ==
  {e \in LogEvents : e.request = r /\ e.name \in AboutNames /\ e.milestone = m /\ IsNotice(e)}
Talks(r) == {e \in LogEvents : e.request = r /\ e.name \in NegotiationNames}
Offering == {e \in LogEvents : e.name = "MilestonePlanProposed"}
Proving == {e \in LogEvents : e.name = "ProofSubmitted"}
Asking == {e \in LogEvents : e.name \in Actionable}

AwardTold(r) ==
  \A w \in Parties : Mentioned(log, Awarded(r, w)) <=> (w = requests[r].carrier /\ w # NoUser)
OutcomeTold(r) ==
  /\ Mentioned(log, NamedOf(r, "RequestCompleted")) <=> requests[r].status = "Completed"
  /\ Mentioned(log, NamedOf(r, "RefundIssued")) <=> requests[r].status = "Refunded"
  /\ Mentioned(log, NamedOf(r, "CarrierTipped")) <=> tipAmounts[r] > 0
MilestoneTold(r, m) ==
  /\ milestones[r][m].status = "Paid" => Once(log, PaidFor(r, m))
  /\ milestones[r][m].status # "Paid" => ~Mentioned(log, PaidFor(r, m))
  /\ milestones[r][m].status = "Submitted" => LastWord(log, About(r, m), Proving)
  /\ m >= nextMilestoneId[r] => milestones[r][m].status \notin {"Paid", "Submitted"}
WorkTold(r) == \A m \in MilestoneIds : MilestoneTold(r, m)
TalkTold(r) == LastWord(log, Talks(r), Asking) <=> activeNegotiation[r].kind # "None"
(* Once a carrier has the request, its own proposals are of no interest.    *)
OffersTold(r) ==
  \A w \in Users : w # requests[r].carrier =>
    (LastWord(log, OwnOffers(r, w), Offering) <=> activeProposal[r][w] > 0)

Story(r) == AwardTold(r) /\ OutcomeTold(r) /\ WorkTold(r) /\ TalkTold(r) /\ OffersTold(r)

(* Nothing of this kind is said about a request.                            *)
NothingOf(es, r, names) == \A i \in DOMAIN es : es[i].request = r => es[i].name \notin names

LEMMA NothingIsMute ==
  ASSUME NEW es, NEW r, NEW names, NothingOf(es, r, names), NEW K,
         \A e \in K : e.request = r /\ e.name \in names
  PROVE  Mute(es, K)
BY DEF NothingOf, Mute

LEMMA SayingsAre ==
  ASSUME NEW r, NEW names, NEW es \in Seq(Sayings(r, names))
  PROVE  /\ es \in Seq(LogEvents) /\ es \in Seq(PlainEvents)
         /\ \A q, others : q # r \/ names \cap others = {} => NothingOf(es, q, others)
         /\ \A i \in DOMAIN es : es[i] \in PlainEvents /\ es[i].request = r /\ es[i].name \in names
<1>1. \A i \in DOMAIN es : es[i] \in PlainEvents /\ es[i].request = r /\ es[i].name \in names
  BY DEF Sayings
<1>2. Sayings(r, names) \subseteq PlainEvents /\ PlainEvents \subseteq LogEvents
  BY DEF Sayings, PlainEvents
<1> HIDE DEF Sayings, PlainEvents
<1>3. es \in Seq(LogEvents) /\ es \in Seq(PlainEvents)
  BY <1>2
<1>4. \A q, others : q # r \/ names \cap others = {} => NothingOf(es, q, others)
  BY <1>1 DEF NothingOf
<1>5. QED BY <1>1, <1>3, <1>4

(* What is not talked about stays as it was.                                *)
LEMMA AwardKept ==
  ASSUME NEW es, Grows(log, es, log'), NEW r, AwardTold(r), AwardStays(r),
         NothingOf(es, r, {"MilestonePlanAccepted"})
  PROVE  AwardTold(r)'
<1>1. ASSUME NEW w PROVE Mentioned(log', Awarded(r, w)) <=> Mentioned(log, Awarded(r, w))
  <2>1. Mute(es, Awarded(r, w))
    BY NothingIsMute DEF Awarded
  <2>2. QED BY <2>1, MuteKeeps
<1>2. \A w : (Mentioned(log, Awarded(r, w)))' <=> Mentioned(log', Awarded(r, w))
  OBVIOUS
<1>3. QED BY <1>1, <1>2 DEF AwardTold, AwardStays

LEMMA OutcomeKept ==
  ASSUME NEW es, Grows(log, es, log'), NEW r, OutcomeTold(r), OutcomeStays(r),
         NothingOf(es, r, OutcomeNames)
  PROVE  OutcomeTold(r)'
<1>1. ASSUME NEW name \in OutcomeNames
      PROVE  Mentioned(log', NamedOf(r, name)) <=> Mentioned(log, NamedOf(r, name))
  <2>1. Mute(es, NamedOf(r, name))
    BY NothingIsMute DEF NamedOf
  <2>2. QED BY <2>1, MuteKeeps
<1>2. QED BY <1>1 DEF OutcomeTold, OutcomeNames, OutcomeStays

LEMMA MilestoneKept ==
  ASSUME NEW es, Grows(log, es, log'), NEW r, NEW m, MilestoneTold(r, m), MilestoneStays(r, m),
         Mute(es, PaidFor(r, m)),
         milestones'[r][m].status = "Submitted" => Mute(es, About(r, m))
  PROVE  MilestoneTold(r, m)'
<1>1. /\ Mentioned(log', PaidFor(r, m)) <=> Mentioned(log, PaidFor(r, m))
      /\ Once(log', PaidFor(r, m)) <=> Once(log, PaidFor(r, m))
  BY MuteKeeps
<1>2. milestones'[r][m].status = "Submitted" => LastWord(log', About(r, m), Proving)
  <2>1. ASSUME milestones'[r][m].status = "Submitted" PROVE LastWord(log', About(r, m), Proving)
    <3>1. LastWord(log, About(r, m), Proving) /\ Mute(es, About(r, m))
      BY <2>1 DEF MilestoneTold, MilestoneStays
    <3>2. QED BY <3>1, MuteKeeps
  <2>2. QED BY <2>1
<1>3. QED BY <1>1, <1>2 DEF MilestoneTold, MilestoneStays

LEMMA WorkKept ==
  ASSUME NEW es, Grows(log, es, log'), NEW r, WorkTold(r), MilestonesStay(r), NothingOf(es, r, AboutNames)
  PROVE  WorkTold(r)'
<1>1. ASSUME NEW m \in MilestoneIds PROVE MilestoneTold(r, m)'
  <2>1. Mute(es, PaidFor(r, m))
    BY NothingIsMute DEF PaidFor, AboutNames
  <2>2. Mute(es, About(r, m))
    BY NothingIsMute DEF About
  <2>3. MilestoneTold(r, m) /\ MilestoneStays(r, m)
    BY DEF WorkTold, MilestonesStay
  <2>4. QED BY <2>1, <2>2, <2>3, MilestoneKept
<1>2. QED BY <1>1 DEF WorkTold

LEMMA TalkKept ==
  ASSUME NEW es, Grows(log, es, log'), NEW r, TalkTold(r), TalkStays(r),
         NothingOf(es, r, NegotiationNames)
  PROVE  TalkTold(r)'
<1>1. Mute(es, Talks(r))
  BY NothingIsMute DEF Talks
<1>2. LastWord(log', Talks(r), Asking) <=> LastWord(log, Talks(r), Asking)
  BY <1>1, MuteKeeps
<1>3. QED BY <1>2 DEF TalkTold, TalkStays

LEMMA OffersKept ==
  ASSUME NEW es, Grows(log, es, log'), NEW r, OffersTold(r), OffersStay(r),
         NothingOf(es, r, ProposalNames)
  PROVE  OffersTold(r)'
<1>1. ASSUME NEW w
      PROVE  LastWord(log', OwnOffers(r, w), Offering) <=> LastWord(log, OwnOffers(r, w), Offering)
  <2>1. Mute(es, OwnOffers(r, w))
    BY NothingIsMute DEF OwnOffers
  <2>2. QED BY <2>1, MuteKeeps
<1>2. QED BY <1>1 DEF OffersTold, OffersStay, AwardStays

-----------------------------------------------------------------------------
(* Part VIII.  Every transaction tells what it does.                        *)

StoryNames == OutcomeNames \cup AboutNames \cup NegotiationNames \cup ProposalNames

(* Of each part of the story: it is told anew, or nothing of it is said.    *)
Tells(r, names) ==
  /\ AwardTold(r)' \/ (AwardStays(r) /\ "MilestonePlanAccepted" \notin names)
  /\ OutcomeTold(r)' \/ (OutcomeStays(r) /\ names \cap OutcomeNames = {})
  /\ WorkTold(r)' \/ (MilestonesStay(r) /\ names \cap AboutNames = {})
  /\ TalkTold(r)' \/ (TalkStays(r) /\ names \cap NegotiationNames = {})
  /\ OffersTold(r)' \/ (OffersStay(r) /\ names \cap ProposalNames = {})

LEMMA StoryByParts ==
  ASSUME NEW es, Grows(log, es, log'), NEW r, NEW names, Story(r), Tells(r, names),
         \A others : names \cap others = {} => NothingOf(es, r, others)
  PROVE  Story(r)'
<1>1. AwardTold(r)'
  <2>1. ASSUME AwardStays(r), "MilestonePlanAccepted" \notin names PROVE AwardTold(r)'
    <3>1. names \cap {"MilestonePlanAccepted"} = {}
      BY <2>1
    <3>2. NothingOf(es, r, {"MilestonePlanAccepted"})
      BY <3>1
    <3>3. QED BY <2>1, <3>2, AwardKept DEF Story
  <2>2. QED BY <2>1 DEF Tells
<1>2. OutcomeTold(r)'
  <2>1. ASSUME OutcomeStays(r), names \cap OutcomeNames = {} PROVE OutcomeTold(r)'
    BY <2>1, OutcomeKept DEF Story
  <2>2. QED BY <2>1 DEF Tells
<1>3. WorkTold(r)'
  <2>1. ASSUME MilestonesStay(r), names \cap AboutNames = {} PROVE WorkTold(r)'
    BY <2>1, WorkKept DEF Story
  <2>2. QED BY <2>1 DEF Tells
<1>4. TalkTold(r)'
  <2>1. ASSUME TalkStays(r), names \cap NegotiationNames = {} PROVE TalkTold(r)'
    BY <2>1, TalkKept DEF Story
  <2>2. QED BY <2>1 DEF Tells
<1>5. OffersTold(r)'
  <2>1. ASSUME OffersStay(r), names \cap ProposalNames = {} PROVE OffersTold(r)'
    BY <2>1, OffersKept DEF Story
  <2>2. QED BY <2>1 DEF Tells
<1>6. QED BY <1>1, <1>2, <1>3, <1>4, <1>5 DEF Story

LEMMA StoryKept ==
  ASSUME NEW es, Grows(log, es, log'), NEW r, Story(r), StoryStays(r), NothingOf(es, r, StoryNames)
  PROVE  Story(r)'
<1>1. ASSUME NEW names, names \subseteq StoryNames PROVE NothingOf(es, r, names)
  BY <1>1 DEF NothingOf
<1>2. /\ NothingOf(es, r, OutcomeNames) /\ NothingOf(es, r, AboutNames)
      /\ NothingOf(es, r, NegotiationNames) /\ NothingOf(es, r, ProposalNames)
  BY <1>1 DEF StoryNames
<1>3. NothingOf(es, r, {"MilestonePlanAccepted"})
  BY <1>1 DEF StoryNames, ProposalNames
<1>4. AwardTold(r)'
  BY <1>3, AwardKept DEF Story, StoryStays
<1>5. OutcomeTold(r)'
  BY <1>2, OutcomeKept DEF Story, StoryStays
<1>6. WorkTold(r)'
  BY <1>2, WorkKept DEF Story, StoryStays
<1>7. TalkTold(r)'
  BY <1>2, TalkKept DEF Story, StoryStays
<1>8. OffersTold(r)'
  BY <1>2, OffersKept DEF Story, StoryStays
<1>9. QED BY <1>4, <1>5, <1>6, <1>7, <1>8 DEF Story

StoryInv == log \in Seq(Seq(PlainEvents)) /\ \A q \in RequestIds : Story(q)

(* A block about one request tells the stories of all.                      *)
LEMMA StoriesOfOne ==
  ASSUME StoryInv, log \in Seq(Seq(LogEvents)), NEW r \in RequestIds, NEW names,
         NEW es \in Seq(Sayings(r, names)), log' = Append(log, es), OthersStand(r),
         Grows(log, es, log') => Tells(r, names)
  PROVE  StoryInv'
<1>1. /\ es \in Seq(LogEvents) /\ es \in Seq(PlainEvents)
      /\ \A q : q # r => NothingOf(es, q, StoryNames)
      /\ \A others : names \cap others = {} => NothingOf(es, r, others)
  BY SayingsAre
<1>2. Grows(log, es, log')
  BY <1>1 DEF Grows
<1>3. ASSUME NEW q \in RequestIds, q # r PROVE Story(q)'
  BY <1>1, <1>2, <1>3, StoryKept DEF StoryInv, OthersStand
<1>4. Story(r)'
  BY <1>1, <1>2, StoryByParts DEF StoryInv
<1>5. log' \in Seq(Seq(PlainEvents))
  <2> HIDE DEF PlainEvents
  <2>1. log \in Seq(Seq(PlainEvents))
    BY DEF StoryInv
  <2>2. QED BY <1>1, <2>1
<1>6. QED BY <1>3, <1>4, <1>5 DEF StoryInv

LEMMA QuietStory ==
  ASSUME StoryInv, log \in Seq(Seq(LogEvents)), NEW r \in RequestIds, NEW names,
         NEW es \in Seq(Sayings(r, names)), log' = Append(log, es), names \cap StoryNames = {},
         OthersStand(r), StoryStays(r)
  PROVE  StoryInv'
<1>1. Tells(r, names)
  BY DEF Tells, StoryStays, StoryNames, ProposalNames
<1>2. QED BY <1>1, StoriesOfOne

(* The events of which the blocks are made.                                 *)
LEMMA EventsSaid ==
  ASSUME NEW r \in RequestIds, NEW name \in EventNames,
         NEW who \in Parties, NEW amount \in Nat, NEW m \in Int
  PROVE  /\ Event(r, name) \in Sayings(r, {name})
         /\ name \notin {"RequestCreated", "RequestCancelled"} =>
              /\ Of(r, name, who) \in Sayings(r, {name}) /\ Of(r, name, who).party = who
              /\ Money(r, name, who, amount) \in Sayings(r, {name})
              /\ IfAny(Money(r, name, who, amount)) \in Seq(Sayings(r, {name}))
         /\ name \in WorkNames => /\ Step(r, name, m) \in Sayings(r, {name})
                                  /\ Step(r, name, m).milestone = m /\ Step(r, name, m).approved = TRUE
<1>1. /\ Event(r, name) \in LogEvents /\ Event(r, name).request = r /\ Event(r, name).name = name
      /\ Of(r, name, who) \in LogEvents /\ Of(r, name, who).request = r
      /\ Of(r, name, who).name = name /\ Of(r, name, who).party = who
      /\ Money(r, name, who, amount) \in LogEvents /\ Money(r, name, who, amount).request = r
      /\ Money(r, name, who, amount).name = name
      /\ Step(r, name, m) \in LogEvents /\ Step(r, name, m).request = r /\ Step(r, name, m).name = name
  BY EventsAreTyped
<1>2. /\ Event(r, name).milestone = -1 /\ Event(r, name).party = NoUser
      /\ Of(r, name, who).milestone = -1 /\ Money(r, name, who, amount).milestone = -1
      /\ Step(r, name, m).milestone = m /\ Step(r, name, m).approved = TRUE
      /\ Step(r, name, m).party = NoUser
  BY DEF Event, Of, Money, Step
<1>3. Event(r, name) \in Sayings(r, {name})
  BY <1>1, <1>2 DEF Sayings, PlainEvents
<1>4. ASSUME name \notin {"RequestCreated", "RequestCancelled"}
      PROVE  Of(r, name, who) \in Sayings(r, {name}) /\ Money(r, name, who, amount) \in Sayings(r, {name})
  BY <1>1, <1>2, <1>4 DEF Sayings, PlainEvents
<1>5. ASSUME name \in WorkNames PROVE Step(r, name, m) \in Sayings(r, {name})
  BY <1>1, <1>2, <1>5 DEF Sayings, PlainEvents
<1>6. ASSUME name \notin {"RequestCreated", "RequestCancelled"}
      PROVE  IfAny(Money(r, name, who, amount)) \in Seq(Sayings(r, {name}))
  <2>1. PICK e : e = Money(r, name, who, amount)
    OBVIOUS
  <2>2. PICK S : S = Sayings(r, {name})
    OBVIOUS
  <2>3. e \in S
    BY <1>4, <1>6, <2>1, <2>2
  <2>4. <<e>> \in Seq(S) /\ <<>> \in Seq(S)
    BY <2>3
  <2>5. IfAny(e) \in Seq(S)
    BY <2>4 DEF IfAny
  <2>6. QED BY <2>1, <2>2, <2>5
<1>7. QED BY <1>1, <1>2, <1>3, <1>4, <1>5, <1>6

LEMMA Said ==
  ASSUME NEW r, NEW names, NEW more
  PROVE  /\ \A e \in Sayings(r, names) : <<e>> \in Seq(Sayings(r, names))
         /\ \A a \in Seq(Sayings(r, names)), b \in Seq(Sayings(r, more)) :
              a \o b \in Seq(Sayings(r, names \cup more))
         /\ <<>> \in Seq(Sayings(r, names))
         /\ names \subseteq more => Seq(Sayings(r, names)) \subseteq Seq(Sayings(r, more))
<1>1. /\ Sayings(r, names) \subseteq Sayings(r, names \cup more)
      /\ Sayings(r, more) \subseteq Sayings(r, names \cup more)
      /\ names \subseteq more => Sayings(r, names) \subseteq Sayings(r, more)
  BY DEF Sayings
<1>2. PICK A, B, C : A = Sayings(r, names) /\ B = Sayings(r, more) /\ C = Sayings(r, names \cup more)
  OBVIOUS
<1>3. A \subseteq C /\ B \subseteq C /\ (names \subseteq more => A \subseteq B)
  BY <1>1, <1>2
<1>4. \A e \in A : <<e>> \in Seq(A)
  OBVIOUS
<1>5. <<>> \in Seq(A)
  OBVIOUS
<1>6. \A a \in Seq(A), b \in Seq(B) : a \o b \in Seq(C)
  BY <1>3
<1>7. names \subseteq more => Seq(A) \subseteq Seq(B)
  BY <1>3
<1>8. QED BY <1>2, <1>4, <1>5, <1>6, <1>7

-----------------------------------------------------------------------------
(* Part IX.  The transactions, one by one.                                  *)

(* What has not been created yet is neither submitted nor paid.             *)
LEMMA NotBegunYet ==
  ASSUME NEW r, Story(r), NEW m \in MilestoneIds, m >= nextMilestoneId[r]
  PROVE  milestones[r][m].status \notin {"Paid", "Submitted"}
BY DEF Story, WorkTold, MilestoneTold

(* The milestones a plan or an amendment adds have yet to be begun.         *)
LEMMA CreatedStay ==
  ASSUME NEW r, Story(r), nextMilestoneId[r] \in Nat, NEW n \in Nat,
         nextMilestoneId'[r] = nextMilestoneId[r] + n, \A m \in MilestoneIds : m \in Nat,
         \A m \in MilestoneIds :
           IF m \in nextMilestoneId[r] .. nextMilestoneId[r] + n - 1
           THEN milestones'[r][m].status = "PendingProof"
           ELSE milestones'[r][m].status = milestones[r][m].status
  PROVE  MilestonesStay(r)
<1>1. ASSUME NEW m \in MilestoneIds PROVE MilestoneStays(r, m)
  <2>1. m \in Nat /\ (m >= nextMilestoneId'[r] => m >= nextMilestoneId[r])
    OBVIOUS
  <2>2. CASE m \in nextMilestoneId[r] .. nextMilestoneId[r] + n - 1
    <3>1. m >= nextMilestoneId[r]
      BY <2>1, <2>2
    <3>2. milestones[r][m].status \notin {"Paid", "Submitted"}
      BY <3>1, NotBegunYet
    <3>3. QED BY <2>1, <2>2, <3>2 DEF MilestoneStays
  <2>3. CASE m \notin nextMilestoneId[r] .. nextMilestoneId[r] + n - 1
    BY <2>1, <2>3 DEF MilestoneStays
  <2>4. QED BY <2>2, <2>3
<1>2. QED BY <1>1 DEF MilestonesStay

LEMMA AmendsMoves ==
  ASSUME ChainInv, NEW r \in RequestIds, Story(r), NEW newDeadline, NEW existing,
         NEW additions \in Additions(r), NEW operational,
         Amends(r, newDeadline, existing, additions, operational)
  PROVE  /\ AwardStays(r) /\ OutcomeStays(r) /\ MilestonesStay(r) /\ UNCHANGED <<activeProposal, tipAmounts>>
         /\ \A q \in RequestIds : q # r =>
              /\ requests'[q] = requests[q] /\ milestones'[q] = milestones[q]
              /\ nextMilestoneId'[q] = nextMilestoneId[q]
<1> DEFINE first == nextMilestoneId[r]
           n == Len(additions)
<1>1. /\ requests \in [RequestIds -> Requests]
      /\ milestones \in [RequestIds -> [MilestoneIds -> Milestones]]
      /\ nextMilestoneId \in [RequestIds -> Nat] /\ first \in Nat
      /\ \A m \in MilestoneIds : m \in Nat
  BY StoryTypes
<1>2. n \in Nat
  BY DEF Additions
<1>3. PICK held : FinalizeAmendment(r, newDeadline, existing, additions, operational, held)
  BY DEF Amends
<1>4. /\ requests' = [requests EXCEPT ![r].deadline = newDeadline,
                                      ![r].totalAmount = @ + Allocated(existing, additions),
                                      ![r].operationalAllowance = @ + operational]
      /\ nextMilestoneId' = [nextMilestoneId EXCEPT ![r] = first + n]
      /\ UNCHANGED <<activeProposal, tipAmounts>>
  BY <1>3 DEF FinalizeAmendment, marketVars
<1>5. milestones' = [milestones EXCEPT ![r] = [m \in MilestoneIds |->
           IF m \in first .. first + n - 1
           THEN [NoMilestone EXCEPT !.status = "PendingProof",
                                    !.additionalPayoutAmount = additions[m - first + 1].amount]
           ELSE IF m \in DOMAIN existing
           THEN [milestones[r][m] EXCEPT !.additionalPayoutAmount = @ + existing[m]]
           ELSE milestones[r][m]]]
  BY <1>3 DEF FinalizeAmendment
<1>6. /\ requests'[r].carrier = requests[r].carrier /\ requests'[r].status = requests[r].status
      /\ nextMilestoneId'[r] = first + n
      /\ \A q \in RequestIds : q # r => requests'[q] = requests[q] /\ nextMilestoneId'[q] = nextMilestoneId[q]
  BY <1>1, <1>4 DEF Requests
<1>7. \A q \in RequestIds : q # r => milestones'[q] = milestones[q]
  BY <1>1, <1>5
<1>8. ASSUME NEW m \in MilestoneIds
      PROVE  IF m \in first .. first + n - 1
             THEN milestones'[r][m].status = "PendingProof"
             ELSE milestones'[r][m].status = milestones[r][m].status
  <2>1. milestones[r][m] \in Milestones
    BY <1>1
  <2>2. milestones'[r][m] =
           IF m \in first .. first + n - 1
           THEN [NoMilestone EXCEPT !.status = "PendingProof",
                                    !.additionalPayoutAmount = additions[m - first + 1].amount]
           ELSE IF m \in DOMAIN existing
           THEN [milestones[r][m] EXCEPT !.additionalPayoutAmount = @ + existing[m]]
           ELSE milestones[r][m]
    BY <1>1, <1>5
  <2>3. [NoMilestone EXCEPT !.status = "PendingProof",
                            !.additionalPayoutAmount = additions[m - first + 1].amount].status = "PendingProof"
    BY DEF NoMilestone
  <2>4. [milestones[r][m] EXCEPT !.additionalPayoutAmount = @ + existing[m]].status = milestones[r][m].status
    BY <2>1 DEF Milestones
  <2>5. QED BY <2>2, <2>3, <2>4
<1>9. MilestonesStay(r)
  BY <1>1, <1>2, <1>6, <1>8, CreatedStay
<1>10. AwardStays(r) /\ OutcomeStays(r)
  BY <1>4, <1>6 DEF AwardStays, OutcomeStays
<1>11. QED BY <1>4, <1>6, <1>7, <1>9, <1>10

Chronicle == ChainInv /\ log \in Seq(Seq(LogEvents)) /\ StoryInv

(* A block of one event that is part of no story.                           *)
LEMMA QuietlyTold ==
  ASSUME Chronicle, NEW r \in RequestIds, NEW name, name \notin StoryNames,
         NEW e \in Sayings(r, {name}), Emit(<<e>>) \/ EmitEnd(<<e>>),
         OthersStand(r), StoryStays(r)
  PROVE  StoryInv'
<1>1. PICK names : names = {name}
  OBVIOUS
<1>2. PICK es : es = <<e>>
  OBVIOUS
<1>3. es \in Seq(Sayings(r, names)) /\ names \cap StoryNames = {}
  BY <1>1, <1>2, Said
<1>4. log' = Append(log, es)
  BY <1>2, EmitAppends
<1>5. QED BY <1>3, <1>4, QuietStory DEF Chronicle

LEMMA CreateTold ==
  ASSUME Chronicle, UNCHANGED negotiationVars,
         NEW u \in Users, NEW deadline \in Deadlines, NEW amount \in Amounts,
         CreateRequest(u, deadline, amount), Emit(<<Event(nextRequestId, "RequestCreated")>>)
  PROVE  StoryInv'
<1>1. PICK r \in RequestIds : /\ r = nextRequestId /\ requests[r] = NoRequest
                             /\ requests \in [RequestIds -> Requests]
  <2>1. IInv
    BY StoryTypes DEF Chronicle
  <2>2. nextRequestId \in 1 .. MaxRequests + 1 /\ nextRequestId <= MaxRequests
    BY <2>1 DEF IInv, MarketOK, CreateRequest
  <2>3. nextRequestId \in RequestIds /\ nextRequestId >= nextRequestId
    BY <2>2, NumberAssumption DEF RequestIds
  <2>4. QED BY <2>1, <2>3 DEF IInv, RequestsOK
<1>2. /\ requests' = [requests EXCEPT ![r] =
           [NoRequest EXCEPT !.shipper = u, !.deadline = deadline, !.proposedAmount = amount]]
      /\ UNCHANGED <<tipAmounts, milestones, nextMilestoneId, activeProposal>>
      /\ UNCHANGED activeNegotiation
  BY <1>1 DEF CreateRequest, negotiationVars, workVars
<1>3. /\ requests'[r].carrier = requests[r].carrier /\ requests'[r].status = requests[r].status
      /\ \A q \in RequestIds : q # r => requests'[q] = requests[q]
  BY <1>1, <1>2 DEF NoRequest
<1>4. OthersStand(r)
  BY <1>2, <1>3, ElsewhereStands DEF Elsewhere
<1>5. StoryStays(r)
  BY <1>2, <1>3, WorkUnchanged DEF StoryStays, AwardStays, OutcomeStays, TalkStays, OffersStay
<1>6. "RequestCreated" \in EventNames /\ NoUser \in Parties /\ 0 \in Nat /\ 0 \in Int
  BY DEF EventNames, QuietNames, Parties
<1>7. Event(r, "RequestCreated") \in Sayings(r, {"RequestCreated"})
  BY <1>6, EventsSaid
<1>8. "RequestCreated" \notin StoryNames
  BY DEF StoryNames, OutcomeNames, AboutNames, NegotiationNames, ProposalNames
<1>9. QED BY <1>1, <1>4, <1>5, <1>7, <1>8, QuietlyTold

LEMMA QuietStepsTold ==
  ASSUME Chronicle, NEW r \in RequestIds, UNCHANGED negotiationVars,
         \/ CancelRequest(r) /\ Emit(<<Event(r, "RequestCancelled")>>)
         \/ \E amount \in Nat : /\ TopUpOperationalAllowance(r, amount)
                                /\ Emit(<<Money(r, "OperationalAllowanceFunded", Escrow, amount)>>)
         \/ \E m \in MilestoneIds : WithdrawProof(r, m) /\ Emit(<<Step(r, "ProofWithdrawn", m)>>)
  PROVE  StoryInv'
<1>1. OthersStand(r) /\ StoryStays(r)
  BY QuietMoves DEF Chronicle
<1>2. /\ "RequestCancelled" \in EventNames /\ "OperationalAllowanceFunded" \in EventNames
      /\ "ProofWithdrawn" \in EventNames /\ "ProofWithdrawn" \in WorkNames
      /\ Escrow \in Parties /\ NoUser \in Parties /\ 0 \in Nat /\ 0 \in Int
      /\ \A m \in MilestoneIds : m \in Int
  BY DEF EventNames, QuietNames, PaymentEvents, WorkNames, Parties, MilestoneIds
<1>3. {"RequestCancelled", "OperationalAllowanceFunded", "ProofWithdrawn"} \cap StoryNames = {}
  BY DEF StoryNames, OutcomeNames, AboutNames, NegotiationNames, ProposalNames
<1>4. CASE Emit(<<Event(r, "RequestCancelled")>>)
  <2>1. Event(r, "RequestCancelled") \in Sayings(r, {"RequestCancelled"})
    BY <1>2, EventsSaid
  <2>2. QED BY <1>1, <1>3, <1>4, <2>1, QuietlyTold
<1>5. ASSUME NEW amount \in Nat, Emit(<<Money(r, "OperationalAllowanceFunded", Escrow, amount)>>)
      PROVE  StoryInv'
  <2>1. Money(r, "OperationalAllowanceFunded", Escrow, amount) \in Sayings(r, {"OperationalAllowanceFunded"})
    BY <1>2, EventsSaid
  <2>2. QED BY <1>1, <1>3, <1>5, <2>1, QuietlyTold
<1>6. ASSUME NEW m \in MilestoneIds, Emit(<<Step(r, "ProofWithdrawn", m)>>) PROVE StoryInv'
  <2>1. Step(r, "ProofWithdrawn", m) \in Sayings(r, {"ProofWithdrawn"})
    BY <1>2, EventsSaid
  <2>2. QED BY <1>1, <1>3, <1>6, <2>1, QuietlyTold
<1>7. QED BY <1>4, <1>5, <1>6

LEMMA ExtensionTold ==
  ASSUME Chronicle, NEW r \in RequestIds, NEW newDeadline \in Deadlines,
         ExtendShipmentDeadline(r, newDeadline), Emit(<<Event(r, "ShipmentDeadlineExtended")>>)
  PROVE  StoryInv'
<1>1. Story(r) /\ ChainInv /\ EscrowInv
  BY ChainFacts DEF Chronicle, StoryInv
<1>2. PICK existing, additions : existing = <<>> /\ additions = <<>>
  OBVIOUS
<1>3. /\ Amends(r, newDeadline, existing, additions, 0) /\ additions \in Additions(r)
      /\ UNCHANGED activeNegotiation
  BY <1>1, <1>2, ExtendFacts DEF PaidAmendment
<1>4. /\ AwardStays(r) /\ OutcomeStays(r) /\ MilestonesStay(r) /\ UNCHANGED <<activeProposal, tipAmounts>>
      /\ \A q \in RequestIds : q # r =>
           /\ requests'[q] = requests[q] /\ milestones'[q] = milestones[q]
           /\ nextMilestoneId'[q] = nextMilestoneId[q]
  BY <1>1, <1>3, AmendsMoves
<1>5. OthersStand(r)
  BY <1>3, <1>4, ElsewhereStands DEF Elsewhere
<1>6. StoryStays(r)
  BY <1>3, <1>4 DEF StoryStays, TalkStays, OffersStay
<1>7. "ShipmentDeadlineExtended" \in EventNames /\ NoUser \in Parties /\ 0 \in Nat /\ 0 \in Int
  BY DEF EventNames, QuietNames, Parties
<1>8. Event(r, "ShipmentDeadlineExtended") \in Sayings(r, {"ShipmentDeadlineExtended"})
  BY <1>7, EventsSaid
<1>9. "ShipmentDeadlineExtended" \notin StoryNames
  BY DEF StoryNames, OutcomeNames, AboutNames, NegotiationNames, ProposalNames
<1>10. QED BY <1>5, <1>6, <1>8, <1>9, QuietlyTold

LEMMA RatingTold ==
  ASSUME Chronicle, NEW r \in RequestIds, PublishRating(r)
  PROVE  StoryInv'
<1>1. PICK score \in Scores, tags \in Selectable : SubmitCarrierRating(r, score, tags)
  BY DEF PublishRating
<1>2. /\ UNCHANGED chainVars /\ Emit(<<Of(r, "CarrierRated", requests[r].carrier)>>)
  BY <1>1 DEF SubmitCarrierRating
<1>3. UNCHANGED <<requests, tipAmounts, milestones, nextMilestoneId, activeProposal, activeNegotiation>>
  BY <1>2 DEF chainVars, vars, marketVars, workVars, negotiationVars
<1>4. OthersStand(r)
  BY <1>3, ElsewhereStands DEF Elsewhere
<1>5. StoryStays(r)
  BY <1>3, WorkUnchanged DEF StoryStays, AwardStays, OutcomeStays, TalkStays, OffersStay
<1>6. requests[r].carrier \in Parties
  BY StoryTypes DEF Chronicle, Requests, Parties
<1>7. "CarrierRated" \in EventNames /\ 0 \in Nat /\ 0 \in Int
  BY DEF EventNames, QuietNames
<1>8. Of(r, "CarrierRated", requests[r].carrier) \in Sayings(r, {"CarrierRated"})
  BY <1>6, <1>7, EventsSaid
<1>9. "CarrierRated" \notin StoryNames
  BY DEF StoryNames, OutcomeNames, AboutNames, NegotiationNames, ProposalNames
<1>10. QED BY <1>2, <1>4, <1>5, <1>8, <1>9, QuietlyTold

(* Offers: the last a carrier's own proposals say is whether one is active. *)
LEMMA OneOffer ==
  ASSUME NEW r \in RequestIds, NEW u \in Users, NEW e \in LogEvents, NEW es, es = <<e>>,
         Grows(log, es, log'), OffersTold(r), AwardStays(r),
         e.request = r, e.name \in ProposalNames, e.party = u,
         activeProposal \in [RequestIds -> [Users -> Nat]], NEW k \in Nat,
         activeProposal' = [activeProposal EXCEPT ![r][u] = k],
         e.name = "MilestonePlanProposed" <=> k > 0
  PROVE  OffersTold(r)'
<1>1. /\ activeProposal'[r][u] = k
      /\ \A w \in Users : w # u => activeProposal'[r][w] = activeProposal[r][w]
  OBVIOUS
<1>2. 1 \in DOMAIN es /\ es[1] = e /\ \A j \in DOMAIN es : j = 1
  OBVIOUS
<1>3. LastWord(log', OwnOffers(r, u), Offering) <=> k > 0
  <2>1. es[1] \in OwnOffers(r, u)
    BY <1>2 DEF OwnOffers
  <2>2. \A j \in DOMAIN es : j # 1 => es[j] \notin OwnOffers(r, u)
    BY <1>2
  <2>3. LastWord(log', OwnOffers(r, u), Offering) <=> es[1] \in Offering
    BY <1>2, <2>1, <2>2, OneWord
  <2>4. QED BY <1>2, <2>3 DEF Offering
<1>4. ASSUME NEW w, w # u
      PROVE  LastWord(log', OwnOffers(r, w), Offering) <=> LastWord(log, OwnOffers(r, w), Offering)
  <2>1. Mute(es, OwnOffers(r, w))
    BY <1>2, <1>4 DEF Mute, OwnOffers
  <2>2. QED BY <2>1, MuteKeeps
<1>5. QED BY <1>1, <1>3, <1>4 DEF OffersTold, AwardStays

LEMMA OfferTold ==
  ASSUME Chronicle, NEW r \in RequestIds, NEW u \in Users,
         NEW name \in {"MilestonePlanProposed", "MilestonePlanRevoked", "MilestonePlanRejected"},
         UNCHANGED <<requests, tipAmounts, milestones, nextMilestoneId, activeNegotiation>>,
         NEW k \in Nat, activeProposal' = [activeProposal EXCEPT ![r][u] = k],
         name = "MilestonePlanProposed" <=> k > 0,
         Emit(<<Of(r, name, u)>>)
  PROVE  StoryInv'
<1>1. /\ name \in EventNames /\ u \in Parties /\ 0 \in Nat /\ 0 \in Int
      /\ name \notin {"RequestCreated", "RequestCancelled"} /\ name \in ProposalNames
  BY DEF EventNames, QuietNames, Parties, ProposalNames
<1>2. PICK e : e = Of(r, name, u)
  OBVIOUS
<1>3. e \in LogEvents /\ e.request = r /\ e.name = name /\ e.party = u
  BY <1>1, <1>2, EventsAreTyped
<1>4. e \in Sayings(r, {name})
  BY <1>1, <1>2, EventsSaid
<1>5. PICK es : es = <<e>>
  OBVIOUS
<1>6. es \in Seq(Sayings(r, {name}))
  BY <1>4, <1>5, Said
<1>7. log' = Append(log, es)
  BY <1>2, <1>5, EmitAppends
<1>8. activeProposal \in [RequestIds -> [Users -> Nat]]
  BY StoryTypes DEF Chronicle
<1>9. OthersStand(r)
  BY <1>8, ElsewhereStands DEF Elsewhere
<1>10. AwardStays(r) /\ OutcomeStays(r) /\ TalkStays(r) /\ MilestonesStay(r)
  BY WorkUnchanged DEF AwardStays, OutcomeStays, TalkStays
<1>11. ASSUME Grows(log, es, log') PROVE Tells(r, {name})
  <2>1. OffersTold(r)
    BY DEF Chronicle, StoryInv, Story
  <2>2. OffersTold(r)'
    BY <1>1, <1>3, <1>5, <1>8, <1>10, <1>11, <2>1, OneOffer
  <2>3. /\ "MilestonePlanAccepted" \notin {name} /\ {name} \cap OutcomeNames = {}
        /\ {name} \cap AboutNames = {} /\ {name} \cap NegotiationNames = {}
    BY DEF OutcomeNames, AboutNames, NegotiationNames
  <2>4. QED BY <1>10, <2>2, <2>3 DEF Tells
<1>12. QED BY <1>6, <1>7, <1>9, <1>11, StoriesOfOne DEF Chronicle

LEMMA OffersAreTold ==
  ASSUME Chronicle, NEW r \in RequestIds, UNCHANGED negotiationVars,
         \/ \E u \in Carriers :
              \/ \E plan \in Plans :
                   ProposeMilestones(u, r, plan) /\ Emit(<<Of(r, "MilestonePlanProposed", u)>>)
              \/ RevokeMilestoneProposal(u, r) /\ Emit(<<Of(r, "MilestonePlanRevoked", u)>>)
         \/ \E p \in 1 .. MaxProposals :
              RejectMilestoneProposal(r, p)
                /\ Emit(<<Of(r, "MilestonePlanRejected", proposals[r][p].carrier)>>)
  PROVE  StoryInv'
<1>1. UNCHANGED activeNegotiation /\ \A u \in Carriers : u \in Users
  BY RecordsAssumption DEF negotiationVars
<1>2. Deal(r) /\ IInv
  BY StoryTypes DEF Chronicle
<1>3. /\ proposals[r] \in Seq(Proposals) /\ Len(proposals[r]) \in Nat
      /\ \A p \in DOMAIN proposals[r] : proposals[r][p].carrier \in Users
  <2>1. proposals[r] \in Seq(Proposals) /\ Len(proposals[r]) \in Nat
    BY <1>2, MarketTypes
  <2>2. \A p \in DOMAIN proposals[r] : proposals[r][p] \in Proposals
    BY ONLY <2>1
  <2>3. \A proposal \in Proposals : proposal.carrier \in Users
    BY DEF Proposals
  <2>4. QED BY <2>1, <2>2, <2>3
<1>4. ASSUME NEW u \in Users, NEW plan \in Plans, ProposeMilestones(u, r, plan),
             Emit(<<Of(r, "MilestonePlanProposed", u)>>)
      PROVE  StoryInv'
  <2>1. /\ UNCHANGED <<requests, tipAmounts, milestones, nextMilestoneId>>
        /\ activeProposal' = [activeProposal EXCEPT ![r][u] = Len(proposals[r]) + 1]
    BY <1>4 DEF ProposeMilestones, workVars
  <2>2. PICK k \in Nat : k = Len(proposals[r]) + 1 /\ k > 0
    BY <1>3
  <2>3. QED BY <1>1, <1>4, <2>1, <2>2, OfferTold
<1>5. ASSUME NEW u \in Users, RevokeMilestoneProposal(u, r), Emit(<<Of(r, "MilestonePlanRevoked", u)>>)
      PROVE  StoryInv'
  <2>1. /\ UNCHANGED <<requests, tipAmounts, milestones, nextMilestoneId>>
        /\ requests[r].status = "Open" /\ activeProposal[r][u] > 0
        /\ activeProposal' = [activeProposal EXCEPT ![r][proposals[r][activeProposal[r][u]].carrier] = 0]
    BY <1>5 DEF RevokeMilestoneProposal, CloseProposal, workVars
  <2>2. proposals[r][activeProposal[r][u]].carrier = u
    BY <1>2, <2>1 DEF Deal, Indexed
  <2>3. PICK k \in Nat : k = 0 /\ ~(k > 0)
    OBVIOUS
  <2>4. activeProposal' = [activeProposal EXCEPT ![r][u] = k]
    BY <2>1, <2>2, <2>3
  <2>5. QED BY <1>1, <1>5, <2>1, <2>3, <2>4, OfferTold
<1>6. ASSUME NEW p, RejectMilestoneProposal(r, p),
             Emit(<<Of(r, "MilestonePlanRejected", proposals[r][p].carrier)>>)
      PROVE  StoryInv'
  <2>1. /\ UNCHANGED <<requests, tipAmounts, milestones, nextMilestoneId>>
        /\ p \in DOMAIN proposals[r]
        /\ activeProposal' = [activeProposal EXCEPT ![r][proposals[r][p].carrier] = 0]
    BY <1>6 DEF RejectMilestoneProposal, CloseProposal, workVars
  <2>2. PICK u \in Users : u = proposals[r][p].carrier
    BY <1>3, <2>1
  <2>3. PICK k \in Nat : k = 0 /\ ~(k > 0)
    OBVIOUS
  <2>4. activeProposal' = [activeProposal EXCEPT ![r][u] = k]
    BY <2>1, <2>2, <2>3
  <2>5. Emit(<<Of(r, "MilestonePlanRejected", u)>>)
    BY <1>6, <2>2
  <2>6. QED BY <1>1, <2>1, <2>3, <2>4, <2>5, OfferTold
<1>7. QED BY <1>1, <1>4, <1>5, <1>6

(* A word that is said at all.                                              *)
LEMMA SomeWord ==
  ASSUME NEW l, NEW es, NEW l2, Grows(l, es, l2), NEW K, NEW i \in DOMAIN es, es[i] \in K
  PROVE  Mentioned(l2, K)
<1>1. FoundIn(l2, K) = FoundIn(l, K) \cup ({Len(l) + 1} \X SaidIn(es, K))
  BY FoundGrows
<1>2. i \in SaidIn(es, K)
  BY DEF SaidIn
<1>3. <<Len(l) + 1, i>> \in FoundIn(l2, K)
  BY <1>1, <1>2
<1>4. QED BY <1>3 DEF Mentioned

(* Acceptance: from now on the carrier is known.                            *)
LEMMA AcceptanceTold ==
  ASSUME NEW r \in RequestIds, NEW c \in Users, NEW amount, NEW allowance,
         NEW es, es = FundingBlock(r, c, amount, allowance), Grows(log, es, log'),
         Story(r), requests[r].carrier = NoUser, requests'[r].carrier = c,
         \A w \in Users : w # c => activeProposal'[r][w] = activeProposal[r][w],
         Of(r, "MilestonePlanAccepted", c) \in LogEvents,
         es \in Seq(LogEvents)
  PROVE  AwardTold(r)' /\ OffersTold(r)'
<1>1. /\ DOMAIN es = {1, 2, 3}
      /\ es[1].request = r /\ es[1].name = "MilestonePlanAccepted" /\ es[1].party = c /\ es[1] \in LogEvents
      /\ es[2].name = "EscrowFunded" /\ es[3].name = "OperationalAllowanceFunded"
  <2>1. PICK a, b, d : /\ a = Of(r, "MilestonePlanAccepted", c) /\ b = Money(r, "EscrowFunded", Escrow, amount)
                       /\ d = Money(r, "OperationalAllowanceFunded", Escrow, allowance)
    OBVIOUS
  <2>2. /\ a.request = r /\ a.name = "MilestonePlanAccepted" /\ a.party = c
        /\ b.name = "EscrowFunded" /\ d.name = "OperationalAllowanceFunded"
    BY <2>1 DEF Of, Money, Event
  <2>3. es = <<a, b, d>>
    BY <2>1 DEF FundingBlock
  <2>4. QED BY <2>1, <2>2, <2>3
<1>2. c # NoUser
  BY AccountAssumption
<1>3. ASSUME NEW w \in Parties
      PROVE  Mentioned(log', Awarded(r, w)) <=> (w = c /\ w # NoUser)
  <2>1. CASE w = c
    <3>1. 1 \in DOMAIN es /\ es[1] \in Awarded(r, c)
      BY <1>1 DEF Awarded
    <3>2. Mentioned(log', Awarded(r, c))
      BY <3>1, SomeWord
    <3>3. QED BY <1>2, <2>1, <3>2
  <2>2. CASE w # c
    <3>1. Mute(es, Awarded(r, w))
      BY <1>1, <2>2 DEF Mute, Awarded
    <3>2. Mentioned(log', Awarded(r, w)) <=> Mentioned(log, Awarded(r, w))
      BY <3>1, MuteKeeps
    <3>3. ~Mentioned(log, Awarded(r, w))
      BY DEF Story, AwardTold
    <3>4. QED BY <2>2, <3>2, <3>3
  <2>3. QED BY <2>1, <2>2
<1>4. ASSUME NEW w \in Users, w # c
      PROVE  LastWord(log', OwnOffers(r, w), Offering) <=> activeProposal'[r][w] > 0
  <2>1. Mute(es, OwnOffers(r, w))
    BY <1>1, <1>4 DEF Mute, OwnOffers, ProposalNames
  <2>2. LastWord(log', OwnOffers(r, w), Offering) <=> LastWord(log, OwnOffers(r, w), Offering)
    BY <2>1, MuteKeeps
  <2>3. w # requests[r].carrier
    BY AccountAssumption
  <2>4. LastWord(log, OwnOffers(r, w), Offering) <=> activeProposal[r][w] > 0
    BY <2>3 DEF Story, OffersTold
  <2>5. QED BY <1>4, <2>2, <2>4
<1>5. AwardTold(r)'
  BY <1>3 DEF AwardTold
<1>6. OffersTold(r)'
  BY <1>4 DEF OffersTold
<1>7. QED BY <1>5, <1>6

LEMMA FundTold ==
  ASSUME Chronicle, NEW r \in RequestIds, UNCHANGED negotiationVars, NEW p \in DOMAIN proposals[r],
         NEW price, NEW allowance \in Nat, ApproveAndFund(r, p, price, allowance),
         Emit(<<Of(r, "MilestonePlanAccepted", proposals[r][p].carrier),
                Money(r, "EscrowFunded", Escrow, requests[r].proposedAmount),
                Money(r, "OperationalAllowanceFunded", Escrow, allowance)>>)
  PROVE  StoryInv'
<1> DEFINE first == nextMilestoneId[r]
           plan == proposals[r][p].plan
<1>1. /\ IInv /\ Deal(r) /\ Story(r)
      /\ requests \in [RequestIds -> Requests]
      /\ milestones \in [RequestIds -> [MilestoneIds -> Milestones]]
      /\ nextMilestoneId \in [RequestIds -> Nat] /\ first \in Nat
      /\ activeProposal \in [RequestIds -> [Users -> Nat]]
      /\ \A m \in MilestoneIds : m \in Nat
  BY StoryTypes DEF Chronicle, StoryInv
<1>2. proposals[r][p] \in Proposals
  <2>1. proposals[r] \in Seq(Proposals)
    BY <1>1, MarketTypes
  <2>2. QED BY ONLY <2>1, p \in DOMAIN proposals[r]
<1>3. PICK c \in Users : c = proposals[r][p].carrier
  BY <1>2 DEF Proposals
<1>4. PICK n \in Nat : n = Len(plan)
  <2>1. plan \in Plans
    BY <1>2 DEF Proposals
  <2>2. plan \in Seq(Nat)
    BY <2>1, InputAssumption
  <2>3. QED BY <2>2
<1>5. requests[r].status = "Open" /\ requests[r].carrier = NoUser
  BY <1>1 DEF ApproveAndFund, Deal, WasFunded
<1>6. PICK amount \in Nat : amount = requests[r].proposedAmount
  BY <1>1, Figures DEF Requests
<1>7. /\ \E cap : requests' = [requests EXCEPT ![r].carrier = c, ![r].totalAmount = amount,
                                              ![r].status = "Funded",
                                              ![r].operationalAllowance = allowance,
                                              ![r].gasPriceCap = cap]
      /\ activeProposal' = [activeProposal EXCEPT ![r][c] = 0]
      /\ nextMilestoneId' = [nextMilestoneId EXCEPT ![r] = first + n]
      /\ UNCHANGED tipAmounts
  BY <1>3, <1>4, <1>6 DEF ApproveAndFund, CloseProposal
<1>8. milestones' = [milestones EXCEPT ![r] = [m \in MilestoneIds |->
              IF m \in first .. first + n - 1
              THEN [NoMilestone EXCEPT !.status = "PendingProof",
                                       !.payoutAmount = PayoutAmount(requests[r].proposedAmount, plan, m - first + 1)]
              ELSE milestones[r][m]]]
  BY <1>4 DEF ApproveAndFund
<1>9. /\ requests'[r].carrier = c /\ requests'[r].status = "Funded"
      /\ \A q \in RequestIds : q # r => requests'[q] = requests[q]
  <2>1. PICK cap : requests' = [requests EXCEPT ![r].carrier = c, ![r].totalAmount = amount,
                                              ![r].status = "Funded",
                                              ![r].operationalAllowance = allowance,
                                              ![r].gasPriceCap = cap]
    BY <1>7
  <2>2. QED BY <1>1, <2>1 DEF Requests
<1>10. /\ nextMilestoneId'[r] = first + n
       /\ \A w \in Users : w # c => activeProposal'[r][w] = activeProposal[r][w]
       /\ \A q \in RequestIds : q # r => /\ nextMilestoneId'[q] = nextMilestoneId[q]
                                         /\ activeProposal'[q] = activeProposal[q]
  BY <1>1, <1>7
<1>11. \A q \in RequestIds : q # r => milestones'[q] = milestones[q]
  BY <1>1, <1>8
<1>12. UNCHANGED activeNegotiation
  BY DEF negotiationVars
<1>13. OthersStand(r)
  BY <1>7, <1>9, <1>10, <1>11, <1>12, ElsewhereStands DEF Elsewhere
<1>14. MilestonesStay(r)
  <2>1. ASSUME NEW m \in MilestoneIds
        PROVE  IF m \in first .. first + n - 1
               THEN milestones'[r][m].status = "PendingProof"
               ELSE milestones'[r][m].status = milestones[r][m].status
    <3>1. milestones'[r][m] =
            IF m \in first .. first + n - 1
            THEN [NoMilestone EXCEPT !.status = "PendingProof",
                                     !.payoutAmount = PayoutAmount(requests[r].proposedAmount, plan, m - first + 1)]
            ELSE milestones[r][m]
      BY <1>1, <1>8
    <3>2. \A payout : [NoMilestone EXCEPT !.status = "PendingProof", !.payoutAmount = payout].status = "PendingProof"
      BY DEF NoMilestone
    <3>3. QED BY <3>1, <3>2
  <2>2. QED BY <1>1, <1>10, <2>1, CreatedStay
<1>15. OutcomeStays(r)
  BY <1>5, <1>7, <1>9 DEF OutcomeStays
<1>16. TalkStays(r)
  BY <1>12 DEF TalkStays
<1>17. /\ "MilestonePlanAccepted" \in EventNames /\ "EscrowFunded" \in EventNames
       /\ "OperationalAllowanceFunded" \in EventNames
       /\ c \in Parties /\ Escrow \in Parties /\ 0 \in Nat /\ 0 \in Int
  BY DEF EventNames, QuietNames, PaymentEvents, Parties
<1>18. PICK names : names = {"MilestonePlanAccepted", "EscrowFunded", "OperationalAllowanceFunded"}
  OBVIOUS
<1>19. /\ Of(r, "MilestonePlanAccepted", c) \in Sayings(r, names)
       /\ Money(r, "EscrowFunded", Escrow, amount) \in Sayings(r, names)
       /\ Money(r, "OperationalAllowanceFunded", Escrow, allowance) \in Sayings(r, names)
       /\ Of(r, "MilestonePlanAccepted", c) \in LogEvents
  <2>1. /\ Of(r, "MilestonePlanAccepted", c) \in Sayings(r, {"MilestonePlanAccepted"})
        /\ Money(r, "EscrowFunded", Escrow, amount) \in Sayings(r, {"EscrowFunded"})
        /\ Money(r, "OperationalAllowanceFunded", Escrow, allowance)
             \in Sayings(r, {"OperationalAllowanceFunded"})
    BY <1>17, EventsSaid
  <2>2. QED BY <1>18, <2>1 DEF Sayings, PlainEvents
<1>20. PICK es : es = FundingBlock(r, c, amount, allowance)
  OBVIOUS
<1>21. es \in Seq(Sayings(r, names))
  <2>1. PICK a, b, d : /\ a = Of(r, "MilestonePlanAccepted", c) /\ b = Money(r, "EscrowFunded", Escrow, amount)
                       /\ d = Money(r, "OperationalAllowanceFunded", Escrow, allowance)
    OBVIOUS
  <2>2. es = <<a, b, d>>
    BY <1>20, <2>1 DEF FundingBlock
  <2>3. PICK S : S = Sayings(r, names)
    OBVIOUS
  <2>4. a \in S /\ b \in S /\ d \in S
    BY <1>19, <2>1, <2>3
  <2>5. es \in Seq(S)
    BY <2>2, <2>4
  <2>6. QED BY <2>3, <2>5
<1>22. log' = Append(log, es)
  BY <1>3, <1>6, <1>20, EmitAppends DEF FundingBlock
<1>23. ASSUME Grows(log, es, log') PROVE Tells(r, names)
  <2>1. es \in Seq(LogEvents)
    BY <1>21, SayingsAre
  <2>2. AwardTold(r)' /\ OffersTold(r)'
    BY <1>1, <1>5, <1>9, <1>10, <1>19, <1>20, <1>23, <2>1, AcceptanceTold
  <2>3. /\ names \cap OutcomeNames = {} /\ names \cap AboutNames = {} /\ names \cap NegotiationNames = {}
    BY <1>18 DEF OutcomeNames, AboutNames, NegotiationNames
  <2>4. QED BY <1>14, <1>15, <1>16, <2>2, <2>3 DEF Tells
<1>24. QED BY <1>13, <1>21, <1>22, <1>23, StoriesOfOne DEF Chronicle

(* A block that has an event of the class somewhere.                        *)
Has(es, K) == \E i \in DOMAIN es : es[i] \in K

LEMMA HasIsMentioned ==
  ASSUME NEW l, NEW es, NEW l2, Grows(l, es, l2), NEW K, Has(es, K)
  PROVE  Mentioned(l2, K)
BY SomeWord DEF Has

LEMMA HasInBoth ==
  ASSUME NEW S, NEW a \in Seq(S), NEW b \in Seq(S), NEW K
  PROVE  /\ Has(a, K) \/ Has(b, K) => Has(a \o b, K)
         /\ \A e \in K : Has(<<e>>, K)
<1>1. /\ \A i \in DOMAIN a : i \in DOMAIN (a \o b) /\ (a \o b)[i] = a[i]
      /\ \A i \in DOMAIN b : Len(a) + i \in DOMAIN (a \o b) /\ (a \o b)[Len(a) + i] = b[i]
  OBVIOUS
<1>2. \A e : 1 \in DOMAIN <<e>> /\ <<e>>[1] = e
  OBVIOUS
<1>3. PICK both : both = a \o b
  OBVIOUS
<1>4. QED BY <1>1, <1>2, <1>3 DEF Has

LEMMA TipTold ==
  ASSUME Chronicle, NEW r \in RequestIds, UNCHANGED negotiationVars, NEW amount \in Nat,
         TipCarrier(r, amount), Emit(<<Money(r, "CarrierTipped", requests[r].carrier, amount)>>)
  PROVE  StoryInv'
<1>1. /\ tipAmounts \in [RequestIds -> Nat] /\ requests \in [RequestIds -> Requests]
      /\ Story(r)
  BY StoryTypes DEF Chronicle, StoryInv
<1>2. /\ UNCHANGED <<requests, milestones, nextMilestoneId, activeProposal>>
      /\ UNCHANGED activeNegotiation
      /\ amount > 0 /\ tipAmounts[r] = 0 /\ tipAmounts' = [tipAmounts EXCEPT ![r] = amount]
  BY DEF TipCarrier, workVars, marketVars, negotiationVars
<1>3. tipAmounts'[r] = amount /\ \A q \in RequestIds : q # r => tipAmounts'[q] = tipAmounts[q]
  BY <1>1, <1>2
<1>4. OthersStand(r)
  BY <1>2, <1>3, ElsewhereStands DEF Elsewhere
<1>5. AwardStays(r) /\ MilestonesStay(r) /\ TalkStays(r) /\ OffersStay(r)
  BY <1>2, WorkUnchanged DEF AwardStays, TalkStays, OffersStay
<1>6. PICK c \in Parties : c = requests[r].carrier
  BY <1>1 DEF Requests, Parties
<1>7. "CarrierTipped" \in EventNames /\ 0 \in Nat /\ 0 \in Int
  BY DEF EventNames, PaymentEvents
<1>8. PICK e : e = Money(r, "CarrierTipped", c, amount)
  OBVIOUS
<1>9. e \in Sayings(r, {"CarrierTipped"}) /\ e \in LogEvents /\ e.name = "CarrierTipped" /\ e.request = r
  <2>1. e \in Sayings(r, {"CarrierTipped"})
    BY <1>7, <1>8, EventsSaid
  <2>2. QED BY <1>7, <1>8, <2>1, EventsAreTyped
<1>10. PICK es : es = <<e>>
  OBVIOUS
<1>11. es \in Seq(Sayings(r, {"CarrierTipped"}))
  BY <1>9, <1>10, Said
<1>12. log' = Append(log, es)
  BY <1>6, <1>8, <1>10, EmitAppends
<1>13. ASSUME Grows(log, es, log') PROVE Tells(r, {"CarrierTipped"})
  <2>1. Mentioned(log', NamedOf(r, "CarrierTipped"))
    <3>1. 1 \in DOMAIN es /\ es[1] = e
      BY <1>10
    <3>2. es[1] \in NamedOf(r, "CarrierTipped")
      BY <1>9, <3>1 DEF NamedOf
    <3>3. QED BY <1>13, <3>1, <3>2, SomeWord
  <2>2. ASSUME NEW name \in {"RequestCompleted", "RefundIssued"}
        PROVE  Mentioned(log', NamedOf(r, name)) <=> Mentioned(log, NamedOf(r, name))
    <3>1. Mute(es, NamedOf(r, name))
      BY <1>9, <1>10, <2>2 DEF Mute, NamedOf
    <3>2. QED BY <1>13, <3>1, MuteKeeps
  <2>3. OutcomeTold(r)'
    BY <1>1, <1>2, <1>3, <2>1, <2>2 DEF Story, OutcomeTold
  <2>4. /\ "MilestonePlanAccepted" \notin {"CarrierTipped"} /\ {"CarrierTipped"} \cap AboutNames = {}
        /\ {"CarrierTipped"} \cap NegotiationNames = {} /\ {"CarrierTipped"} \cap ProposalNames = {}
    BY DEF AboutNames, NegotiationNames, ProposalNames
  <2>5. QED BY <1>5, <2>3, <2>4 DEF Tells
<1>14. QED BY <1>4, <1>11, <1>12, <1>13, StoriesOfOne DEF Chronicle

(* Work: what is said of one milestone leaves the others alone.             *)
LEMMA OneMilestone ==
  ASSUME NEW es, Grows(log, es, log'), NEW r, Story(r), NEW m \in MilestoneIds,
         \A i \in DOMAIN es : es[i].name \in AboutNames => es[i].milestone = m,
         \A n \in MilestoneIds : n # m => MilestoneStays(r, n),
         MilestoneTold(r, m)'
  PROVE  WorkTold(r)'
<1>1. ASSUME NEW n \in MilestoneIds, n # m PROVE MilestoneTold(r, n)'
  <2>1. Mute(es, PaidFor(r, n)) /\ Mute(es, About(r, n))
    BY <1>1 DEF Mute, PaidFor, About, AboutNames
  <2>2. MilestoneTold(r, n) /\ MilestoneStays(r, n)
    BY <1>1 DEF Story, WorkTold
  <2>3. QED BY <2>1, <2>2, MilestoneKept
<1>2. ASSUME NEW n \in MilestoneIds PROVE MilestoneTold(r, n)'
  BY <1>1
<1>3. QED BY <1>2 DEF WorkTold

LEMMA WordAtEnd ==
  ASSUME NEW front \in Seq(LogEvents), NEW e \in LogEvents, NEW K, Mute(front, K), e \in K,
         NEW es, es = front \o <<e>>
  PROVE  /\ es \in Seq(LogEvents)
         /\ \E i \in DOMAIN es : es[i] = e /\ \A j \in DOMAIN es : j # i => es[j] \notin K
<1> DEFINE i == Len(front) + 1
<1>1. /\ es \in Seq(LogEvents) /\ i \in DOMAIN es /\ es[i] = e
      /\ \A j \in DOMAIN es : j # i => j \in DOMAIN front /\ es[j] = front[j]
  OBVIOUS
<1> HIDE DEF i
<1>2. QED BY <1>1 DEF Mute

LEMMA SubmitMoves ==
  ASSUME ChainInv, NEW r \in RequestIds, NEW m \in MilestoneIds, NEW uri, NEW gas \in Nat,
         NEW price \in Nat, SubmitProof(r, m, uri, gas, price)
  PROVE  /\ Reimbursed(r) \in Nat
         /\ requests'[r].carrier = requests[r].carrier /\ OutcomeStays(r)
         /\ \A q \in RequestIds : q # r => requests'[q] = requests[q]
<1> DEFINE ms == [milestones[r] EXCEPT ![m] = Submitted(milestones[r][m], uri)]
<1>1. IInv /\ requests \in [RequestIds -> Requests]
  BY StoryTypes
<1>2. PICK paid : paid = IF milestones[r][m].proofSubmissionReimbursed THEN 0
                         ELSE Reimbursement(r, ms, gas, price)
  OBVIOUS
<1>3. paid \in Nat
  <2>1. Reimbursement(r, ms, gas, price) \in Nat
    BY <1>1, ReimbursementIsNat
  <2> HIDE DEF ms
  <2>2. QED BY <1>2, <2>1
<1>4. /\ requests[r].status \in {"Funded", "InProgress"} /\ tipAmounts' = tipAmounts
      /\ requests' = [requests EXCEPT ![r].status = "InProgress", ![r].operationalSpent = @ + paid]
  BY <1>2 DEF SubmitProof, Active
<1>5. /\ requests'[r].status = "InProgress" /\ requests'[r].carrier = requests[r].carrier
      /\ requests'[r].operationalSpent = requests[r].operationalSpent + paid
      /\ \A q \in RequestIds : q # r => requests'[q] = requests[q]
      /\ requests[r].operationalSpent \in Nat
  BY <1>1, <1>4 DEF Requests
<1>6. Reimbursed(r) = paid
  BY <1>3, <1>5 DEF Reimbursed
<1>7. QED BY <1>3, <1>4, <1>5, <1>6 DEF OutcomeStays

LEMMA SubmitTold ==
  ASSUME Chronicle, NEW r \in RequestIds, UNCHANGED negotiationVars, NEW m \in MilestoneIds,
         NEW uri, NEW gas \in Nat, NEW price \in Nat, SubmitProof(r, m, uri, gas, price),
         Emit(IfAny(Money(r, "OperationalAllowanceReimbursed", requests[r].carrier, Reimbursed(r)))
                \o <<Step(r, "ProofSubmitted", m)>>)
  PROVE  StoryInv'
<1>1. /\ ChainInv /\ Story(r) /\ requests \in [RequestIds -> Requests] /\ m \in Nat /\ m \in Int
      /\ nextMilestoneId[r] \in Nat /\ milestones[r][m] \in Milestones
  BY StoryTypes DEF Chronicle, StoryInv
<1>2. /\ Reimbursed(r) \in Nat
      /\ AwardStays(r) /\ OutcomeStays(r) /\ \A q \in RequestIds : q # r => requests'[q] = requests[q]
  BY <1>1, SubmitMoves DEF AwardStays
<1>3. /\ UNCHANGED <<nextMilestoneId, activeProposal, activeNegotiation, tipAmounts>>
      /\ m < nextMilestoneId[r] /\ milestones[r][m].status \in {"PendingProof", "Rejected"}
      /\ milestones' = [milestones EXCEPT ![r] =
                          [milestones[r] EXCEPT ![m] = Submitted(milestones[r][m], uri)]]
  BY DEF SubmitProof, marketVars, negotiationVars, MilestoneExists
<1>4. /\ OthersStand(r) /\ TalkStays(r) /\ milestones'[r][m] = Submitted(milestones[r][m], uri)
      /\ \A n \in MilestoneIds : n # m => MilestoneStays(r, n)
  BY <1>1, <1>2, <1>3, MilestoneMoves
<1>5. milestones'[r][m].status = "Submitted"
  BY <1>1, <1>4 DEF Submitted, Milestones
<1>6. OffersStay(r)
  BY <1>2, <1>3 DEF OffersStay
<1>7. PICK carrier \in Parties : carrier = requests[r].carrier
  BY <1>1 DEF Requests, Parties
<1>8. PICK paid \in Nat : paid = Reimbursed(r)
  BY <1>2
<1>9. PICK a : a = IfAny(Money(r, "OperationalAllowanceReimbursed", carrier, paid))
  OBVIOUS
<1>10. PICK e : e = Step(r, "ProofSubmitted", m)
  OBVIOUS
<1>11. PICK es : es = a \o <<e>>
  OBVIOUS
<1>12. log' = Append(log, es)
  BY <1>7, <1>8, <1>9, <1>10, <1>11, EmitAppends
<1>13. /\ "OperationalAllowanceReimbursed" \in EventNames /\ "ProofSubmitted" \in EventNames
       /\ "ProofSubmitted" \in WorkNames /\ NoUser \in Parties /\ 0 \in Nat
  BY DEF EventNames, QuietNames, PaymentEvents, WorkNames, AboutNames, Parties
<1>14. PICK one, two : one = {"OperationalAllowanceReimbursed"} /\ two = {"ProofSubmitted"}
  OBVIOUS
<1>15. a \in Seq(Sayings(r, one))
  BY <1>1, <1>9, <1>13, <1>14, EventsSaid
<1>16. e \in Sayings(r, two) /\ e.milestone = m
  BY <1>1, <1>10, <1>13, <1>14, EventsSaid
<1>17. <<e>> \in Seq(Sayings(r, two))
  BY <1>16, Said
<1>18. es \in Seq(Sayings(r, one \cup two))
  BY <1>11, <1>15, <1>17, Said
<1>19. /\ a \in Seq(LogEvents) /\ \A i \in DOMAIN a : a[i].name = "OperationalAllowanceReimbursed"
  BY <1>14, <1>15, SayingsAre
<1>20. e \in LogEvents /\ e.request = r /\ e.name = "ProofSubmitted"
  BY <1>14, <1>16 DEF Sayings, PlainEvents
<1>21. ASSUME Grows(log, es, log') PROVE Tells(r, one \cup two)
  <2>1. Mute(a, About(r, m)) /\ Mute(a, PaidFor(r, m))
    BY <1>19 DEF Mute, About, PaidFor, AboutNames
  <2>2. e \in About(r, m) /\ e \in Proving
    BY <1>16, <1>20 DEF About, Proving, AboutNames, IsNotice
  <2>3. PICK i \in DOMAIN es : es[i] = e /\ \A j \in DOMAIN es : j # i => es[j] \notin About(r, m)
    <3>1. PICK K : K = About(r, m)
      OBVIOUS
    <3>2. a \in Seq(LogEvents) /\ e \in LogEvents /\ Mute(a, K) /\ e \in K
      BY <1>19, <1>20, <2>1, <2>2, <3>1
    <3>3. \E i \in DOMAIN es : es[i] = e /\ \A j \in DOMAIN es : j # i => es[j] \notin K
      BY ONLY <1>11, <3>2, WordAtEnd
    <3>4. QED BY <3>1, <3>3
  <2>4. LastWord(log', About(r, m), Proving)
    BY <1>21, <2>2, <2>3, OneWord
  <2>5. \A j \in DOMAIN es : es[j].name \in {"OperationalAllowanceReimbursed", "ProofSubmitted"}
    BY <1>14, <1>18, SayingsAre
  <2>6. Mute(es, PaidFor(r, m))
    BY <2>5 DEF Mute, PaidFor
  <2>7. ~Mentioned(log, PaidFor(r, m))
    BY <1>1, <1>3 DEF Story, WorkTold, MilestoneTold
  <2>8. ~Mentioned(log', PaidFor(r, m))
    BY <1>21, <2>6, <2>7, MuteKeeps
  <2>9. MilestoneTold(r, m)'
    BY <1>1, <1>3, <1>5, <2>4, <2>8 DEF MilestoneTold
  <2>10. \A j \in DOMAIN es : es[j].name \in AboutNames => es[j].milestone = m
    <3>1. ASSUME NEW j \in DOMAIN es, es[j].name \in AboutNames PROVE es[j].milestone = m
      <4>1. es[j].name = "ProofSubmitted"
        BY <2>5, <3>1 DEF AboutNames
      <4>2. j \in DOMAIN a => es[j] = a[j]
        BY <1>11, <1>19
      <4>3. j \notin DOMAIN a
        BY <1>19, <4>1, <4>2
      <4>4. es[j] = e
        BY <1>11, <1>19, <4>3
      <4>5. QED BY <1>16, <4>4
    <3>2. QED BY <3>1
  <2>11. WorkTold(r)'
    BY <1>1, <1>4, <1>21, <2>9, <2>10, OneMilestone
  <2>12. /\ "MilestonePlanAccepted" \notin one \cup two /\ (one \cup two) \cap OutcomeNames = {}
         /\ (one \cup two) \cap NegotiationNames = {} /\ (one \cup two) \cap ProposalNames = {}
    BY <1>14 DEF OutcomeNames, NegotiationNames, ProposalNames
  <2>13. QED BY <1>2, <1>4, <1>6, <2>11, <2>12 DEF Tells
<1>22. QED BY <1>4, <1>12, <1>18, <1>21, StoriesOfOne DEF Chronicle

LEMMA StepChanged ==
  ASSUME NEW r, NEW names, NEW e \in Sayings(r, names)
  PROVE  /\ [e EXCEPT !.approved = FALSE] \in Sayings(r, names)
         /\ [e EXCEPT !.approved = FALSE].approved = FALSE
         /\ [e EXCEPT !.approved = FALSE].name = e.name
         /\ [e EXCEPT !.approved = FALSE].milestone = e.milestone
         /\ \A amount \in Nat : /\ [e EXCEPT !.amount = amount] \in Sayings(r, names)
                                /\ [e EXCEPT !.amount = amount].name = e.name
                                /\ [e EXCEPT !.amount = amount].milestone = e.milestone
         /\ \A at \in Nat : [e EXCEPT !.completedAt = at] \in Sayings(r, names)
         /\ \A m \in Int : names \subseteq WorkNames => [e EXCEPT !.milestone = m] \in Sayings(r, names)
<1>1. e \in LogEvents /\ e.request = r /\ e.name \in names
      /\ (e.name \notin WorkNames => e.milestone = -1)
      /\ (e.name \in {"RequestCreated", "RequestCancelled"} => e.party = NoUser)
  BY DEF Sayings, PlainEvents
<1>2. PICK x : x = [e EXCEPT !.approved = FALSE]
  OBVIOUS
<1>3. /\ x \in LogEvents /\ x.request = e.request /\ x.name = e.name /\ x.milestone = e.milestone
      /\ x.party = e.party /\ x.approved = FALSE
  BY <1>1, <1>2 DEF LogEvents
<1>4. x \in Sayings(r, names)
  BY <1>1, <1>3 DEF Sayings, PlainEvents
<1>5. ASSUME NEW amount \in Nat
      PROVE  /\ [e EXCEPT !.amount = amount] \in Sayings(r, names)
             /\ [e EXCEPT !.amount = amount].name = e.name
             /\ [e EXCEPT !.amount = amount].milestone = e.milestone
  <2>1. PICK y : y = [e EXCEPT !.amount = amount]
    OBVIOUS
  <2>2. /\ y \in LogEvents /\ y.request = e.request /\ y.name = e.name /\ y.milestone = e.milestone
        /\ y.party = e.party
    BY <1>1, <2>1 DEF LogEvents
  <2>3. y \in Sayings(r, names)
    BY <1>1, <2>2 DEF Sayings, PlainEvents
  <2>4. QED BY <2>1, <2>2, <2>3
<1>6. ASSUME NEW at \in Nat PROVE [e EXCEPT !.completedAt = at] \in Sayings(r, names)
  <2>1. PICK y : y = [e EXCEPT !.completedAt = at]
    OBVIOUS
  <2>2. /\ y \in LogEvents /\ y.request = e.request /\ y.name = e.name /\ y.milestone = e.milestone
        /\ y.party = e.party
    BY <1>1, <2>1 DEF LogEvents
  <2>3. y \in Sayings(r, names)
    BY <1>1, <2>2 DEF Sayings, PlainEvents
  <2>4. QED BY <2>1, <2>3
<1>7. ASSUME NEW m \in Int, names \subseteq WorkNames PROVE [e EXCEPT !.milestone = m] \in Sayings(r, names)
  <2>1. PICK y : y = [e EXCEPT !.milestone = m]
    OBVIOUS
  <2>2. /\ y \in LogEvents /\ y.request = e.request /\ y.name = e.name /\ y.party = e.party
    BY <1>1, <2>1 DEF LogEvents
  <2>3. y.name \in WorkNames
    BY <1>1, <1>7, <2>2
  <2>4. y \in Sayings(r, names)
    BY <1>1, <2>2, <2>3 DEF Sayings, PlainEvents
  <2>5. QED BY <2>1, <2>4
<1>8. QED BY <1>2, <1>3, <1>4, <1>5, <1>6, <1>7

LEMMA RejectionTold ==
  ASSUME Chronicle, NEW r \in RequestIds, UNCHANGED negotiationVars, NEW m \in MilestoneIds, NEW k,
         RejectMilestone(r, m, k),
         Emit(<<[Step(r, "MilestoneVerified", m) EXCEPT !.approved = FALSE],
                Step(r, "MilestoneRejected", m)>>)
  PROVE  StoryInv'
<1>1. /\ ChainInv /\ Story(r) /\ m \in Nat /\ m \in Int
      /\ nextMilestoneId[r] \in Nat /\ milestones \in [RequestIds -> [MilestoneIds -> Milestones]]
  BY StoryTypes DEF Chronicle, StoryInv
<1>2. PICK new : new = [milestones[r][m] EXCEPT !.status = "Rejected",
                                                !.proofWithdrawalsThisRound = 0,
                                                !.submittedAfterRejection = FALSE]
  OBVIOUS
<1>3. /\ UNCHANGED <<requests, nextMilestoneId, activeProposal, activeNegotiation, tipAmounts>>
      /\ m < nextMilestoneId[r] /\ milestones[r][m].status = "Submitted"
      /\ milestones' = [milestones EXCEPT ![r][m] = new]
  BY <1>2 DEF RejectMilestone, MayReview, marketVars, negotiationVars, MilestoneExists
<1>4. milestones' = [milestones EXCEPT ![r] = [milestones[r] EXCEPT ![m] = new]]
  BY <1>3
<1>5. /\ OthersStand(r) /\ TalkStays(r) /\ milestones'[r][m] = new
      /\ \A n \in MilestoneIds : n # m => MilestoneStays(r, n)
  BY <1>1, <1>3, <1>4, MilestoneMoves
<1>6. new.status = "Rejected"
  <2>1. milestones[r][m] \in Milestones
    BY <1>1
  <2>2. QED BY <1>2, <2>1 DEF Milestones
<1>7. AwardStays(r) /\ OutcomeStays(r) /\ OffersStay(r)
  BY <1>3 DEF AwardStays, OutcomeStays, OffersStay
<1>8. PICK names : names = {"MilestoneVerified", "MilestoneRejected"}
  OBVIOUS
<1>9. PICK a, b : /\ a = [Step(r, "MilestoneVerified", m) EXCEPT !.approved = FALSE]
                  /\ b = Step(r, "MilestoneRejected", m)
  OBVIOUS
<1>10. a \in Sayings(r, names) /\ b \in Sayings(r, names) /\ a.milestone = m /\ b.milestone = m
  <2>1. /\ "MilestoneVerified" \in EventNames /\ "MilestoneRejected" \in EventNames
        /\ "MilestoneVerified" \in WorkNames /\ "MilestoneRejected" \in WorkNames
        /\ NoUser \in Parties /\ 0 \in Nat
    BY DEF EventNames, QuietNames, WorkNames, AboutNames, Parties
  <2>2. PICK c : c = Step(r, "MilestoneVerified", m)
    OBVIOUS
  <2>3. c \in Sayings(r, {"MilestoneVerified"}) /\ c.milestone = m
    BY <1>1, <2>1, <2>2, EventsSaid
  <2>4. a = [c EXCEPT !.approved = FALSE]
    BY <1>9, <2>2
  <2>5. a \in Sayings(r, {"MilestoneVerified"}) /\ a.milestone = m
    BY <2>3, <2>4, StepChanged
  <2>6. b \in Sayings(r, {"MilestoneRejected"}) /\ b.milestone = m
    BY <1>1, <1>9, <2>1, EventsSaid
  <2>7. QED BY <1>8, <2>5, <2>6 DEF Sayings
<1>11. PICK es : es = <<a, b>>
  OBVIOUS
<1>12. es \in Seq(Sayings(r, names))
  <2>1. PICK S : S = Sayings(r, names)
    OBVIOUS
  <2>2. a \in S /\ b \in S
    BY <1>10, <2>1
  <2>3. es \in Seq(S)
    BY <1>11, <2>2
  <2>4. QED BY <2>1, <2>3
<1>13. log' = Append(log, es)
  BY <1>9, <1>11, EmitAppends
<1>14. ASSUME Grows(log, es, log') PROVE Tells(r, names)
  <2>1. \A j \in DOMAIN es : es[j].name \in names /\ es[j].milestone = m
    <3>1. \A j \in DOMAIN es : es[j] = a \/ es[j] = b
      BY <1>11
    <3>2. a.name \in names /\ b.name \in names
      BY <1>10 DEF Sayings
    <3>3. QED BY <1>10, <3>1, <3>2
  <2>2. Mute(es, PaidFor(r, m))
    BY <1>8, <2>1 DEF Mute, PaidFor
  <2>3. ~Mentioned(log, PaidFor(r, m))
    BY <1>1, <1>3 DEF Story, WorkTold, MilestoneTold
  <2>4. ~Mentioned(log', PaidFor(r, m))
    BY <1>14, <2>2, <2>3, MuteKeeps
  <2>5. MilestoneTold(r, m)'
    BY <1>1, <1>5, <1>6, <2>4 DEF MilestoneTold
  <2>6. WorkTold(r)'
    BY <1>1, <1>5, <1>14, <2>1, <2>5, OneMilestone
  <2>7. /\ "MilestonePlanAccepted" \notin names /\ names \cap OutcomeNames = {}
        /\ names \cap NegotiationNames = {} /\ names \cap ProposalNames = {}
    BY <1>8 DEF OutcomeNames, NegotiationNames, ProposalNames
  <2>8. QED BY <1>5, <1>7, <2>6, <2>7 DEF Tells
<1>15. QED BY <1>5, <1>12, <1>13, <1>14, StoriesOfOne DEF Chronicle

LEMMA PricedSaid ==
  ASSUME NEW r, NEW names, NEW e \in Sayings(r, names), NEW amount \in Nat,
         NEW y, y = [e EXCEPT !.amount = amount]
  PROVE  y \in Sayings(r, names) /\ y.milestone = e.milestone
<1>1. /\ e \in LogEvents /\ e.request = r /\ e.name \in names
      /\ (e.name \notin WorkNames => e.milestone = -1)
      /\ (e.name \in {"RequestCreated", "RequestCancelled"} => e.party = NoUser)
  BY DEF Sayings, PlainEvents
<1>2. /\ y \in LogEvents /\ y.request = e.request /\ y.name = e.name /\ y.milestone = e.milestone
      /\ y.party = e.party
  BY <1>1 DEF LogEvents
<1>3. QED BY <1>1, <1>2 DEF Sayings, PlainEvents

(* The block of a payment names its milestone once as paid.                 *)
LEMMA PaymentSaid ==
  ASSUME NEW r \in RequestIds, NEW m \in MilestoneIds, NEW carrier \in Parties, NEW amount \in Nat
  PROVE  \E x, y, z :
           /\ PaymentBlock(r, m, carrier, amount) = <<x, y, z>>
           /\ x \in Sayings(r, {"MilestoneVerified"}) /\ x.milestone = m
           /\ y \in Sayings(r, {"MilestonePaid"}) /\ y.milestone = m
           /\ z \in Sayings(r, {"PaymentReleased"})
<1>1. /\ "MilestoneVerified" \in EventNames /\ "MilestonePaid" \in EventNames
      /\ "PaymentReleased" \in EventNames
      /\ "MilestoneVerified" \in WorkNames /\ "MilestonePaid" \in WorkNames
      /\ {"PaymentReleased"} \subseteq WorkNames
      /\ NoUser \in Parties /\ 0 \in Nat /\ 0 \in Int /\ m \in Int
  BY DEF EventNames, QuietNames, PaymentEvents, WorkNames, AboutNames, Parties, MilestoneIds
<1>2. PICK x, y, z : /\ x = Step(r, "MilestoneVerified", m)
                     /\ y = [Step(r, "MilestonePaid", m) EXCEPT !.amount = amount]
                     /\ z = [Money(r, "PaymentReleased", carrier, amount) EXCEPT !.milestone = m]
  OBVIOUS
<1>3. PaymentBlock(r, m, carrier, amount) = <<x, y, z>>
  BY <1>2 DEF PaymentBlock
<1>4. x \in Sayings(r, {"MilestoneVerified"}) /\ x.milestone = m
  BY <1>1, <1>2, EventsSaid
<1>5. y \in Sayings(r, {"MilestonePaid"}) /\ y.milestone = m
  <2>1. PICK e, one : e = Step(r, "MilestonePaid", m) /\ one = {"MilestonePaid"}
    OBVIOUS
  <2>2. e \in Sayings(r, one) /\ e.milestone = m
    BY <1>1, <2>1, EventsSaid
  <2>3. y = [e EXCEPT !.amount = amount]
    BY <1>2, <2>1
  <2>4. y \in Sayings(r, one) /\ y.milestone = e.milestone
    BY <2>2, <2>3, PricedSaid
  <2>5. y \in Sayings(r, one) /\ y.milestone = m
    BY <2>2, <2>4
  <2>6. QED BY <2>1, <2>5
<1>6. z \in Sayings(r, {"PaymentReleased"})
  <2>1. PICK e : e = Money(r, "PaymentReleased", carrier, amount)
    OBVIOUS
  <2>2. e \in Sayings(r, {"PaymentReleased"})
    BY <1>1, <2>1, EventsSaid
  <2>3. z = [e EXCEPT !.milestone = m]
    BY <1>2, <2>1
  <2>4. QED BY <1>1, <2>2, <2>3, StepChanged
<1>7. QED BY <1>3, <1>4, <1>5, <1>6

LEMMA ReserveSaid ==
  ASSUME IInv, NEW r \in RequestIds
  PROVE  ReserveRefunded(r) \in Seq(Sayings(r, {"OperationalAllowanceRefunded"}))
<1>1. PICK amount \in Nat : amount = OperationalRemaining(r)
  BY ReserveSays
<1>2. PICK shipper \in Parties : shipper = requests[r].shipper
  BY Figures DEF Requests, Parties
<1>3. "OperationalAllowanceRefunded" \in EventNames /\ 0 \in Int
  BY DEF EventNames, PaymentEvents
<1>4. IfAny(Money(r, "OperationalAllowanceRefunded", shipper, amount))
        \in Seq(Sayings(r, {"OperationalAllowanceRefunded"}))
  BY <1>3, EventsSaid
<1>5. QED BY <1>1, <1>2, <1>4 DEF ReserveRefunded

LEMMA CompletionSaid ==
  ASSUME IInv, NEW r \in RequestIds, NEW carrier \in Parties
  PROVE  LET b == <<[Of(r, "RequestCompleted", carrier) EXCEPT !.completedAt = now]>> \o ReserveRefunded(r)
         IN  /\ b \in Seq(Sayings(r, {"RequestCompleted", "OperationalAllowanceRefunded"}))
             /\ Has(b, NamedOf(r, "RequestCompleted"))
<1>1. "RequestCompleted" \in EventNames /\ 0 \in Nat /\ 0 \in Int /\ now \in Nat
  BY DEF EventNames, QuietNames, IInv, ClockOK
<1>2. PICK names, one, two : /\ names = {"RequestCompleted", "OperationalAllowanceRefunded"}
                             /\ one = {"RequestCompleted"} /\ two = {"OperationalAllowanceRefunded"}
  OBVIOUS
<1>3. PICK e : e = [Of(r, "RequestCompleted", carrier) EXCEPT !.completedAt = now]
  OBVIOUS
<1>4. e \in Sayings(r, one)
  <2>1. PICK c : c = Of(r, "RequestCompleted", carrier)
    OBVIOUS
  <2>2. c \in Sayings(r, one)
    BY <1>1, <1>2, <2>1, EventsSaid
  <2>3. e = [c EXCEPT !.completedAt = now]
    BY <1>3, <2>1
  <2>4. QED BY <1>1, <2>2, <2>3, StepChanged
<1>5. PICK d : d = ReserveRefunded(r)
  OBVIOUS
<1>6. d \in Seq(Sayings(r, two)) /\ <<e>> \in Seq(Sayings(r, one)) /\ names = one \cup two
  BY <1>2, <1>4, <1>5, ReserveSaid, Said
<1>7. <<e>> \o d \in Seq(Sayings(r, names))
  BY <1>6, Said
<1>8. Has(<<e>> \o d, NamedOf(r, "RequestCompleted"))
  <2>1. PICK K : K = NamedOf(r, "RequestCompleted")
    OBVIOUS
  <2>2. e \in K
    BY <1>2, <1>4, <2>1 DEF Sayings, PlainEvents, NamedOf
  <2>3. <<e>> \in Seq(LogEvents) /\ d \in Seq(LogEvents)
    BY <1>6, SayingsAre
  <2>4. Has(<<e>>, K)
    BY <2>2, <2>3, HasInBoth
  <2>5. Has(<<e>> \o d, K)
    BY <2>3, <2>4, HasInBoth
  <2>6. QED BY <2>1, <2>5
<1>9. QED BY <1>2, <1>3, <1>5, <1>7, <1>8

(* A request that was running is over with the word that says so.           *)
LEMMA EndTold ==
  ASSUME NEW es, Grows(log, es, log'), NEW r, Story(r), Running(requests[r]),
         tipAmounts'[r] = tipAmounts[r],
         \/ /\ requests'[r].status = "Completed" /\ Has(es, NamedOf(r, "RequestCompleted"))
            /\ Mute(es, NamedOf(r, "RefundIssued"))
         \/ /\ requests'[r].status = "Refunded" /\ Has(es, NamedOf(r, "RefundIssued"))
            /\ Mute(es, NamedOf(r, "RequestCompleted")),
         Mute(es, NamedOf(r, "CarrierTipped"))
  PROVE  OutcomeTold(r)'
<1>1. /\ ~Mentioned(log, NamedOf(r, "RequestCompleted")) /\ ~Mentioned(log, NamedOf(r, "RefundIssued"))
      /\ Mentioned(log, NamedOf(r, "CarrierTipped")) <=> tipAmounts[r] > 0
  BY DEF Story, OutcomeTold, Running
<1>2. Mentioned(log', NamedOf(r, "CarrierTipped")) <=> tipAmounts'[r] > 0
  BY <1>1, MuteKeeps
<1>3. CASE requests'[r].status = "Completed"
  <2>1. Mentioned(log', NamedOf(r, "RequestCompleted"))
    BY <1>3, HasIsMentioned
  <2>2. ~Mentioned(log', NamedOf(r, "RefundIssued"))
    BY <1>1, <1>3, MuteKeeps
  <2>3. QED BY <1>2, <1>3, <2>1, <2>2 DEF OutcomeTold
<1>4. CASE requests'[r].status = "Refunded"
  <2>1. Mentioned(log', NamedOf(r, "RefundIssued"))
    BY <1>4, HasIsMentioned
  <2>2. ~Mentioned(log', NamedOf(r, "RequestCompleted"))
    BY <1>1, <1>4, MuteKeeps
  <2>3. QED BY <1>2, <1>4, <2>1, <2>2 DEF OutcomeTold
<1>5. QED BY <1>3, <1>4

(* The milestone of the payment is told as paid.                            *)
LEMMA PaymentTold ==
  ASSUME NEW es, Grows(log, es, log'), NEW r, Story(r), NEW m \in MilestoneIds,
         NEW x \in LogEvents, NEW y \in LogEvents, NEW z \in LogEvents, NEW b \in Seq(LogEvents),
         es = <<x, y, z>> \o b,
         x.name = "MilestoneVerified" /\ x.milestone = m,
         y.request = r /\ y.name = "MilestonePaid" /\ y.milestone = m,
         z.name = "PaymentReleased", \A j \in DOMAIN b : b[j].name \notin AboutNames,
         milestones[r][m].status = "Submitted", milestones'[r][m].status = "Paid",
         m \in Nat, nextMilestoneId'[r] \in Nat, m < nextMilestoneId'[r],
         \A n \in MilestoneIds : n # m => MilestoneStays(r, n)
  PROVE  WorkTold(r)'
<1>1. /\ 2 \in DOMAIN es /\ es[2] = y
      /\ \A j \in DOMAIN es : \/ j = 1 /\ es[j] = x
                              \/ j = 2 /\ es[j] = y
                              \/ j = 3 /\ es[j] = z
                              \/ (j - 3) \in DOMAIN b /\ es[j] = b[j - 3]
  OBVIOUS
<1>2. es[2] \in PaidFor(r, m)
  BY <1>1 DEF PaidFor
<1>3. \A j \in DOMAIN es : j # 2 => es[j] \notin PaidFor(r, m)
  BY <1>1 DEF PaidFor, AboutNames
<1>4. ~Mentioned(log, PaidFor(r, m))
  BY DEF Story, WorkTold, MilestoneTold
<1>5. Once(log', PaidFor(r, m))
  <2>1. PICK i \in DOMAIN es : i = 2
    BY <1>1
  <2>2. PICK K : K = PaidFor(r, m)
    OBVIOUS
  <2>3. es[i] \in K /\ (\A j \in DOMAIN es : j # i => es[j] \notin K) /\ ~Mentioned(log, K)
    BY <1>2, <1>3, <1>4, <2>1, <2>2
  <2>4. Grows(log, es, log')
    OBVIOUS
  <2>5. Once(log', K)
    BY ONLY <2>3, <2>4, OneWord
  <2>6. QED BY <2>2, <2>5
<1>6. MilestoneTold(r, m)'
  BY <1>5 DEF MilestoneTold
<1>7. \A j \in DOMAIN es : es[j].name \in AboutNames => es[j].milestone = m
  BY <1>1 DEF AboutNames
<1>8. QED BY <1>6, <1>7, OneMilestone

LEMMA ApprovalTold ==
  ASSUME Chronicle, NEW r \in RequestIds, UNCHANGED negotiationVars, NEW m \in MilestoneIds, NEW k,
         ApproveMilestone(r, m, k),
         LET amount  == milestones[r][m].payoutAmount + milestones[r][m].additionalPayoutAmount
             carrier == requests[r].carrier
         IN  Emit(<<Step(r, "MilestoneVerified", m),
                    [Step(r, "MilestonePaid", m) EXCEPT !.amount = amount],
                    [Money(r, "PaymentReleased", carrier, amount) EXCEPT !.milestone = m]>>
                  \o IF requests'[r].status = "Completed"
                     THEN <<[Of(r, "RequestCompleted", carrier) EXCEPT !.completedAt = now]>>
                            \o ReserveRefunded(r)
                     ELSE <<>>)
  PROVE  StoryInv'
<1>1. /\ ChainInv /\ IInv /\ Story(r) /\ requests \in [RequestIds -> Requests] /\ m \in Nat /\ m \in Int
      /\ nextMilestoneId[r] \in Nat /\ milestones \in [RequestIds -> [MilestoneIds -> Milestones]]
      /\ Sound(r) /\ Balanced(r) /\ Held(r)
  BY StoryTypes DEF Chronicle, StoryInv
<1>2. Running(requests[r])
  BY <1>1, ApproveFigures
<1>3. PICK amount : amount = milestones[r][m].payoutAmount + milestones[r][m].additionalPayoutAmount
  OBVIOUS
<1>4. amount \in Nat
  <2>1. milestones[r][m] \in Milestones
    BY <1>1
  <2>2. QED BY <1>3, <2>1 DEF Milestones
<1>5. PICK carrier \in Parties : carrier = requests[r].carrier
  BY <1>1 DEF Requests, Parties
<1>6. PICK completed : completed = AllPaid(executionOrder[r], [milestones[r] EXCEPT ![m].status = "Paid"])
  OBVIOUS
<1>7. /\ \E returned : requests' = [requests EXCEPT ![r].releasedAmount = @ + amount,
                                      ![r].status = IF completed THEN "Completed" ELSE @,
                                      ![r].operationalSpent = @ + returned]
      /\ UNCHANGED <<nextMilestoneId, activeProposal, activeNegotiation, tipAmounts>>
      /\ m < nextMilestoneId[r] /\ milestones[r][m].status = "Submitted"
      /\ milestones' = [milestones EXCEPT ![r] = [milestones[r] EXCEPT ![m].status = "Paid"]]
  BY <1>3, <1>6 DEF ApproveMilestone, MayReview, marketVars, negotiationVars, MilestoneExists
<1>8. /\ requests'[r].carrier = requests[r].carrier
      /\ requests'[r].status = IF completed THEN "Completed" ELSE requests[r].status
      /\ \A q \in RequestIds : q # r => requests'[q] = requests[q]
  <2>1. PICK returned : requests' = [requests EXCEPT ![r].releasedAmount = @ + amount,
                                      ![r].status = IF completed THEN "Completed" ELSE @,
                                      ![r].operationalSpent = @ + returned]
    BY <1>7
  <2>2. QED BY <1>1, <2>1 DEF Requests
<1>9. PICK new : new = [milestones[r][m] EXCEPT !.status = "Paid"]
  OBVIOUS
<1>10. milestones' = [milestones EXCEPT ![r] = [milestones[r] EXCEPT ![m] = new]] /\ new.status = "Paid"
  <2>1. milestones[r][m] \in Milestones
    BY <1>1
  <2>2. QED BY <1>7, <1>9, <2>1 DEF Milestones
<1>11. /\ OthersStand(r) /\ TalkStays(r) /\ milestones'[r][m] = new
       /\ \A n \in MilestoneIds : n # m => MilestoneStays(r, n)
  <2>1. /\ ChainInv /\ r \in RequestIds /\ m \in MilestoneIds
        /\ milestones' = [milestones EXCEPT ![r] = [milestones[r] EXCEPT ![m] = new]]
        /\ UNCHANGED <<nextMilestoneId, activeProposal, activeNegotiation, tipAmounts>>
        /\ \A q \in RequestIds : q # r => requests'[q] = requests[q]
    BY <1>1, <1>7, <1>8, <1>10
  <2>2. QED BY ONLY <2>1, MilestoneMoves
<1>12. AwardStays(r) /\ OffersStay(r)
  BY <1>7, <1>8 DEF AwardStays, OffersStay
<1>13. PICK b : b = IF requests'[r].status = "Completed"
                    THEN <<[Of(r, "RequestCompleted", carrier) EXCEPT !.completedAt = now]>>
                           \o ReserveRefunded(r)
                    ELSE <<>>
  OBVIOUS
<1>14. PICK x, y, z : /\ PaymentBlock(r, m, carrier, amount) = <<x, y, z>>
                      /\ x \in Sayings(r, {"MilestoneVerified"}) /\ x.milestone = m
                      /\ y \in Sayings(r, {"MilestonePaid"}) /\ y.milestone = m
                      /\ z \in Sayings(r, {"PaymentReleased"})
  BY <1>4, <1>5, PaymentSaid
<1>15. PICK es : es = <<x, y, z>> \o b
  OBVIOUS
<1>16. log' = Append(log, es)
  <2>1. Emit(PaymentBlock(r, m, carrier, amount) \o b)
    BY <1>3, <1>5, <1>13 DEF PaymentBlock
  <2>2. QED BY <1>14, <1>15, <2>1, EmitAppends
<1>17. PICK one, two : /\ one = {"MilestoneVerified", "MilestonePaid", "PaymentReleased"}
                       /\ two = IF requests'[r].status = "Completed"
                                THEN {"RequestCompleted", "OperationalAllowanceRefunded"} ELSE {}
  OBVIOUS
<1>18. /\ b \in Seq(Sayings(r, two))
       /\ requests'[r].status = "Completed" => Has(b, NamedOf(r, "RequestCompleted"))
  <2>1. CASE requests'[r].status = "Completed"
    BY <1>1, <1>5, <1>13, <1>17, <2>1, CompletionSaid
  <2>2. CASE requests'[r].status # "Completed"
    <3>1. b = <<>>
      BY <1>13, <2>2
    <3>2. <<>> \in Seq(Sayings(r, two))
      BY Said
    <3>3. QED BY <2>2, <3>1, <3>2
  <2>3. QED BY <2>1, <2>2
<1>19. /\ <<x, y, z>> \in Seq(Sayings(r, one))
       /\ x \in LogEvents /\ y \in LogEvents /\ z \in LogEvents
       /\ x.name = "MilestoneVerified" /\ y.request = r /\ y.name = "MilestonePaid"
       /\ z.name = "PaymentReleased"
  <2>1. x \in Sayings(r, one) /\ y \in Sayings(r, one) /\ z \in Sayings(r, one)
    BY <1>14, <1>17 DEF Sayings
  <2>2. PICK S : S = Sayings(r, one)
    OBVIOUS
  <2>3. <<x, y, z>> \in Seq(S)
    BY <2>1, <2>2
  <2>4. QED BY <1>14, <2>2, <2>3 DEF Sayings, PlainEvents
<1>20. es \in Seq(Sayings(r, one \cup two))
  BY <1>15, <1>18, <1>19, Said
<1>21. ASSUME Grows(log, es, log') PROVE Tells(r, one \cup two)
  <2>1. \A j \in DOMAIN es : es[j].name \in one \cup two
    BY <1>20, SayingsAre
  <2>2. b \in Seq(LogEvents) /\ \A j \in DOMAIN b : b[j].name \in two
    BY <1>18, SayingsAre
  <2>3. \A j \in DOMAIN b : b[j].name \notin AboutNames
    BY <1>17, <2>2 DEF AboutNames
  <2>4. WorkTold(r)'
    <3>1. /\ milestones'[r][m].status = "Paid" /\ nextMilestoneId'[r] \in Nat
          /\ m < nextMilestoneId'[r] /\ milestones[r][m].status = "Submitted"
      BY <1>1, <1>7, <1>10, <1>11
    <3>2. /\ Grows(log, es, log') /\ Story(r) /\ m \in MilestoneIds /\ m \in Nat
          /\ x \in LogEvents /\ y \in LogEvents /\ z \in LogEvents /\ b \in Seq(LogEvents)
          /\ es = <<x, y, z>> \o b
          /\ x.name = "MilestoneVerified" /\ x.milestone = m
          /\ y.request = r /\ y.name = "MilestonePaid" /\ y.milestone = m
          /\ z.name = "PaymentReleased"
          /\ \A n \in MilestoneIds : n # m => MilestoneStays(r, n)
      BY <1>1, <1>11, <1>14, <1>15, <1>19, <1>21, <2>2
    <3>3. QED BY ONLY <2>3, <3>1, <3>2, PaymentTold
  <2>5. OutcomeTold(r)' \/ (OutcomeStays(r) /\ (one \cup two) \cap OutcomeNames = {})
    <3>1. CASE requests'[r].status = "Completed"
      <4>1. Has(es, NamedOf(r, "RequestCompleted"))
        <5>1. <<x, y, z>> \in Seq(LogEvents)
          BY <1>19
        <5>2. PICK front, K : front = <<x, y, z>> /\ K = NamedOf(r, "RequestCompleted")
          OBVIOUS
        <5>3. front \in Seq(LogEvents) /\ Has(b, K) /\ es = front \o b
          BY <1>15, <1>18, <3>1, <5>1, <5>2
        <5>4. Has(es, K)
          BY ONLY <2>2, <5>3, HasInBoth
        <5>5. QED BY <5>2, <5>4
      <4>2. Mute(es, NamedOf(r, "RefundIssued")) /\ Mute(es, NamedOf(r, "CarrierTipped"))
        BY <1>17, <2>1, <3>1 DEF Mute, NamedOf
      <4>3. tipAmounts'[r] = tipAmounts[r]
        BY <1>7
      <4>4. OutcomeTold(r)'
        BY <1>1, <1>2, <1>21, <3>1, <4>1, <4>2, <4>3, EndTold
      <4>5. QED BY <4>4
    <3>2. CASE requests'[r].status # "Completed"
      BY <1>2, <1>7, <1>8, <1>17, <3>2 DEF OutcomeStays, OutcomeNames, Running
    <3>3. QED BY <3>1, <3>2
  <2>6. /\ "MilestonePlanAccepted" \notin one \cup two
        /\ (one \cup two) \cap NegotiationNames = {} /\ (one \cup two) \cap ProposalNames = {}
    BY <1>17 DEF NegotiationNames, ProposalNames
  <2>7. QED BY <1>11, <1>12, <2>4, <2>5, <2>6 DEF Tells
<1>22. QED BY <1>11, <1>16, <1>20, <1>21, StoriesOfOne DEF Chronicle

(* A refund says so, and may return a reserve.                              *)
LEMMA RefundedSaid ==
  ASSUME IInv, NEW r \in RequestIds
  PROVE  /\ Refunded(r) \in Seq(Sayings(r, {"RefundIssued", "OperationalAllowanceRefunded"}))
         /\ Has(Refunded(r), NamedOf(r, "RefundIssued"))
<1>1. PICK amount \in Nat : amount = EscrowBalance(r)
  BY RefundSays
<1>2. PICK shipper \in Parties : shipper = requests[r].shipper
  BY Figures DEF Requests, Parties
<1>3. "RefundIssued" \in EventNames /\ 0 \in Int
  BY DEF EventNames, PaymentEvents
<1>4. PICK names, one, two : /\ names = {"RefundIssued", "OperationalAllowanceRefunded"}
                             /\ one = {"RefundIssued"} /\ two = {"OperationalAllowanceRefunded"}
  OBVIOUS
<1>5. PICK e : e = Money(r, "RefundIssued", shipper, amount)
  OBVIOUS
<1>6. e \in Sayings(r, one)
  BY <1>3, <1>4, <1>5, EventsSaid
<1>7. PICK d : d = ReserveRefunded(r)
  OBVIOUS
<1>8. d \in Seq(Sayings(r, two)) /\ <<e>> \in Seq(Sayings(r, one)) /\ names = one \cup two
  BY <1>4, <1>6, <1>7, ReserveSaid, Said
<1>9. <<e>> \o d \in Seq(Sayings(r, names))
  BY <1>8, Said
<1>10. PICK K : K = NamedOf(r, "RefundIssued")
  OBVIOUS
<1>11. e \in K
  BY <1>4, <1>6, <1>10 DEF Sayings, PlainEvents, NamedOf
<1>12. <<e>> \in Seq(LogEvents) /\ d \in Seq(LogEvents)
  BY <1>8, SayingsAre
<1>13. Has(<<e>>, K)
  BY <1>11, <1>12, HasInBoth
<1>14. Has(<<e>> \o d, K)
  BY <1>12, <1>13, HasInBoth
<1>15. Refunded(r) = <<e>> \o d
  BY <1>1, <1>2, <1>5, <1>7 DEF Refunded
<1>16. QED BY <1>4, <1>9, <1>10, <1>14, <1>15

LEMMA RefundTold ==
  ASSUME ChainInv, NEW r \in RequestIds, Story(r), RequestExists(r), Refund(r),
         NEW names, "RequestCompleted" \notin names, "CarrierTipped" \notin names,
         NEW es \in Seq(Sayings(r, names)), Has(es, NamedOf(r, "RefundIssued")),
         Grows(log, es, log')
  PROVE  OutcomeTold(r)'
<1>1. Running(requests[r]) /\ requests'[r].status = "Refunded" /\ tipAmounts'[r] = tipAmounts[r]
  BY RefundMoves
<1>2. \A i \in DOMAIN es : es[i].name \in names
  BY SayingsAre
<1>3. Mute(es, NamedOf(r, "RequestCompleted")) /\ Mute(es, NamedOf(r, "CarrierTipped"))
  BY <1>2 DEF Mute, NamedOf
<1>4. QED BY <1>1, <1>3, EndTold

LEMMA ExpiryTold ==
  ASSUME Chronicle, NEW r \in RequestIds, UNCHANGED negotiationVars, RefundRemaining(r),
         EmitEnd((IF Overdue(r) THEN <<Of(r, "RequestExpired", requests[r].carrier)>> ELSE <<>>)
                   \o Refunded(r))
  PROVE  StoryInv'
<1>1. /\ ChainInv /\ IInv /\ Story(r) /\ requests[r] \in Requests /\ RequestExists(r) /\ Refund(r)
  BY StoryTypes DEF Chronicle, StoryInv, RefundRemaining
<1>2. /\ requests'[r].status = "Refunded"
      /\ AwardStays(r) /\ MilestonesStay(r) /\ OffersStay(r)
      /\ UNCHANGED <<tipAmounts, milestones, nextMilestoneId, activeProposal>>
      /\ \A q \in RequestIds : q # r => requests'[q] = requests[q]
  BY <1>1, RefundMoves
<1>3. UNCHANGED activeNegotiation
  BY DEF negotiationVars
<1>4. OthersStand(r) /\ TalkStays(r)
  BY <1>2, <1>3, ElsewhereStands DEF Elsewhere, TalkStays
<1>5. PICK one, two : one = {"RequestExpired"} /\ two = {"RefundIssued", "OperationalAllowanceRefunded"}
  OBVIOUS
<1>6. PICK carrier \in Parties : carrier = requests[r].carrier
  BY <1>1 DEF Requests, Parties
<1>7. PICK a : a = IF Overdue(r) THEN <<Of(r, "RequestExpired", carrier)>> ELSE <<>>
  OBVIOUS
<1>8. a \in Seq(Sayings(r, one))
  <2>1. "RequestExpired" \in EventNames /\ 0 \in Nat /\ 0 \in Int
    BY DEF EventNames, QuietNames
  <2>2. Of(r, "RequestExpired", carrier) \in Sayings(r, one)
    BY <1>5, <2>1, EventsSaid
  <2>3. <<Of(r, "RequestExpired", carrier)>> \in Seq(Sayings(r, one)) /\ <<>> \in Seq(Sayings(r, one))
    BY <2>2, Said
  <2>4. QED BY <1>7, <2>3
<1>9. PICK b : b = Refunded(r)
  OBVIOUS
<1>10. b \in Seq(Sayings(r, two)) /\ Has(b, NamedOf(r, "RefundIssued"))
  BY <1>1, <1>5, <1>9, RefundedSaid
<1>11. PICK es : es = a \o b
  OBVIOUS
<1>12. log' = Append(log, es)
  BY <1>6, <1>7, <1>9, <1>11 DEF EmitEnd
<1>13. es \in Seq(Sayings(r, one \cup two))
  BY <1>8, <1>10, <1>11, Said
<1>14. Has(es, NamedOf(r, "RefundIssued"))
  <2>1. PICK K : K = NamedOf(r, "RefundIssued")
    OBVIOUS
  <2>2. a \in Seq(LogEvents) /\ b \in Seq(LogEvents) /\ Has(b, K)
    BY <1>8, <1>10, <2>1, SayingsAre
  <2>3. Has(es, K)
    BY ONLY <1>11, <2>2, HasInBoth
  <2>4. QED BY <2>1, <2>3
<1>15. ASSUME Grows(log, es, log') PROVE Tells(r, one \cup two)
  <2>1. PICK names : names = one \cup two
    OBVIOUS
  <2>2. es \in Seq(Sayings(r, names)) /\ "RequestCompleted" \notin names /\ "CarrierTipped" \notin names
    BY <1>5, <1>13, <2>1
  <2>3. OutcomeTold(r)'
    BY <1>1, <1>14, <1>15, <2>2, RefundTold
  <2>4. /\ "MilestonePlanAccepted" \notin names /\ names \cap AboutNames = {}
        /\ names \cap NegotiationNames = {} /\ names \cap ProposalNames = {}
    BY <1>5, <2>1 DEF AboutNames, NegotiationNames, ProposalNames
  <2>5. QED BY <1>2, <1>4, <2>1, <2>3, <2>4 DEF Tells
<1>16. QED BY <1>4, <1>12, <1>13, <1>15, StoriesOfOne DEF Chronicle

(* Negotiations: the last word is a question exactly while one is open.     *)
LEMMA OneTalk ==
  ASSUME NEW es, Grows(log, es, log'), NEW r, NEW i \in DOMAIN es, es[i] \in Talks(r),
         \A j \in DOMAIN es : j # i => es[j] \notin Talks(r),
         es[i] \in Asking <=> activeNegotiation'[r].kind # "None"
  PROVE  TalkTold(r)'
<1>1. LastWord(log', Talks(r), Asking) <=> es[i] \in Asking
  BY OneWord
<1>2. QED BY <1>1 DEF TalkTold

LEMMA TalkTells ==
  ASSUME Chronicle, NEW r \in RequestIds,
         NEW names, NEW front \in Seq(Sayings(r, names)),
         NEW name \in NegotiationNames, NEW e \in Sayings(r, {name}),
         NEW more, NEW back \in Seq(Sayings(r, more)),
         NEW es, es = front \o <<e>> \o back, log' = Append(log, es),
         names \cap NegotiationNames = {}, more \cap NegotiationNames = {},
         names \cap AboutNames = {}, more \cap AboutNames = {},
         names \cap ProposalNames = {}, more \cap ProposalNames = {},
         OthersStand(r), AwardStays(r), MilestonesStay(r), OffersStay(r),
         name \in Actionable <=> activeNegotiation'[r].kind # "None",
         \/ OutcomeStays(r) /\ names \cap OutcomeNames = {} /\ more \cap OutcomeNames = {}
         \/ Grows(log, es, log') => OutcomeTold(r)'
  PROVE  StoryInv'
<1>1. PICK one : one = {name}
  OBVIOUS
<1>2. e \in Sayings(r, one) /\ e \in LogEvents /\ e.request = r /\ e.name = name
  BY <1>1 DEF Sayings, PlainEvents
<1>3. <<e>> \in Seq(Sayings(r, one))
  BY <1>2, Said
<1>4. PICK all, both : both = names \cup one /\ all = both \cup more
  OBVIOUS
<1>5. PICK start : start = front \o <<e>>
  OBVIOUS
<1>6. start \in Seq(Sayings(r, both))
  BY <1>3, <1>4, <1>5, Said
<1>7. es = start \o back
  BY <1>5
<1>8. es \in Seq(Sayings(r, all))
  BY <1>4, <1>6, <1>7, Said
<1>9. ASSUME Grows(log, es, log') PROVE Tells(r, all)
  <2>1. PICK K : K = Talks(r)
    OBVIOUS
  <2>2. /\ front \in Seq(LogEvents) /\ \A j \in DOMAIN front : front[j].name \in names
        /\ back \in Seq(LogEvents) /\ \A j \in DOMAIN back : back[j].name \in more
    BY SayingsAre
  <2>3. Mute(front, K) /\ Mute(back, K) /\ e \in K
    BY <1>2, <2>1, <2>2 DEF Mute, Talks
  <2>4. PICK i \in DOMAIN es : es[i] = e /\ \A j \in DOMAIN es : j # i => es[j] \notin K
    <3>1. /\ front \in Seq(LogEvents) /\ e \in LogEvents /\ back \in Seq(LogEvents)
          /\ Mute(front, K) /\ Mute(back, K) /\ e \in K
      BY <1>2, <2>2, <2>3
    <3>2. Between(es, front, e, back)
      BY DEF Between
    <3>3. QED BY ONLY <3>1, <3>2, WordBetween
  <2>5. es[i] \in Asking <=> activeNegotiation'[r].kind # "None"
    BY <1>2, <2>4 DEF Asking
  <2>6. TalkTold(r)'
    BY <1>9, <2>1, <2>3, <2>4, <2>5, OneTalk
  <2>7. /\ "MilestonePlanAccepted" \notin all /\ all \cap AboutNames = {} /\ all \cap ProposalNames = {}
        /\ one \cap OutcomeNames = {}
    BY <1>1, <1>4 DEF NegotiationNames, AboutNames, ProposalNames, OutcomeNames
  <2>8. OutcomeTold(r)' \/ (OutcomeStays(r) /\ all \cap OutcomeNames = {})
    BY <1>4, <1>9, <2>7
  <2>9. QED BY <2>6, <2>7, <2>8 DEF Tells
<1>10. QED BY <1>8, <1>9, StoriesOfOne DEF Chronicle

ResponseNames == {"AmendmentResponseReimbursed", "AmendmentResponseAllowanceRefunded"}
FundingNames == {"EscrowFunded", "OperationalAllowanceFunded"}

LEMMA SettledSaid ==
  ASSUME NEW r \in RequestIds, NEW amendment \in Amendments, amendment.responseAllowanceSpent = 0,
         NEW reimbursed \in Nat, reimbursed <= amendment.responseAllowance
  PROVE  ResponseSettled(r, amendment, reimbursed) \in Seq(Sayings(r, ResponseNames))
<1>1. PICK responder, requester \in Parties : /\ responder = amendment.responder
                                             /\ requester = amendment.requester
  BY DEF Amendments, Parties
<1>2. PICK unused \in Nat : unused = UnusedAllowance(amendment, reimbursed)
  <2>1. amendment.responseAllowance \in Nat
    BY DEF Amendments
  <2>2. QED BY <2>1 DEF UnusedAllowance
<1>3. /\ "AmendmentResponseReimbursed" \in EventNames
      /\ "AmendmentResponseAllowanceRefunded" \in EventNames /\ 0 \in Int
  BY DEF EventNames, QuietNames
<1>4. PICK one, two : one = {"AmendmentResponseReimbursed"} /\ two = {"AmendmentResponseAllowanceRefunded"}
  OBVIOUS
<1>5. PICK a, b : /\ a = IfAny(Money(r, "AmendmentResponseReimbursed", responder, reimbursed))
                  /\ b = IfAny(Money(r, "AmendmentResponseAllowanceRefunded", requester, unused))
  OBVIOUS
<1>6. a \in Seq(Sayings(r, one))
  BY <1>3, <1>4, <1>5, EventsSaid
<1>7. b \in Seq(Sayings(r, two))
  BY <1>3, <1>4, <1>5, EventsSaid
<1>8. a \o b \in Seq(Sayings(r, one \cup two))
  BY <1>6, <1>7, Said
<1>9. one \cup two = ResponseNames
  BY <1>4 DEF ResponseNames
<1>10. ResponseSettled(r, amendment, reimbursed) = a \o b
  BY <1>1, <1>2, <1>5 DEF ResponseSettled
<1>11. QED BY <1>8, <1>9, <1>10

LEMMA AmendedSaid ==
  ASSUME NEW r \in RequestIds, NEW funding \in Nat, NEW operational \in Nat
  PROVE  Amended(r, funding, operational) \in Seq(Sayings(r, FundingNames))
<1>1. PICK escrow \in Parties : escrow = Escrow
  BY DEF Parties
<1>2. "EscrowFunded" \in EventNames /\ "OperationalAllowanceFunded" \in EventNames /\ 0 \in Int
  BY DEF EventNames, PaymentEvents
<1>3. PICK one, two : one = {"EscrowFunded"} /\ two = {"OperationalAllowanceFunded"}
  OBVIOUS
<1>4. PICK a, b : /\ a = IfAny(Money(r, "EscrowFunded", escrow, funding))
                  /\ b = IfAny(Money(r, "OperationalAllowanceFunded", escrow, operational))
  OBVIOUS
<1>5. a \in Seq(Sayings(r, one))
  BY <1>2, <1>3, <1>4, EventsSaid
<1>6. b \in Seq(Sayings(r, two))
  BY <1>2, <1>3, <1>4, EventsSaid
<1>7. a \o b \in Seq(Sayings(r, one \cup two))
  BY <1>5, <1>6, Said
<1>8. one \cup two = FundingNames
  BY <1>3 DEF FundingNames
<1>9. Amended(r, funding, operational) = a \o b
  BY <1>1, <1>4 DEF Amended
<1>10. QED BY <1>7, <1>8, <1>9

(* Words that say nothing of the story.                                     *)
LEMMA AsideNames ==
  ASSUME NEW names, names \subseteq ResponseNames \cup FundingNames \cup {"AmendmentResponseAllowanceFunded"}
  PROVE  /\ names \cap NegotiationNames = {} /\ names \cap AboutNames = {}
         /\ names \cap ProposalNames = {} /\ names \cap OutcomeNames = {}
BY DEF ResponseNames, FundingNames, NegotiationNames, AboutNames, ProposalNames, OutcomeNames

(* A block of a negotiation that only ends in the word about it.            *)
LEMMA TalkEnds ==
  ASSUME Chronicle, NEW r \in RequestIds,
         NEW names, NEW front, front \in Seq(Sayings(r, names)),
         NEW name \in NegotiationNames, NEW e, e = Event(r, name),
         NEW es, es = front \o <<e>>, log' = Append(log, es),
         names \cap NegotiationNames = {}, names \cap AboutNames = {}, names \cap ProposalNames = {},
         OthersStand(r), AwardStays(r), MilestonesStay(r), OffersStay(r),
         name \in Actionable <=> activeNegotiation'[r].kind # "None",
         \/ OutcomeStays(r) /\ names \cap OutcomeNames = {}
         \/ Grows(log, es, log') => OutcomeTold(r)'
  PROVE  StoryInv'
<1>1. name \in EventNames /\ NoUser \in Parties /\ 0 \in Nat /\ 0 \in Int
  BY DEF EventNames, QuietNames, NegotiationNames, Parties
<1>2. e \in Sayings(r, {name})
  BY <1>1, EventsSaid
<1>3. PICK back, more : back = <<>> /\ more = {}
  OBVIOUS
<1>4. back \in Seq(Sayings(r, more))
  BY <1>3, Said
<1>5. es = front \o <<e>> \o back
  <2>1. es \in Seq(LogEvents)
    <3>1. front \in Seq(LogEvents)
      BY SayingsAre
    <3>2. e \in LogEvents
      BY <1>2 DEF Sayings, PlainEvents
    <3>3. QED BY <3>1, <3>2
  <2>2. es \o <<>> = es
    BY <2>1
  <2>3. QED BY <1>3, <2>2
<1>6. /\ more \cap NegotiationNames = {} /\ more \cap AboutNames = {} /\ more \cap ProposalNames = {}
      /\ more \cap OutcomeNames = {}
  BY <1>3
<1>7. QED BY <1>2, <1>4, <1>5, <1>6, TalkTells

LEMMA SilentOrAsking ==
  /\ NoNegotiation.kind = "None"
  /\ "AmendmentRequested" \in Actionable /\ "CancellationRequested" \in Actionable
  /\ \A name \in NegotiationNames \ {"AmendmentRequested", "CancellationRequested"} : name \notin Actionable
BY DEF NoNegotiation, Actionable

LEMMA ResolvedTold ==
  ASSUME Chronicle, NEW r \in RequestIds, NEW a, PendingAmendment(r, a),
         NEW outcome, NEW reimbursed \in Nat,
         reimbursed <= amendmentRequests[r][a].responseAllowance,
         ResolveAmendment(r, a, outcome, reimbursed),
         NEW name \in {"AmendmentRejected", "AmendmentWithdrawn", "AmendmentExpired"},
         LET es == ResponseSettled(r, amendmentRequests[r][a], reimbursed) \o <<Event(r, name)>>
         IN  Emit(es) \/ EmitEnd(es)
  PROVE  StoryInv'
<1>1. ChainInv /\ EscrowInv /\ NegotiationInv /\ ManagerHoldsTheStakes
  BY ChainFacts DEF Chronicle
<1>2. PICK amendment : amendment = amendmentRequests[r][a]
  OBVIOUS
<1>3. amendment \in Amendments /\ amendment.responseAllowanceSpent = 0
  BY <1>1, <1>2, PendingFacts DEF PendingOK
<1>4. PICK front, names : front = ResponseSettled(r, amendment, reimbursed) /\ names = ResponseNames
  OBVIOUS
<1>5. front \in Seq(Sayings(r, names))
  BY <1>2, <1>3, <1>4, SettledSaid
<1>6. PICK e : e = Event(r, name)
  OBVIOUS
<1>7. PICK es : es = front \o <<e>>
  OBVIOUS
<1>8. log' = Append(log, es)
  BY <1>2, <1>4, <1>6, <1>7, EmitAppends
<1>9. PICK slot : slot = NoNegotiation
  OBVIOUS
<1>10. /\ UNCHANGED <<requests, tipAmounts, milestones, nextMilestoneId, activeProposal>>
       /\ activeNegotiation' = [activeNegotiation EXCEPT ![r] = slot]
  BY <1>9 DEF ResolveAmendment, CloseNegotiation, marketVars, workVars
<1>11. /\ OthersStand(r) /\ AwardStays(r) /\ OutcomeStays(r) /\ MilestonesStay(r) /\ OffersStay(r)
       /\ activeNegotiation'[r] = slot
  BY <1>1, <1>10, TalkMoves
<1>12. /\ names \cap NegotiationNames = {} /\ names \cap AboutNames = {}
       /\ names \cap ProposalNames = {} /\ names \cap OutcomeNames = {}
  BY <1>4, AsideNames
<1>13. name \in NegotiationNames /\ (name \in Actionable <=> activeNegotiation'[r].kind # "None")
  BY <1>9, <1>11, SilentOrAsking DEF NegotiationNames
<1>14. Chronicle /\ r \in RequestIds
  OBVIOUS
<1>15. QED BY ONLY <1>5, <1>6, <1>7, <1>8, <1>11, <1>12, <1>13, <1>14, TalkEnds

LEMMA AskedTold ==
  ASSUME Chronicle, NEW r \in RequestIds, NEW who, NEW proposedDeadline, NEW responseDeadline,
         NEW existing, NEW additions, NEW price, NEW allowance \in ResponseAllowances,
         RequestAmendment(r, who, proposedDeadline, responseDeadline,
                          existing, additions, price, allowance),
         Emit(<<Event(r, "AmendmentRequested")>>
                \o IfAny(Money(r, "AmendmentResponseAllowanceFunded", Manager, allowance)))
  PROVE  StoryInv'
<1>1. ChainInv
  BY DEF Chronicle
<1>2. PICK slot : /\ activeNegotiation' = [activeNegotiation EXCEPT ![r] = slot]
                  /\ slot.kind # "None"
  <2>1. PICK kind, id : kind = "Amendment" /\ id = Len(amendmentRequests[r]) + 1
    OBVIOUS
  <2>2. OpenNegotiation(r, kind, id)
    BY <2>1 DEF RequestAmendment
  <2>3. kind # "None"
    BY <2>1
  <2>4. QED BY <2>2, <2>3, OpenedSlot
<1>3. UNCHANGED <<requests, tipAmounts, milestones, nextMilestoneId, activeProposal>>
  BY DEF RequestAmendment, marketVars, workVars
<1>4. /\ OthersStand(r) /\ AwardStays(r) /\ OutcomeStays(r) /\ MilestonesStay(r) /\ OffersStay(r)
      /\ activeNegotiation'[r] = slot
  BY <1>1, <1>2, <1>3, TalkMoves
<1>5. PICK name, e : name = "AmendmentRequested" /\ e = Event(r, name)
  OBVIOUS
<1>6. /\ name \in NegotiationNames /\ name \in EventNames
      /\ "AmendmentResponseAllowanceFunded" \in EventNames
      /\ NoUser \in Parties /\ Manager \in Parties /\ 0 \in Nat /\ 0 \in Int /\ allowance \in Nat
  BY <1>5, NegotiationAssumption DEF NegotiationNames, EventNames, QuietNames, Parties
<1>7. e \in Sayings(r, {name})
  BY <1>5, <1>6, EventsSaid
<1>8. PICK manager \in Parties : manager = Manager
  BY <1>6
<1>9. PICK more, back : /\ more = {"AmendmentResponseAllowanceFunded"}
                        /\ back = IfAny(Money(r, "AmendmentResponseAllowanceFunded", manager, allowance))
  OBVIOUS
<1>10. back \in Seq(Sayings(r, more))
  BY <1>6, <1>9, EventsSaid
<1>11. PICK front, names : front = <<>> /\ names = {}
  OBVIOUS
<1>12. front \in Seq(Sayings(r, names))
  BY <1>11, Said
<1>13. PICK es : es = front \o <<e>> \o back
  OBVIOUS
<1>14. log' = Append(log, es)
  <2>1. front \o <<e>> = <<e>>
    BY <1>11
  <2>2. QED BY <1>5, <1>8, <1>9, <1>13, <2>1, EmitAppends
<1>15. /\ names \cap NegotiationNames = {} /\ more \cap NegotiationNames = {}
       /\ names \cap AboutNames = {} /\ more \cap AboutNames = {}
       /\ names \cap ProposalNames = {} /\ more \cap ProposalNames = {}
       /\ names \cap OutcomeNames = {} /\ more \cap OutcomeNames = {}
  BY <1>9, <1>11, AsideNames
<1>16. name \in Actionable <=> activeNegotiation'[r].kind # "None"
  BY <1>2, <1>4, <1>5, SilentOrAsking
<1>17. Chronicle /\ r \in RequestIds
  OBVIOUS
<1>18. QED BY ONLY <1>4, <1>6, <1>7, <1>10, <1>12, <1>13, <1>14, <1>15, <1>16, <1>17, TalkTells

LEMMA AcceptTold ==
  ASSUME Chronicle, NEW r \in RequestIds, NEW a, NEW gas \in Nat, NEW price \in Nat,
         AcceptAmendment(r, a, gas, price),
         LET amendment == amendmentRequests[r][a] IN
         Emit(Amended(r, amendment.additionalFunding, amendment.operationalAllowance)
                \o ResponseSettled(r, amendment, ResponseReimbursement(amendment, gas, price))
                \o <<Event(r, "AmendmentAccepted")>>)
  PROVE  StoryInv'
<1>1. ChainInv /\ EscrowInv /\ NegotiationInv /\ ManagerHoldsTheStakes /\ Story(r)
  BY ChainFacts DEF Chronicle, StoryInv
<1>2. PICK amendment : amendment = amendmentRequests[r][a]
  OBVIOUS
<1>3. PICK newDeadline, existing, additions, operational :
        /\ newDeadline = amendment.proposedDeadline /\ existing = amendment.existing
        /\ additions = amendment.additions /\ operational = amendment.operationalAllowance
  OBVIOUS
<1>4. /\ amendment \in Amendments /\ amendment.responseAllowanceSpent = 0
      /\ amendment.additionalFunding \in Nat /\ operational \in Nat
  <2>1. PendingAmendment(r, a)
    BY DEF AcceptAmendment
  <2>2. amendment \in Amendments /\ PendingOK(amendment) /\ amendment.status = "Pending"
    BY <1>1, <1>2, <2>1, PendingFacts
  <2>3. QED BY <1>3, <2>2 DEF PendingOK, Amendments
<1>5. PICK slot : slot = NoNegotiation
  OBVIOUS
<1>6. /\ Amends(r, newDeadline, existing, additions, operational) /\ additions \in Additions(r)
      /\ activeNegotiation' = [activeNegotiation EXCEPT ![r] = slot]
  BY <1>1, <1>2, <1>3, <1>5, AcceptFacts DEF PaidAmendment
<1>7. /\ AwardStays(r) /\ OutcomeStays(r) /\ MilestonesStay(r) /\ UNCHANGED <<activeProposal, tipAmounts>>
      /\ \A q \in RequestIds : q # r =>
           /\ requests'[q] = requests[q] /\ milestones'[q] = milestones[q]
           /\ nextMilestoneId'[q] = nextMilestoneId[q]
  BY <1>1, <1>6, AmendsMoves
<1>8. /\ activeNegotiation'[r] = slot
      /\ \A q \in RequestIds : q # r => activeNegotiation'[q] = activeNegotiation[q]
  <2>1. activeNegotiation \in [RequestIds -> Slots]
    BY <1>1, StoryTypes
  <2>2. QED BY <1>6, <2>1
<1>9. OthersStand(r) /\ OffersStay(r)
  BY <1>7, <1>8, ElsewhereStands DEF Elsewhere, OffersStay
<1>10. PICK funding \in Nat : funding = amendment.additionalFunding
  BY <1>4
<1>11. PICK reimbursed : reimbursed = ResponseReimbursement(amendment, gas, price)
  OBVIOUS
<1>12. reimbursed \in Nat /\ reimbursed <= amendment.responseAllowance
  BY <1>4, <1>11, ReimbursementWithin
<1>13. PICK one, two, names : one = FundingNames /\ two = ResponseNames /\ names = one \cup two
  OBVIOUS
<1>14. PICK b, d : b = Amended(r, funding, operational) /\ d = ResponseSettled(r, amendment, reimbursed)
  OBVIOUS
<1>15. b \in Seq(Sayings(r, one))
  BY <1>4, <1>13, <1>14, AmendedSaid
<1>16. d \in Seq(Sayings(r, two))
  BY <1>4, <1>12, <1>13, <1>14, SettledSaid
<1>17. PICK front : front = b \o d
  OBVIOUS
<1>18. front \in Seq(Sayings(r, names))
  BY <1>13, <1>15, <1>16, <1>17, Said
<1>19. PICK name, e : name = "AmendmentAccepted" /\ e = Event(r, name)
  OBVIOUS
<1>20. PICK es : es = front \o <<e>>
  OBVIOUS
<1>21. log' = Append(log, es)
  BY <1>2, <1>3, <1>10, <1>11, <1>14, <1>17, <1>19, <1>20, EmitAppends
<1>22. /\ names \cap NegotiationNames = {} /\ names \cap AboutNames = {}
       /\ names \cap ProposalNames = {} /\ names \cap OutcomeNames = {}
  BY <1>13, AsideNames
<1>23. name \in NegotiationNames /\ (name \in Actionable <=> activeNegotiation'[r].kind # "None")
  BY <1>5, <1>8, <1>19, SilentOrAsking DEF NegotiationNames
<1>24. Chronicle /\ r \in RequestIds
  OBVIOUS
<1>25. QED BY ONLY <1>7, <1>9, <1>18, <1>19, <1>20, <1>21, <1>22, <1>23, <1>24, TalkEnds

(* A cancellation is only talked about until it is accepted.                *)
LEMMA CancellationTold ==
  ASSUME Chronicle, NEW r \in RequestIds, UNCHANGED vars, NEW slot,
         activeNegotiation' = [activeNegotiation EXCEPT ![r] = slot],
         NEW name \in NegotiationNames, name \in Actionable <=> slot.kind # "None",
         Emit(<<Event(r, name)>>) \/ EmitEnd(<<Event(r, name)>>)
  PROVE  StoryInv'
<1>1. ChainInv /\ UNCHANGED <<requests, tipAmounts, milestones, nextMilestoneId, activeProposal>>
  BY DEF Chronicle, vars, marketVars, workVars
<1>2. /\ OthersStand(r) /\ AwardStays(r) /\ OutcomeStays(r) /\ MilestonesStay(r) /\ OffersStay(r)
      /\ activeNegotiation'[r] = slot
  BY <1>1, TalkMoves
<1>3. PICK front, names : front = <<>> /\ names = {}
  OBVIOUS
<1>4. front \in Seq(Sayings(r, names))
  BY <1>3, Said
<1>5. PICK e : e = Event(r, name)
  OBVIOUS
<1>6. PICK es : es = front \o <<e>>
  OBVIOUS
<1>7. log' = Append(log, es)
  <2>1. es = <<e>>
    BY <1>3, <1>6
  <2>2. QED BY <1>5, <2>1, EmitAppends
<1>8. /\ names \cap NegotiationNames = {} /\ names \cap AboutNames = {}
      /\ names \cap ProposalNames = {} /\ names \cap OutcomeNames = {}
  BY <1>3
<1>9. Chronicle /\ r \in RequestIds /\ name \in NegotiationNames
      /\ (name \in Actionable <=> activeNegotiation'[r].kind # "None")
  BY <1>2
<1>10. QED BY ONLY <1>2, <1>4, <1>5, <1>6, <1>7, <1>8, <1>9, TalkEnds

LEMMA MutualTold ==
  ASSUME Chronicle, NEW r \in RequestIds, NEW c, AcceptCancellation(r, c),
         Emit(<<Event(r, "RequestCancelled")>> \o Refunded(r) \o <<Event(r, "CancellationAccepted")>>)
  PROVE  StoryInv'
<1>1. ChainInv /\ IInv /\ Story(r) /\ activeNegotiation \in [RequestIds -> Slots]
  BY StoryTypes DEF Chronicle, StoryInv
<1>2. RequestExists(r) /\ Refund(r)
  BY DEF AcceptCancellation, FinalizeMutualCancellation
<1>3. /\ AwardStays(r) /\ MilestonesStay(r) /\ OffersStay(r)
      /\ UNCHANGED <<tipAmounts, milestones, nextMilestoneId, activeProposal>>
      /\ \A q \in RequestIds : q # r => requests'[q] = requests[q]
  BY <1>1, <1>2, RefundMoves
<1>4. activeNegotiation' = [activeNegotiation EXCEPT ![r] = NoNegotiation]
  BY DEF AcceptCancellation, ResolveCancellation, CloseNegotiation
<1>5. /\ activeNegotiation'[r] = NoNegotiation
      /\ \A q \in RequestIds : q # r => activeNegotiation'[q] = activeNegotiation[q]
  BY <1>1, <1>4
<1>6. OthersStand(r)
  BY <1>3, <1>5, ElsewhereStands DEF Elsewhere
<1>7. PICK one, two, names : /\ one = {"RequestCancelled"}
                             /\ two = {"RefundIssued", "OperationalAllowanceRefunded"}
                             /\ names = one \cup two
  OBVIOUS
<1>8. PICK a, b : a = <<Event(r, "RequestCancelled")>> /\ b = Refunded(r)
  OBVIOUS
<1>9. a \in Seq(Sayings(r, one))
  <2>1. "RequestCancelled" \in EventNames /\ NoUser \in Parties /\ 0 \in Nat /\ 0 \in Int
    BY DEF EventNames, QuietNames, Parties
  <2>2. Event(r, "RequestCancelled") \in Sayings(r, one)
    BY <1>7, <2>1, EventsSaid
  <2>3. QED BY <1>8, <2>2, Said
<1>10. b \in Seq(Sayings(r, two)) /\ Has(b, NamedOf(r, "RefundIssued"))
  BY <1>1, <1>7, <1>8, RefundedSaid
<1>11. PICK front : front = a \o b
  OBVIOUS
<1>12. front \in Seq(Sayings(r, names))
  BY <1>7, <1>9, <1>10, <1>11, Said
<1>13. PICK name, e : name = "CancellationAccepted" /\ e = Event(r, name)
  OBVIOUS
<1>14. PICK es : es = front \o <<e>>
  OBVIOUS
<1>15. log' = Append(log, es)
  BY <1>8, <1>11, <1>13, <1>14, EmitAppends
<1>16. /\ name \in NegotiationNames /\ name \in EventNames
       /\ name \in Actionable <=> activeNegotiation'[r].kind # "None"
  BY <1>5, <1>13, SilentOrAsking DEF NegotiationNames, EventNames, QuietNames
<1>17. /\ names \cap NegotiationNames = {} /\ names \cap AboutNames = {} /\ names \cap ProposalNames = {}
  BY <1>7 DEF NegotiationNames, AboutNames, ProposalNames
<1>18. ASSUME Grows(log, es, log') PROVE OutcomeTold(r)'
  <2>1. PICK all : all = names \cup {name}
    OBVIOUS
  <2>2. e \in Sayings(r, {name})
    <3>1. NoUser \in Parties /\ 0 \in Nat /\ 0 \in Int
      BY DEF Parties
    <3>2. QED BY <1>13, <1>16, <3>1, EventsSaid
  <2>3. <<e>> \in Seq(Sayings(r, {name}))
    BY <2>2, Said
  <2>4. es \in Seq(Sayings(r, all))
    BY <1>12, <1>14, <2>1, <2>3, Said
  <2>5. Has(es, NamedOf(r, "RefundIssued"))
    <3>1. PICK K, end : K = NamedOf(r, "RefundIssued") /\ end = <<e>>
      OBVIOUS
    <3>2. /\ a \in Seq(LogEvents) /\ b \in Seq(LogEvents) /\ Has(b, K)
          /\ front \in Seq(LogEvents) /\ end \in Seq(LogEvents) /\ es = front \o end
      BY <1>9, <1>10, <1>12, <1>14, <2>3, <3>1, SayingsAre
    <3>3. Has(front, K)
      BY ONLY <1>11, <3>2, HasInBoth
    <3>4. Has(es, K)
      BY ONLY <3>2, <3>3, HasInBoth
    <3>5. QED BY <3>1, <3>4
  <2>6. "RequestCompleted" \notin all /\ "CarrierTipped" \notin all
    BY <1>7, <1>13, <2>1
  <2>7. QED BY <1>1, <1>2, <1>18, <2>4, <2>5, <2>6, RefundTold
<1>19. Chronicle /\ r \in RequestIds
  OBVIOUS
<1>20. QED BY ONLY <1>3, <1>6, <1>12, <1>13, <1>14, <1>15, <1>16, <1>17, <1>18, <1>19, TalkEnds

-----------------------------------------------------------------------------
(* Part X.  The chronicle is kept by every transaction.                     *)

LEMMA EscrowEventsTold ==
  ASSUME Chronicle, NEW r \in RequestIds, UNCHANGED negotiationVars,
         ProposalEvents(r) \/ ProofEvents(r) \/ ReviewEvents(r) \/ SettlementEvents(r)
  PROVE  StoryInv'
<1>1. IInv /\ MarketOK
  BY ChainFacts DEF Chronicle, IInv
<1>2. /\ GasReadings \subseteq Nat /\ TxGasPrices \subseteq Nat
      /\ \A amount \in FundingAmounts : amount \in Nat
  BY InputAssumption
<1>3. CASE ProposalEvents(r)
  <2>1. ASSUME NEW p \in DOMAIN proposals[r], NEW price \in ReferenceGasPrices, NEW extra \in ExtraAllowances,
               LET allowance == MinimumOperationalAllowance(r, p, price) + extra
               IN  /\ ApproveAndFund(r, p, price, allowance)
                   /\ Emit(<<Of(r, "MilestonePlanAccepted", proposals[r][p].carrier),
                             Money(r, "EscrowFunded", Escrow, requests[r].proposedAmount),
                             Money(r, "OperationalAllowanceFunded", Escrow, allowance)>>)
        PROVE  StoryInv'
    <3>1. PICK allowance : allowance = MinimumOperationalAllowance(r, p, price) + extra
      OBVIOUS
    <3>2. allowance \in Nat
      <4>1. price \in Nat /\ extra \in Nat
        BY InputAssumption
      <4>2. MinimumOperationalAllowance(r, p, price) \in Nat
        BY <1>1, <4>1, MinimumIsNat
      <4>3. QED BY <3>1, <4>1, <4>2
    <3>3. /\ ApproveAndFund(r, p, price, allowance)
          /\ Emit(<<Of(r, "MilestonePlanAccepted", proposals[r][p].carrier),
                    Money(r, "EscrowFunded", Escrow, requests[r].proposedAmount),
                    Money(r, "OperationalAllowanceFunded", Escrow, allowance)>>)
      BY <2>1, <3>1
    <3>4. QED BY <3>2, <3>3, FundTold
  <2>2. CASE \/ \E u \in Carriers :
                  \/ \E plan \in Plans :
                       ProposeMilestones(u, r, plan) /\ Emit(<<Of(r, "MilestonePlanProposed", u)>>)
                  \/ RevokeMilestoneProposal(u, r) /\ Emit(<<Of(r, "MilestonePlanRevoked", u)>>)
             \/ \E p \in 1 .. MaxProposals :
                  RejectMilestoneProposal(r, p)
                    /\ Emit(<<Of(r, "MilestonePlanRejected", proposals[r][p].carrier)>>)
    BY <2>2, OffersAreTold
  <2>3. CASE CancelRequest(r) /\ Emit(<<Event(r, "RequestCancelled")>>)
    BY <2>3, QuietStepsTold
  <2>4. QED BY <1>3, <2>1, <2>2, <2>3 DEF ProposalEvents
<1>4. CASE ProofEvents(r)
  <2>1. ASSUME NEW m \in MilestoneIds, NEW uri, NEW gas \in GasReadings, NEW price \in TxGasPrices,
               SubmitProof(r, m, uri, gas, price),
               Emit(IfAny(Money(r, "OperationalAllowanceReimbursed", requests[r].carrier, Reimbursed(r)))
                      \o <<Step(r, "ProofSubmitted", m)>>)
        PROVE  StoryInv'
    BY <1>2, <2>1, SubmitTold
  <2>2. ASSUME NEW m \in MilestoneIds, WithdrawProof(r, m), Emit(<<Step(r, "ProofWithdrawn", m)>>)
        PROVE  StoryInv'
    BY <2>2, QuietStepsTold
  <2>3. QED BY <1>4, <2>1, <2>2 DEF ProofEvents
<1>5. CASE ReviewEvents(r)
  <2>1. PICK m \in MilestoneIds, n \in 1 .. MaxVersion :
          \/ /\ RejectMilestone(r, m, n)
             /\ Emit(<<[Step(r, "MilestoneVerified", m) EXCEPT !.approved = FALSE],
                       Step(r, "MilestoneRejected", m)>>)
          \/ /\ ApproveMilestone(r, m, n)
             /\ LET amount  == milestones[r][m].payoutAmount + milestones[r][m].additionalPayoutAmount
                    carrier == requests[r].carrier
                IN  Emit(<<Step(r, "MilestoneVerified", m),
                           [Step(r, "MilestonePaid", m) EXCEPT !.amount = amount],
                           [Money(r, "PaymentReleased", carrier, amount) EXCEPT !.milestone = m]>>
                         \o IF requests'[r].status = "Completed"
                            THEN <<[Of(r, "RequestCompleted", carrier) EXCEPT !.completedAt = now]>>
                                   \o ReserveRefunded(r)
                            ELSE <<>>)
    BY <1>5 DEF ReviewEvents
  <2>2. CASE /\ RejectMilestone(r, m, n)
             /\ Emit(<<[Step(r, "MilestoneVerified", m) EXCEPT !.approved = FALSE],
                       Step(r, "MilestoneRejected", m)>>)
    BY <2>2, RejectionTold
  <2>3. CASE ~(/\ RejectMilestone(r, m, n)
               /\ Emit(<<[Step(r, "MilestoneVerified", m) EXCEPT !.approved = FALSE],
                         Step(r, "MilestoneRejected", m)>>))
    <3>1. ApproveMilestone(r, m, n)
      BY <2>1, <2>3
    <3>2. LET amount  == milestones[r][m].payoutAmount + milestones[r][m].additionalPayoutAmount
              carrier == requests[r].carrier
          IN  Emit(<<Step(r, "MilestoneVerified", m),
                     [Step(r, "MilestonePaid", m) EXCEPT !.amount = amount],
                     [Money(r, "PaymentReleased", carrier, amount) EXCEPT !.milestone = m]>>
                   \o IF requests'[r].status = "Completed"
                      THEN <<[Of(r, "RequestCompleted", carrier) EXCEPT !.completedAt = now]>>
                             \o ReserveRefunded(r)
                      ELSE <<>>)
      BY <2>1, <2>3
    <3>3. QED BY <3>1, <3>2, ApprovalTold
  <2>4. QED BY <2>2, <2>3
<1>6. CASE SettlementEvents(r)
  <2>1. CASE /\ RefundRemaining(r)
             /\ EmitEnd((IF Overdue(r) THEN <<Of(r, "RequestExpired", requests[r].carrier)>> ELSE <<>>)
                          \o Refunded(r))
    BY <2>1, ExpiryTold
  <2>2. ASSUME NEW amount \in FundingAmounts, TipCarrier(r, amount),
               Emit(<<Money(r, "CarrierTipped", requests[r].carrier, amount)>>)
        PROVE  StoryInv'
    BY <1>2, <2>2, TipTold
  <2>3. ASSUME NEW amount \in FundingAmounts, TopUpOperationalAllowance(r, amount),
               Emit(<<Money(r, "OperationalAllowanceFunded", Escrow, amount)>>)
        PROVE  StoryInv'
    BY <1>2, <2>3, QuietStepsTold
  <2>4. QED BY <1>6, <2>1, <2>2, <2>3 DEF SettlementEvents
<1>7. QED BY <1>3, <1>4, <1>5, <1>6

LEMMA AmendmentEventsTold ==
  ASSUME Chronicle, NEW r \in RequestIds, AmendmentEvents(r)
  PROVE  StoryInv'
<1>1. ChainInv
  BY DEF Chronicle
<1>2. GasReadings \subseteq Nat /\ TxGasPrices \subseteq Nat
  BY InputAssumption
<1>3. ASSUME NEW newDeadline \in Deadlines, ExtendShipmentDeadline(r, newDeadline),
             Emit(<<Event(r, "ShipmentDeadlineExtended")>>)
      PROVE  StoryInv'
  BY <1>3, ExtensionTold
<1>4. CASE RequestAmendmentEvents(r)
  <2>1. PICK who \in Participants(r), proposedDeadline, responseDeadline \in Deadlines,
             existing \in Fundings(r), additions \in Additions(r),
             price \in ReferenceGasPrices, allowance \in ResponseAllowances :
          /\ RequestAmendment(r, who, proposedDeadline, responseDeadline,
                              existing, additions, price, allowance)
          /\ Emit(<<Event(r, "AmendmentRequested")>>
                    \o IfAny(Money(r, "AmendmentResponseAllowanceFunded", Manager, allowance)))
    BY <1>4 DEF RequestAmendmentEvents
  <2>2. QED BY <2>1, AskedTold
<1>5. ASSUME NEW a \in 1 .. MaxNegotiations, AnswerAmendmentEvents(r, a)
      PROVE  StoryInv'
  <2>1. PICK amendment : amendment = amendmentRequests[r][a]
    OBVIOUS
  <2>2. ASSUME NEW gas \in GasReadings, NEW price \in TxGasPrices,
               AcceptAmendment(r, a, gas, price),
               Emit(Amended(r, amendment.additionalFunding, amendment.operationalAllowance)
                      \o ResponseSettled(r, amendment, ResponseReimbursement(amendment, gas, price))
                      \o <<Event(r, "AmendmentAccepted")>>)
        PROVE  StoryInv'
    BY <1>2, <2>1, <2>2, AcceptTold
  <2>3. ASSUME PendingAmendment(r, a)
        PROVE  /\ amendment \in Amendments /\ amendment.responseAllowanceSpent = 0
               /\ 0 <= amendment.responseAllowance
    <3>1. /\ amendment \in Amendments /\ PendingOK(amendment) /\ amendment.status = "Pending"
          /\ amendment.responseAllowance \in Nat
      BY <1>1, <2>1, <2>3, ChainFacts, PendingFacts
    <3>2. QED BY <3>1 DEF PendingOK
  <2>4. ASSUME NEW outcome, NEW reimbursed \in Nat, NEW name,
               name \in {"AmendmentRejected", "AmendmentWithdrawn", "AmendmentExpired"},
               PendingAmendment(r, a), ResolveAmendment(r, a, outcome, reimbursed),
               reimbursed <= amendment.responseAllowance,
               LET es == ResponseSettled(r, amendment, reimbursed) \o <<Event(r, name)>>
               IN  Emit(es) \/ EmitEnd(es)
        PROVE  StoryInv'
    <3>1. LET es == ResponseSettled(r, amendmentRequests[r][a], reimbursed) \o <<Event(r, name)>>
          IN  Emit(es) \/ EmitEnd(es)
      BY <2>1, <2>4
    <3>2. reimbursed <= amendmentRequests[r][a].responseAllowance
      BY <2>1, <2>4
    <3>3. QED BY <2>4, <3>1, <3>2, ResolvedTold
  <2>5. ASSUME NEW gas \in GasReadings, NEW price \in TxGasPrices,
               RejectAmendment(r, a, gas, price),
               Emit(ResponseSettled(r, amendment, ResponseReimbursement(amendment, gas, price))
                      \o <<Event(r, "AmendmentRejected")>>)
        PROVE  StoryInv'
    <3>1. PICK reimbursed : reimbursed = ResponseReimbursement(amendment, gas, price)
      OBVIOUS
    <3>2. PICK outcome, name : outcome = "Rejected" /\ name = "AmendmentRejected"
      OBVIOUS
    <3>3. PendingAmendment(r, a) /\ ResolveAmendment(r, a, outcome, reimbursed)
      BY <2>1, <2>5, <3>1, <3>2 DEF RejectAmendment
    <3>4. reimbursed \in Nat /\ reimbursed <= amendment.responseAllowance
      BY <1>2, <2>3, <3>1, <3>3, ReimbursementWithin
    <3>5. Emit(ResponseSettled(r, amendment, reimbursed) \o <<Event(r, name)>>)
      BY <2>5, <3>1, <3>2
    <3>6. QED BY <2>4, <3>2, <3>3, <3>4, <3>5
  <2>6. CASE /\ WithdrawAmendment(r, a)
             /\ Emit(ResponseSettled(r, amendment, 0) \o <<Event(r, "AmendmentWithdrawn")>>)
    <3>1. PICK outcome, name : outcome = "Withdrawn" /\ name = "AmendmentWithdrawn"
      OBVIOUS
    <3>2. PendingAmendment(r, a) /\ ResolveAmendment(r, a, outcome, 0)
      BY <2>6, <3>1 DEF WithdrawAmendment
    <3>3. QED BY <2>3, <2>4, <2>6, <3>1, <3>2
  <2>7. CASE /\ ExpireAmendment(r, a)
             /\ EmitEnd(ResponseSettled(r, amendment, 0) \o <<Event(r, "AmendmentExpired")>>)
    <3>1. PICK outcome, name : outcome = "Expired" /\ name = "AmendmentExpired"
      OBVIOUS
    <3>2. PendingAmendment(r, a) /\ ResolveAmendment(r, a, outcome, 0)
      BY <2>7, <3>1 DEF ExpireAmendment
    <3>3. QED BY <2>3, <2>4, <2>7, <3>1, <3>2
  <2>8. QED BY <1>5, <2>1, <2>2, <2>5, <2>6, <2>7 DEF AnswerAmendmentEvents
<1>6. QED BY <1>3, <1>4, <1>5 DEF AmendmentEvents

LEMMA CancellationEventsTold ==
  ASSUME Chronicle, NEW r \in RequestIds, CancellationEvents(r)
  PROVE  StoryInv'
<1>1. ASSUME NEW c, NEW outcome, NEW name, ResolveCancellation(r, c, outcome), UNCHANGED vars,
             name \in {"CancellationRejected", "CancellationWithdrawn", "CancellationExpired"},
             Emit(<<Event(r, name)>>) \/ EmitEnd(<<Event(r, name)>>)
      PROVE  StoryInv'
  <2>1. PICK slot : slot = NoNegotiation
    OBVIOUS
  <2>2. activeNegotiation' = [activeNegotiation EXCEPT ![r] = slot]
    BY <1>1, <2>1 DEF ResolveCancellation, CloseNegotiation
  <2>3. name \in NegotiationNames /\ (name \in Actionable <=> slot.kind # "None")
    BY <1>1, <2>1, SilentOrAsking DEF NegotiationNames
  <2>4. QED BY <1>1, <2>2, <2>3, CancellationTold
<1>2. ASSUME NEW who, NEW responseDeadline, RequestCancellation(r, who, responseDeadline),
             Emit(<<Event(r, "CancellationRequested")>>)
      PROVE  StoryInv'
  <2>1. PICK kind, id : kind = "Cancellation" /\ id = Len(cancellationRequests[r]) + 1
    OBVIOUS
  <2>2. OpenNegotiation(r, kind, id) /\ UNCHANGED vars
    BY <1>2, <2>1 DEF RequestCancellation
  <2>3. kind # "None"
    BY <2>1
  <2>4. PICK slot : activeNegotiation' = [activeNegotiation EXCEPT ![r] = slot] /\ slot.kind # "None"
    BY <2>2, <2>3, OpenedSlot
  <2>5. PICK name : name = "CancellationRequested"
    OBVIOUS
  <2>6. name \in NegotiationNames /\ (name \in Actionable <=> slot.kind # "None")
    BY <2>4, <2>5, SilentOrAsking DEF NegotiationNames
  <2>7. Emit(<<Event(r, name)>>)
    BY <1>2, <2>5
  <2>8. QED BY <2>2, <2>4, <2>6, <2>7, CancellationTold
<1>3. ASSUME NEW c, AcceptCancellation(r, c),
             Emit(<<Event(r, "RequestCancelled")>> \o Refunded(r) \o <<Event(r, "CancellationAccepted")>>)
      PROVE  StoryInv'
  BY <1>3, MutualTold
<1>4. ASSUME NEW c, RejectCancellation(r, c), Emit(<<Event(r, "CancellationRejected")>>)
      PROVE  StoryInv'
  <2>1. PICK outcome, name : outcome = "Rejected" /\ name = "CancellationRejected"
    OBVIOUS
  <2>2. ResolveCancellation(r, c, outcome) /\ UNCHANGED vars
    BY <1>4, <2>1 DEF RejectCancellation
  <2>3. QED BY <1>1, <1>4, <2>1, <2>2
<1>5. ASSUME NEW c, WithdrawCancellation(r, c), Emit(<<Event(r, "CancellationWithdrawn")>>)
      PROVE  StoryInv'
  <2>1. PICK outcome, name : outcome = "Withdrawn" /\ name = "CancellationWithdrawn"
    OBVIOUS
  <2>2. ResolveCancellation(r, c, outcome) /\ UNCHANGED vars
    BY <1>5, <2>1 DEF WithdrawCancellation
  <2>3. QED BY <1>1, <1>5, <2>1, <2>2
<1>6. ASSUME NEW c, ExpireCancellation(r, c), EmitEnd(<<Event(r, "CancellationExpired")>>)
      PROVE  StoryInv'
  <2>1. PICK outcome, name : outcome = "Expired" /\ name = "CancellationExpired"
    OBVIOUS
  <2>2. ResolveCancellation(r, c, outcome) /\ UNCHANGED vars
    BY <1>6, <2>1 DEF ExpireCancellation
  <2>3. QED BY <1>1, <1>6, <2>1, <2>2
<1>7. QED BY <1>2, <1>3, <1>4, <1>5, <1>6 DEF CancellationEvents

(* Where nothing is written, nothing of the story has changed.              *)
LEMMA StoryStands ==
  ASSUME StoryInv, UNCHANGED <<log, requests, tipAmounts, milestones, nextMilestoneId,
                               activeProposal, activeNegotiation>>
  PROVE  StoryInv'
BY DEF StoryInv, Story, AwardTold, OutcomeTold, WorkTold, MilestoneTold, TalkTold, OffersTold

LEMMA EveryStepTold ==
  ASSUME Chronicle, [RecordsNext]_recordVars
  PROVE  StoryInv'
<1>1. CASE EscrowEvents /\ UNCHANGED negotiationVars
  <2>1. CASE Tick /\ UNCHANGED log
    <3>1. UNCHANGED <<log, requests, tipAmounts, milestones, nextMilestoneId,
                      activeProposal, activeNegotiation>>
      BY <1>1, <2>1 DEF Tick, negotiationVars, marketVars, workVars
    <3>2. QED BY <3>1, StoryStands DEF Chronicle
  <2>2. ASSUME NEW u \in Shippers, NEW deadline \in Deadlines, NEW amount \in Amounts,
               CreateRequest(u, deadline, amount), Emit(<<Event(nextRequestId, "RequestCreated")>>)
        PROVE  StoryInv'
    <3>1. u \in Users
      BY RecordsAssumption
    <3>2. QED BY <1>1, <2>2, <3>1, CreateTold
  <2>3. ASSUME NEW r \in RequestIds,
               ProposalEvents(r) \/ ProofEvents(r) \/ ReviewEvents(r) \/ SettlementEvents(r)
        PROVE  StoryInv'
    BY <1>1, <2>3, EscrowEventsTold
  <2>4. QED BY <1>1, <2>1, <2>2, <2>3 DEF EscrowEvents
<1>2. ASSUME NEW r \in RequestIds, AmendmentEvents(r) PROVE StoryInv'
  BY <1>2, AmendmentEventsTold
<1>3. ASSUME NEW r \in RequestIds, CancellationEvents(r) PROVE StoryInv'
  BY <1>3, CancellationEventsTold
<1>4. ASSUME NEW r \in RequestIds, PublishRating(r) PROVE StoryInv'
  BY <1>4, RatingTold
<1>5. CASE UNCHANGED recordVars
  <2>1. UNCHANGED <<log, requests, tipAmounts, milestones, nextMilestoneId,
                    activeProposal, activeNegotiation>>
    BY <1>5 DEF recordVars, chainVars, vars, negotiationVars, marketVars, workVars
  <2>2. QED BY <2>1, StoryStands DEF Chronicle
<1>6. QED BY <1>1, <1>2, <1>3, <1>4, <1>5 DEF RecordsNext

LEMMA StoryBegins == RecordsInit => StoryInv
<1> SUFFICES ASSUME RecordsInit PROVE StoryInv
  OBVIOUS
<1>1. log = <<>>
  BY DEF RecordsInit
<1>2. log \in Seq(Seq(PlainEvents))
  BY <1>1
<1>3. ASSUME NEW K PROVE FoundIn(log, K) = {}
  <2>1. PlacesIn(log) = {}
    BY <1>1 DEF PlacesIn
  <2>2. QED BY <2>1 DEF FoundIn
<1>4. /\ \A K : ~Mentioned(log, K)
      /\ \A K, S : ~LastWord(log, K, S)
  BY <1>3 DEF Mentioned, LastWord
<1>5. ASSUME NEW q \in RequestIds PROVE Story(q)
  <2>1. /\ requests[q] = NoRequest /\ tipAmounts[q] = 0
        /\ activeNegotiation[q] = NoNegotiation
        /\ \A m \in MilestoneIds : milestones[q][m] = NoMilestone
        /\ \A w \in Users : activeProposal[q][w] = 0
    BY DEF RecordsInit, ChainInit, Init
  <2>2. /\ requests[q].carrier = NoUser /\ requests[q].status = "Open"
        /\ activeNegotiation[q].kind = "None"
        /\ \A m \in MilestoneIds : milestones[q][m].status \notin {"Paid", "Submitted"}
    BY <2>1 DEF NoRequest, NoNegotiation, NoMilestone
  <2>3. AwardTold(q)
    BY <1>4, <2>2 DEF AwardTold
  <2>4. OutcomeTold(q)
    BY <1>4, <2>1, <2>2 DEF OutcomeTold
  <2>5. WorkTold(q)
    BY <1>4, <2>2 DEF WorkTold, MilestoneTold
  <2>6. TalkTold(q)
    BY <1>4, <2>2 DEF TalkTold
  <2>7. OffersTold(q)
    BY <1>4, <2>1 DEF OffersTold
  <2>8. QED BY <2>3, <2>4, <2>5, <2>6, <2>7 DEF Story
<1>6. QED BY <1>2, <1>5 DEF StoryInv

TellingInv == RecordsInv /\ StoryInv

LEMMA TellingInvariant == FairRecordsSpec => []TellingInv
<1>1. RecordsInit => StoryInv
  BY StoryBegins
<1>2. RecordsInv /\ StoryInv /\ [RecordsNext]_recordVars => StoryInv'
  BY EveryStepTold DEF RecordsInv, LedgerInv, Chronicle
<1>3. FairRecordsSpec => []RecordsInv
  BY RecordsInvariant
<1>4. FairRecordsSpec => []StoryInv
  BY <1>1, <1>2, <1>3, PTL DEF FairRecordsSpec
<1>5. QED BY <1>3, <1>4, PTL DEF TellingInv

-----------------------------------------------------------------------------
(* Part XI.  Reading the chats from the log.                                *)

(* The place of the last event of a class, and what it says.                *)
LEMMA LatestOfFound ==
  ASSUME log \in Seq(Seq(LogEvents)), NEW K, NEW T, T = FoundIn(log, K), T # {}
  PROVE  LatestOf(T) \in T /\ \A q \in T : LatestOf(T) = q \/ Before(q, LatestOf(T))
<1>1. \A p \in T : p \in PlacesIn(log)
  BY DEF FoundIn
<1>2. ASSUME NEW p \in T
      PROVE  /\ p = <<p[1], p[2]>> /\ p[1] \in 1 .. Len(log)
             /\ p[2] \in 1 .. Len(log[p[1]]) /\ Len(log[p[1]]) \in Nat
  <2>1. p = <<p[1], p[2]>> /\ p[1] \in 1 .. Len(log) /\ p[2] \in DOMAIN log[p[1]]
    BY <1>1, PlaceIs
  <2>2. log[p[1]] \in Seq(LogEvents)
    BY <2>1
  <2>3. QED BY <2>1, <2>2
<1> DEFINE B == {p[1] : p \in T}
<1>3. B \in SUBSET (1 .. Len(log)) /\ B # {} /\ Len(log) \in Nat
  BY <1>2
<1>4. PICK b \in B : \A c \in B : c <= b
  <2> HIDE DEF B
  <2>1. QED BY <1>3, Topmost
<1> DEFINE I == {p[2] : p \in {q \in T : q[1] = b}}
<1>5. I \in SUBSET (1 .. Len(log[b])) /\ I # {} /\ Len(log[b]) \in Nat
  BY <1>2, <1>4
<1>6. PICK i \in I : \A j \in I : j <= i
  <2> HIDE DEF I
  <2>1. QED BY <1>5, Topmost
<1>7. PICK p \in T : p[1] = b /\ p[2] = i
  BY <1>6
<1>8. ASSUME NEW q \in T PROVE p = q \/ Before(q, p)
  <2>1. q[1] <= b /\ q[1] \in Int /\ b \in Int
    BY <1>2, <1>4, <1>7
  <2>2. CASE q[1] = b
    <3>1. q[2] <= i /\ q[2] \in Int /\ i \in Int
      BY <1>2, <1>6, <1>7, <2>2
    <3>2. q[2] = i => p = q
      BY <1>2, <1>7, <2>2
    <3>3. q[2] < i => Before(q, p)
      BY <1>7, <2>2 DEF Before
    <3>4. QED BY <3>1, <3>2, <3>3
  <2>3. CASE q[1] < b
    BY <1>7, <2>3 DEF Before
  <2>4. QED BY <2>1, <2>2, <2>3
<1>9. \E x \in T : \A q \in T : x = q \/ Before(q, x)
  BY <1>8
<1>10. QED BY ONLY <1>9 DEF LatestOf

LEMMA LatestSays ==
  ASSUME log \in Seq(Seq(LogEvents)), NEW K, NEW T, T = FoundIn(log, K), NEW S
  PROVE  LastWord(log, K, S) <=> T # {} /\ EventAt(LatestOf(T)) \in S
<1>1. \A p : EventAt(p) = log[p[1]][p[2]]
  BY PlacesRead
<1>2. ASSUME T # {} PROVE LatestOf(T) \in T /\ \A q \in T : LatestOf(T) = q \/ Before(q, LatestOf(T))
  BY <1>2, LatestOfFound
<1>3. ASSUME T # {}, EventAt(LatestOf(T)) \in S PROVE LastWord(log, K, S)
  <2>1. PICK last : last = LatestOf(T)
    OBVIOUS
  <2>2. /\ last \in T /\ \A q \in T : q = last \/ Before(q, last)
        /\ log[last[1]][last[2]] \in S
    BY <1>1, <1>2, <1>3, <2>1
  <2>3. QED BY <2>2 DEF LastWord
<1>4. ASSUME LastWord(log, K, S) PROVE T # {} /\ EventAt(LatestOf(T)) \in S
  <2>1. PICK p \in T : log[p[1]][p[2]] \in S /\ \A q \in T : q = p \/ Before(q, p)
    BY <1>4 DEF LastWord
  <2>2. PICK last : last = LatestOf(T)
    OBVIOUS
  <2>3. last \in T /\ \A q \in T : last = q \/ Before(q, last)
    BY <1>2, <2>1, <2>2
  <2>4. (last = p \/ Before(p, last)) /\ (last = p \/ Before(last, p))
    BY <2>1, <2>3
  <2>5. ~(Before(p, last) /\ Before(last, p))
    <3>1. p \in PlacesIn(log) /\ last \in PlacesIn(log)
      BY <2>1, <2>3 DEF FoundIn
    <3>2. /\ p[1] \in Nat /\ last[1] \in Nat /\ p[1] \in 1 .. Len(log) /\ last[1] \in 1 .. Len(log)
          /\ p[2] \in DOMAIN log[p[1]] /\ last[2] \in DOMAIN log[last[1]]
      BY <3>1, PlaceIs
    <3>3. log[p[1]] \in Seq(LogEvents) /\ log[last[1]] \in Seq(LogEvents)
      BY <3>2
    <3>4. p[2] \in Nat /\ last[2] \in Nat
      BY <3>2, <3>3
    <3>5. QED BY <3>2, <3>4 DEF Before
  <2>6. last = p
    BY <2>4, <2>5
  <2>7. QED BY <1>1, <2>1, <2>2, <2>6
<1>5. QED BY <1>3, <1>4

(* What is shown of a class is all that was said of it.                     *)
LEMMA AllOfClass ==
  ASSUME log \in Seq(Seq(LogEvents)), NEW K, NEW T, T \subseteq PlacesIn(log),
         \A p \in PlacesIn(log) : EventAt(p) \in PlainEvents => (p \in T <=> EventAt(p) \in K),
         log \in Seq(Seq(PlainEvents))
  PROVE  T = FoundIn(log, K)
<1>1. ASSUME NEW p \in PlacesIn(log) PROVE EventAt(p) \in PlainEvents
  <2>1. p[1] \in 1 .. Len(log) /\ p[2] \in DOMAIN log[p[1]]
    BY PlaceIs
  <2>2. log[p[1]] \in Seq(PlainEvents)
    BY <2>1
  <2>3. log[p[1]][p[2]] \in PlainEvents
    BY <2>1, <2>2
  <2>4. QED BY <2>3, PlacesRead
<1>2. \A p \in PlacesIn(log) : p \in T <=> EventAt(p) \in K
  BY <1>1
<1>3. \A p \in PlacesIn(log) : p \in FoundIn(log, K) <=> EventAt(p) \in K
  BY PlacesRead DEF FoundIn
<1>4. FoundIn(log, K) \subseteq PlacesIn(log)
  BY DEF FoundIn
<1>5. QED BY <1>2, <1>3, <1>4

(* Which entries a chat shows.                                              *)
EntryNames == EscrowNames \cup LifecycleNames \cup {"CarrierRated"}

LEMMA EntriesAre ==
  ASSUME NEW r, NEW p
  PROVE  p \in Entries(r) <=>
           p \in PlacesIn(log) /\ EventAt(p).request = r /\ EventAt(p).name \in EntryNames
BY PlacesRead DEF Entries, Named, EntryNames

LEMMA AcceptedRead ==
  ASSUME log \in Seq(Seq(LogEvents)), NEW r, AwardTold(r), requests[r].carrier \in Parties
  PROVE  AcceptedIn(Entries(r)) = (IF requests[r].carrier = NoUser THEN {} ELSE {requests[r].carrier})
<1> DEFINE accepted == AcceptedIn(Entries(r))
<1>1. ASSUME NEW w \in Parties
      PROVE  w \in accepted <=> Mentioned(log, Awarded(r, w))
  <2>1. w \in accepted <=> \E p \in Entries(r) :
                             EventAt(p).name = "MilestonePlanAccepted" /\ EventAt(p).party = w
    BY DEF AcceptedIn, Named
  <2>2. "MilestonePlanAccepted" \in EntryNames
    BY DEF EntryNames, EscrowNames, ProposalNames
  <2>3. ASSUME NEW p
        PROVE  p \in Entries(r) /\ EventAt(p).name = "MilestonePlanAccepted" /\ EventAt(p).party = w
                 <=> p \in FoundIn(log, Awarded(r, w))
    <3>1. p \in FoundIn(log, Awarded(r, w)) <=>
            p \in PlacesIn(log) /\ EventAt(p) \in LogEvents /\ EventAt(p) \in Awarded(r, w)
      BY FoundIs
    <3>2. p \in PlacesIn(log) => EventAt(p) \in LogEvents
      BY FoundIsEvent, PlacesRead
    <3>3. QED BY <2>2, <3>1, <3>2, EntriesAre DEF Awarded
  <2>4. QED BY <2>1, <2>3 DEF Mentioned
<1>2. accepted \subseteq Parties
  <2>1. ASSUME NEW w \in accepted PROVE w \in Parties
    <3>1. PICK p \in Entries(r) : w = EventAt(p).party
      BY DEF AcceptedIn, Named
    <3>2. EventAt(p) \in LogEvents
      BY <3>1, EntriesAre, FoundIsEvent, PlacesRead
    <3>3. QED BY <3>1, <3>2 DEF LogEvents
  <2>2. QED BY <2>1
<1>3. \A w \in Parties : w \in accepted <=> (w = requests[r].carrier /\ w # NoUser)
  BY <1>1 DEF AwardTold
<1> HIDE DEF accepted
<1>4. accepted = (IF requests[r].carrier = NoUser THEN {} ELSE {requests[r].carrier})
  BY <1>2, <1>3
<1>5. QED BY <1>4 DEF accepted

LEMMA AcceptedSees ==
  ASSUME NEW r, NEW w, AcceptedIn(Entries(r)) = {w}, NEW p \in PlacesIn(log)
  PROVE  p \in Notices(r, w) <=>
           /\ EventAt(p).request = r /\ EventAt(p).name \in EntryNames
           /\ EventAt(p).name \in ProposalNames => EventAt(p).party = w
           /\ IsNotice(EventAt(p))
<1>1. Sees(w, p, {w}) <=> (EventAt(p).name \in ProposalNames => EventAt(p).party = w)
  BY DEF Sees, ProposalNames
<1>2. p \in Notices(r, w) <=> p \in Entries(r) /\ Sees(w, p, {w}) /\ IsNotice(EventAt(p))
  BY DEF Notices
<1>3. QED BY <1>1, <1>2, EntriesAre

LEMMA OtherSees ==
  ASSUME NEW r, NEW w, NEW accepted, AcceptedIn(Entries(r)) = accepted, accepted # {w},
         NEW p \in PlacesIn(log)
  PROVE  p \in Notices(r, w) <=>
           /\ EventAt(p).request = r
           /\ \/ EventAt(p).name \in ProposalNames /\ EventAt(p).party = w
              \/ EventAt(p).name = "RequestCreated"
              \/ EventAt(p).name = "RequestCancelled" /\ accepted = {}
<1>1. Sees(w, p, accepted) <=>
        \/ EventAt(p).name \in ProposalNames /\ EventAt(p).party = w
        \/ EventAt(p).name = "RequestCreated"
        \/ EventAt(p).name = "RequestCancelled" /\ accepted = {}
  BY DEF Sees
<1>2. p \in Notices(r, w) <=> p \in Entries(r) /\ Sees(w, p, accepted) /\ IsNotice(EventAt(p))
  BY DEF Notices
<1>3. ProposalNames \cup {"RequestCreated", "RequestCancelled"} \subseteq EntryNames
  BY DEF EntryNames, EscrowNames
<1>4. "MilestoneVerified" \notin ProposalNames \cup {"RequestCreated", "RequestCancelled"}
  BY DEF ProposalNames
<1>5. Sees(w, p, accepted) => EventAt(p).name \in EntryNames /\ IsNotice(EventAt(p))
  BY <1>1, <1>3, <1>4 DEF IsNotice
<1>6. QED BY <1>1, <1>2, <1>5, EntriesAre

LEMMA NoticesArePlaces ==
  ASSUME NEW r, NEW w
  PROVE  Notices(r, w) \subseteq PlacesIn(log)
BY EntriesAre DEF Notices

(* The names among the accepted carrier's notices.                          *)
LEMMA NameIsShown ==
  ASSUME log \in Seq(Seq(LogEvents)), NEW r, NEW w, AcceptedIn(Entries(r)) = {w},
         NEW name, name \in EntryNames, name \notin ProposalNames, name # "MilestoneVerified"
  PROVE  name \in NamesOf(Notices(r, w)) <=> Mentioned(log, NamedOf(r, name))
<1>1. ASSUME NEW p PROVE p \in Notices(r, w) /\ EventAt(p).name = name
                           <=> p \in FoundIn(log, NamedOf(r, name))
  <2>1. p \in FoundIn(log, NamedOf(r, name)) <=>
          p \in PlacesIn(log) /\ EventAt(p) \in LogEvents /\ EventAt(p) \in NamedOf(r, name)
    BY FoundIs
  <2>2. p \in PlacesIn(log) => EventAt(p) \in LogEvents
    BY FoundIsEvent, PlacesRead
  <2>3. p \in Notices(r, w) => p \in PlacesIn(log)
    BY NoticesArePlaces
  <2>4. EventAt(p).name = name /\ p \in PlacesIn(log) =>
          (p \in Notices(r, w) <=> EventAt(p).request = r)
    BY AcceptedSees DEF IsNotice
  <2>5. QED BY <2>1, <2>2, <2>3, <2>4 DEF NamedOf
<1>2. name \in NamesOf(Notices(r, w)) <=> \E p \in Notices(r, w) : EventAt(p).name = name
  BY DEF NamesOf
<1>3. QED BY <1>1, <1>2 DEF Mentioned

LEMMA PaidIsShownOnce ==
  ASSUME log \in Seq(Seq(LogEvents)), log \in Seq(Seq(PlainEvents)),
         NEW r, NEW w, AcceptedIn(Entries(r)) = {w}, NEW m \in MilestoneIds
  PROVE  LET about == {p \in Notices(r, w) : EventAt(p).milestone = m} IN
         /\ Named(about, {"MilestonePaid"}) = FoundIn(log, PaidFor(r, m))
         /\ about = FoundIn(log, About(r, m))
<1> DEFINE about == {p \in Notices(r, w) : EventAt(p).milestone = m}
           paid == Named(about, {"MilestonePaid"})
<1>1. about \subseteq PlacesIn(log) /\ paid \subseteq about
  BY NoticesArePlaces DEF Named
<1>2. AboutNames \subseteq EntryNames /\ AboutNames \cap ProposalNames = {}
  BY DEF AboutNames, EntryNames, EscrowNames, ProposalNames
<1>3. WorkNames \cap EntryNames \subseteq AboutNames
  BY DEF WorkNames, AboutNames, EntryNames, EscrowNames, LifecycleNames, ProposalNames,
         PaymentEvents, NegotiationNames
<1>4. m # -1
  BY DEF MilestoneIds
<1>5. ASSUME NEW p \in PlacesIn(log), EventAt(p) \in PlainEvents
      PROVE  p \in about <=> EventAt(p) \in About(r, m)
  <2> DEFINE e == EventAt(p)
  <2>1. e \in LogEvents /\ (e.milestone = m => e.name \in WorkNames)
    BY <1>4, <1>5 DEF PlainEvents
  <2>2. p \in Notices(r, w) <=>
          /\ e.request = r /\ e.name \in EntryNames
          /\ e.name \in ProposalNames => e.party = w
          /\ IsNotice(e)
    BY AcceptedSees
  <2>3. p \in about <=> p \in Notices(r, w) /\ e.milestone = m
    OBVIOUS
  <2> HIDE DEF e, about
  <2>4. e \in About(r, m) <=>
          e \in LogEvents /\ e.request = r /\ e.name \in AboutNames /\ e.milestone = m /\ IsNotice(e)
    BY DEF About
  <2>5. p \in about <=> e \in About(r, m)
    BY <1>2, <1>3, <2>1, <2>2, <2>3, <2>4
  <2>6. QED BY <2>5 DEF e
<1>6. ASSUME NEW p \in PlacesIn(log), EventAt(p) \in PlainEvents
      PROVE  p \in paid <=> EventAt(p) \in PaidFor(r, m)
  <2>1. p \in about <=> EventAt(p) \in About(r, m)
    BY <1>5, <1>6
  <2>2. p \in paid <=> p \in about /\ EventAt(p).name = "MilestonePaid"
    BY DEF Named
  <2>3. EventAt(p) \in PaidFor(r, m) <=>
          EventAt(p) \in About(r, m) /\ EventAt(p).name = "MilestonePaid"
    BY DEF About, PaidFor, AboutNames, IsNotice
  <2>4. QED BY <2>1, <2>2, <2>3
<1>7. about = FoundIn(log, About(r, m))
  <2>1. PICK K : K = About(r, m)
    OBVIOUS
  <2>2. PICK T : T = about
    OBVIOUS
  <2>3. /\ log \in Seq(Seq(LogEvents)) /\ log \in Seq(Seq(PlainEvents)) /\ T \subseteq PlacesIn(log)
        /\ \A p \in PlacesIn(log) : EventAt(p) \in PlainEvents => (p \in T <=> EventAt(p) \in K)
    <3> HIDE DEF about
    <3>1. QED BY <1>1, <1>5, <2>1, <2>2
  <2>4. T = FoundIn(log, K)
    BY ONLY <2>3, AllOfClass
  <2>5. QED BY <2>1, <2>2, <2>4
<1>8. paid = FoundIn(log, PaidFor(r, m))
  <2>1. PICK K : K = PaidFor(r, m)
    OBVIOUS
  <2>2. PICK T : T = paid
    OBVIOUS
  <2>3. /\ log \in Seq(Seq(LogEvents)) /\ log \in Seq(Seq(PlainEvents)) /\ T \subseteq PlacesIn(log)
        /\ \A p \in PlacesIn(log) : EventAt(p) \in PlainEvents => (p \in T <=> EventAt(p) \in K)
    <3> HIDE DEF about, paid
    <3>1. QED BY <1>1, <1>6, <2>1, <2>2
  <2>4. T = FoundIn(log, K)
    BY ONLY <2>3, AllOfClass
  <2>5. QED BY <2>1, <2>2, <2>4
<1>9. QED BY <1>7, <1>8

LEMMA TalksAreShown ==
  ASSUME log \in Seq(Seq(LogEvents)), log \in Seq(Seq(PlainEvents)),
         NEW r, NEW w, AcceptedIn(Entries(r)) = {w}
  PROVE  Named(Notices(r, w), NegotiationNames) = FoundIn(log, Talks(r))
<1>1. PICK T : T = Named(Notices(r, w), NegotiationNames)
  OBVIOUS
<1>2. PICK K : K = Talks(r)
  OBVIOUS
<1>3. T \subseteq PlacesIn(log)
  BY <1>1, NoticesArePlaces DEF Named
<1>4. /\ NegotiationNames \subseteq EntryNames /\ NegotiationNames \cap ProposalNames = {}
      /\ "MilestoneVerified" \notin NegotiationNames
  BY DEF NegotiationNames, EntryNames, LifecycleNames, ProposalNames
<1>5. ASSUME NEW p \in PlacesIn(log), EventAt(p) \in PlainEvents
      PROVE  p \in T <=> EventAt(p) \in K
  <2>1. p \in T <=> p \in Notices(r, w) /\ EventAt(p).name \in NegotiationNames
    BY <1>1 DEF Named
  <2>2. EventAt(p) \in LogEvents
    BY <1>5 DEF PlainEvents
  <2>3. EventAt(p).name \in NegotiationNames => (p \in Notices(r, w) <=> EventAt(p).request = r)
    BY <1>4, AcceptedSees DEF IsNotice
  <2>4. QED BY <1>2, <2>1, <2>2, <2>3 DEF Talks
<1>6. /\ log \in Seq(Seq(LogEvents)) /\ log \in Seq(Seq(PlainEvents)) /\ T \subseteq PlacesIn(log)
      /\ \A p \in PlacesIn(log) : EventAt(p) \in PlainEvents => (p \in T <=> EventAt(p) \in K)
  BY <1>3, <1>5
<1>7. T = FoundIn(log, K)
  BY ONLY <1>6, AllOfClass
<1>8. QED BY <1>1, <1>2, <1>7

LEMMA OffersAreShown ==
  ASSUME log \in Seq(Seq(LogEvents)), log \in Seq(Seq(PlainEvents)),
         NEW r, NEW w, AcceptedIn(Entries(r)) # {w}
  PROVE  Named(Notices(r, w), ProposalNames) = FoundIn(log, OwnOffers(r, w))
<1>1. PICK T : T = Named(Notices(r, w), ProposalNames)
  OBVIOUS
<1>2. PICK K : K = OwnOffers(r, w)
  OBVIOUS
<1>3. T \subseteq PlacesIn(log)
  BY <1>1, NoticesArePlaces DEF Named
<1>4. {"RequestCreated", "RequestCancelled"} \cap ProposalNames = {}
  BY DEF ProposalNames
<1>5. ASSUME NEW p \in PlacesIn(log), EventAt(p) \in PlainEvents
      PROVE  p \in T <=> EventAt(p) \in K
  <2>1. p \in T <=> p \in Notices(r, w) /\ EventAt(p).name \in ProposalNames
    BY <1>1 DEF Named
  <2>2. EventAt(p) \in LogEvents
    BY <1>5 DEF PlainEvents
  <2>3. EventAt(p).name \in ProposalNames =>
          (p \in Notices(r, w) <=> EventAt(p).request = r /\ EventAt(p).party = w)
    BY <1>4, OtherSees
  <2>4. QED BY <1>2, <2>1, <2>2, <2>3 DEF OwnOffers
<1>6. /\ log \in Seq(Seq(LogEvents)) /\ log \in Seq(Seq(PlainEvents)) /\ T \subseteq PlacesIn(log)
      /\ \A p \in PlacesIn(log) : EventAt(p) \in PlainEvents => (p \in T <=> EventAt(p) \in K)
  BY <1>3, <1>5
<1>7. T = FoundIn(log, K)
  BY ONLY <1>6, AllOfClass
<1>8. QED BY <1>1, <1>2, <1>7

(* What is said last of a class, in the words of the chat.                  *)
LEMMA LatestName ==
  ASSUME log \in Seq(Seq(LogEvents)), NEW K, NEW T, T = FoundIn(log, K), NEW names,
         NEW S, S = {e \in LogEvents : e.name \in names}
  PROVE  LastWord(log, K, S) <=> T # {} /\ EventAt(LatestOf(T)).name \in names
<1>1. LastWord(log, K, S) <=> T # {} /\ EventAt(LatestOf(T)) \in S
  BY LatestSays
<1>2. T # {} => EventAt(LatestOf(T)) \in LogEvents
  <2>1. PICK p : p = LatestOf(T)
    OBVIOUS
  <2>2. T # {} => p \in T
    BY <2>1, LatestOfFound
  <2>3. p \in T => EventAt(p) \in LogEvents
    BY FoundIs
  <2>4. QED BY <2>1, <2>2, <2>3
<1>3. QED BY <1>1, <1>2

LEMMA TellingFacts ==
  ASSUME TellingInv, NEW r \in RequestIds
  PROVE  /\ log \in Seq(Seq(LogEvents)) /\ log \in Seq(Seq(PlainEvents))
         /\ Story(r)
         /\ requests[r].carrier \in Users \cup {NoUser}
         /\ AcceptedIn(Entries(r))
              = (IF requests[r].carrier = NoUser THEN {} ELSE {requests[r].carrier})
<1>1. ChainInv /\ log \in Seq(Seq(LogEvents)) /\ log \in Seq(Seq(PlainEvents)) /\ Story(r)
  BY DEF TellingInv, RecordsInv, LedgerInv, StoryInv
<1>2. requests \in [RequestIds -> Requests]
  BY <1>1, StoryTypes
<1>3. requests[r].carrier \in Users \cup {NoUser}
  BY <1>2 DEF Requests
<1>4. AwardTold(r) /\ requests[r].carrier \in Parties
  BY <1>1, <1>3 DEF Story, Parties
<1>5. QED BY <1>1, <1>3, <1>4, AcceptedRead

(* The accepted carrier's chat.                                             *)
LEMMA AcceptedChatTells ==
  ASSUME TellingInv, NEW r \in RequestIds, NEW w \in Users, requests[r].carrier = w
  PROVE  ChatOfAccepted(r, Notices(r, w))
<1> DEFINE seen == Notices(r, w)
<1>1. /\ log \in Seq(Seq(LogEvents)) /\ log \in Seq(Seq(PlainEvents)) /\ Story(r)
      /\ AcceptedIn(Entries(r)) = {w}
  BY TellingFacts, AccountAssumption
<1>2. ASSUME NEW name \in {"RequestCompleted", "RefundIssued", "CarrierTipped"}
      PROVE  name \in NamesOf(seen) <=> Mentioned(log, NamedOf(r, name))
  <2>1. name \in EntryNames /\ name \notin ProposalNames /\ name # "MilestoneVerified"
    BY DEF EntryNames, EscrowNames, PaymentEvents, ProposalNames
  <2>2. QED BY <1>1, <2>1, NameIsShown
<1>3. /\ "RequestCompleted" \in NamesOf(seen) <=> requests[r].status = "Completed"
      /\ "RefundIssued" \in NamesOf(seen) <=> requests[r].status = "Refunded"
      /\ "CarrierTipped" \in NamesOf(seen) <=> tipAmounts[r] > 0
  BY <1>1, <1>2 DEF Story, OutcomeTold
<1>4. ASSUME NEW m \in MilestonesOf(r)
      PROVE  LET about == {p \in seen : EventAt(p).milestone = m} IN
             /\ Cardinality(Named(about, {"MilestonePaid"})) = (IF m \in PaidOf(r) THEN 1 ELSE 0)
             /\ milestones[r][m].status = "Submitted"
                  => EventAt(LatestOf(about)).name = "ProofSubmitted"
  <2> DEFINE about == {p \in seen : EventAt(p).milestone = m}
             paid == Named(about, {"MilestonePaid"})
  <2>1. m \in MilestoneIds /\ (m \in PaidOf(r) <=> milestones[r][m].status = "Paid")
    BY DEF MilestonesOf, PaidOf
  <2>2. MilestoneTold(r, m)
    BY <1>1, <2>1 DEF Story, WorkTold
  <2>3. paid = FoundIn(log, PaidFor(r, m)) /\ about = FoundIn(log, About(r, m))
    BY <1>1, <2>1, PaidIsShownOnce
  <2> HIDE DEF about, paid
  <2>4. Cardinality(paid) = (IF m \in PaidOf(r) THEN 1 ELSE 0)
    <3>1. CASE milestones[r][m].status = "Paid"
      <4>1. PICK p : paid = {p}
        BY <2>2, <2>3, <3>1 DEF MilestoneTold, Once
      <4>2. QED BY <2>1, <3>1, <4>1, FS_Singleton
    <3>2. CASE milestones[r][m].status # "Paid"
      <4>1. paid = {}
        BY <2>2, <2>3, <3>2 DEF MilestoneTold, Mentioned
      <4>2. QED BY <2>1, <3>2, <4>1, FS_EmptySet
    <3>3. QED BY <3>1, <3>2
  <2>5. ASSUME milestones[r][m].status = "Submitted"
        PROVE  EventAt(LatestOf(about)).name = "ProofSubmitted"
    <3>1. LastWord(log, About(r, m), Proving)
      BY <2>2, <2>5 DEF MilestoneTold
    <3>2. PICK names : names = {"ProofSubmitted"}
      OBVIOUS
    <3>3. Proving = {e \in LogEvents : e.name \in names}
      BY <3>2 DEF Proving
    <3>4. LastWord(log, About(r, m), Proving) <=>
            about # {} /\ EventAt(LatestOf(about)).name \in names
      BY <1>1, <2>3, <3>3, LatestName
    <3>5. QED BY <3>1, <3>2, <3>4
  <2>6. QED BY <2>4, <2>5 DEF about, paid
<1>5. LET talks == Named(seen, NegotiationNames)
      IN  activeNegotiation[r].kind # "None" <=>
            talks # {} /\ EventAt(LatestOf(talks)).name \in Actionable
  <2> DEFINE talks == Named(seen, NegotiationNames)
  <2>1. talks = FoundIn(log, Talks(r))
    BY <1>1, TalksAreShown
  <2>2. LastWord(log, Talks(r), Asking) <=> activeNegotiation[r].kind # "None"
    BY <1>1 DEF Story, TalkTold
  <2> HIDE DEF talks
  <2>3. LastWord(log, Talks(r), Asking) <=>
          talks # {} /\ EventAt(LatestOf(talks)).name \in Actionable
    BY <1>1, <2>1, LatestName DEF Asking
  <2>4. activeNegotiation[r].kind # "None" <=>
          talks # {} /\ EventAt(LatestOf(talks)).name \in Actionable
    BY <2>2, <2>3
  <2>5. QED BY <2>4 DEF talks
<1>6. QED
  <2> HIDE DEF seen
  <2>1. ChatOfAccepted(r, seen)
    BY <1>3, <1>4, <1>5 DEF ChatOfAccepted
  <2>2. QED BY <2>1 DEF seen

(* Any other carrier's.                                                     *)
LEMMA OtherChatTells ==
  ASSUME TellingInv, NEW r \in RequestIds, NEW w \in Users, requests[r].carrier # w
  PROVE  ChatOfOther(r, w, Notices(r, w))
<1> DEFINE seen == Notices(r, w)
           accepted == AcceptedIn(Entries(r))
<1>1. /\ log \in Seq(Seq(LogEvents)) /\ log \in Seq(Seq(PlainEvents)) /\ Story(r)
      /\ accepted = {} <=> requests[r].carrier = NoUser
      /\ accepted # {w}
  BY TellingFacts, AccountAssumption
<1>2. ASSUME NEW p \in seen
      PROVE  /\ EventAt(p) \in PlainEvents
             /\ \/ EventAt(p).name \in ProposalNames /\ EventAt(p).party = w
                \/ EventAt(p).name = "RequestCreated"
                \/ EventAt(p).name = "RequestCancelled" /\ requests[r].carrier = NoUser
  <2>1. p \in PlacesIn(log)
    BY NoticesArePlaces
  <2>2. EventAt(p) \in PlainEvents
    <3>1. p[1] \in 1 .. Len(log) /\ p[2] \in DOMAIN log[p[1]]
      BY <2>1, PlaceIs
    <3>2. log[p[1]] \in Seq(PlainEvents)
      BY <1>1, <3>1
    <3>3. log[p[1]][p[2]] \in PlainEvents
      BY <3>1, <3>2
    <3>4. QED BY <3>3, PlacesRead
  <2>3. QED BY <1>1, <2>1, <2>2, OtherSees
<1>3. \A p \in seen : EventAt(p).party \in {w, NoUser}
  BY <1>2 DEF PlainEvents
<1>4. NamesOf(seen) \subseteq
        {"RequestCreated"} \cup ProposalNames
          \cup (IF requests[r].carrier = NoUser THEN {"RequestCancelled"} ELSE {})
  BY <1>2 DEF NamesOf
<1>5. LET own == Named(seen, ProposalNames)
      IN  activeProposal[r][w] > 0 <=>
            own # {} /\ EventAt(LatestOf(own)).name = "MilestonePlanProposed"
  <2> DEFINE own == Named(seen, ProposalNames)
  <2>1. own = FoundIn(log, OwnOffers(r, w))
    BY <1>1, OffersAreShown
  <2>2. LastWord(log, OwnOffers(r, w), Offering) <=> activeProposal[r][w] > 0
    BY <1>1 DEF Story, OffersTold
  <2> HIDE DEF own
  <2>3. PICK names : names = {"MilestonePlanProposed"}
    OBVIOUS
  <2>4. Offering = {e \in LogEvents : e.name \in names}
    BY <2>3 DEF Offering
  <2>5. LastWord(log, OwnOffers(r, w), Offering) <=>
          own # {} /\ EventAt(LatestOf(own)).name \in names
    BY <1>1, <2>1, <2>4, LatestName
  <2>6. activeProposal[r][w] > 0 <=>
          own # {} /\ EventAt(LatestOf(own)).name = "MilestonePlanProposed"
    BY <2>2, <2>3, <2>5
  <2>7. QED BY <2>6 DEF own
<1>6. QED
  <2> HIDE DEF seen
  <2>1. ChatOfOther(r, w, seen)
    BY <1>3, <1>4, <1>5 DEF ChatOfOther
  <2>2. QED BY <2>1 DEF seen

(* The chat about a shipment tells the accepted carrier, and its shipper,   *)
(* how the shipment stands: its outcome, each milestone's payment once, the *)
(* proof that waits for a review, a proposed change exactly while it waits; *)
(* and any other carrier only of the request and of its own proposals       *)
(* (fetchRequestNotices in chatTimeline.js, filterRequestNoticesForCarrier).*)
THEOREM ChatsAlwaysTellTheStory == FairRecordsSpec => []EveryChatTellsItsStory
<1>1. TellingInv => EveryChatTellsItsStory
  <2> SUFFICES ASSUME TellingInv, NEW r \in RequestIds, NEW w \in Carriers
               PROVE  IF requests[r].carrier = w THEN ChatOfAccepted(r, Notices(r, w))
                      ELSE ChatOfOther(r, w, Notices(r, w))
    BY DEF EveryChatTellsItsStory
  <2>1. w \in Users
    BY RecordsAssumption
  <2>2. QED BY <2>1, AcceptedChatTells, OtherChatTells
<1>2. QED BY <1>1, TellingInvariant, PTL

-----------------------------------------------------------------------------
(* Part XII.  How a request ended: once, in the log and with the manager.   *)

EndNames == {"RequestCompleted", "RequestExpired", "RefundIssued"}
MoneyOf(q) == {e \in LogEvents : e.request = q /\ e.name \in PaymentEvents}
Expiries(q, w) == {e \in LogEvents : e.request = q /\ e.name = "RequestExpired" /\ e.party = w}

(* A shipment that is over was completed, expired, or ended by agreement;   *)
(* each is told at most once and to the carrier whose it is.                *)
EndLogged(q) ==
  /\ requests[q].status = "Completed" => Once(log, NamedOf(q, "RequestCompleted"))
  /\ Mentioned(log, MoneyOf(q)) => WasFunded(requests[q])
  /\ \A w \in Parties :
       Mentioned(log, Expiries(q, w)) <=>
         requests[q].status = "Refunded" /\ w = requests[q].carrier /\ Agreed(q) = {}

CountedInv == \A q \in RequestIds : AgreedOK(q) /\ EndLogged(q)

(* A step as the theorems before know it.                                   *)
Passing == TellingInv /\ TellingInv' /\ CountedInv /\ \A q \in RequestIds : Moves(q)

LEMMA MentionedStays ==
  ASSUME NEW l, NEW es, NEW l2, Grows(l, es, l2), NEW K, Mentioned(l, K)
  PROVE  Mentioned(l2, K)
BY FoundGrows DEF Mentioned

LEMMA TellingTold ==
  ASSUME TellingInv
  PROVE  /\ ChainInv /\ IInv /\ NegotiationInv
         /\ log \in Seq(Seq(LogEvents)) /\ requests \in [RequestIds -> Requests]
         /\ cancellationRequests \in [RequestIds -> Seq(Cancellations)]
         /\ \A q \in RequestIds : OutcomeTold(q)
         /\ Chronicle
<1>1. ChainInv /\ StoryInv /\ log \in Seq(Seq(LogEvents))
  BY DEF TellingInv, RecordsInv, LedgerInv
<1>2. IInv /\ NegotiationInv /\ requests \in [RequestIds -> Requests]
  BY <1>1, StoryTypes
<1>3. cancellationRequests \in [RequestIds -> Seq(Cancellations)]
  BY <1>2 DEF NegotiationInv, NegotiationTypes
<1>4. \A q \in RequestIds : OutcomeTold(q)
  BY <1>1 DEF StoryInv, Story
<1>5. QED BY <1>1, <1>2, <1>3, <1>4 DEF Chronicle

(* Whose a shipment is and how it ended do not change again.                *)
LEMMA EndsLast ==
  ASSUME Passing, NEW q \in RequestIds, NEW es, Grows(log, es, log') \/ log' = log
  PROVE  /\ requests[q].status = "Completed" => requests'[q].status = "Completed"
         /\ requests[q].status = "Refunded" => requests'[q].status = "Refunded"
         /\ WasFunded(requests[q]) => /\ WasFunded(requests'[q])
                                      /\ requests'[q].carrier = requests[q].carrier
                                      /\ requests'[q].shipper = requests[q].shipper
<1>1. OutcomeTold(q) /\ OutcomeTold(q)'
  <2>1. TellingInv /\ TellingInv'
    BY DEF Passing
  <2>2. OutcomeTold(q)
    BY <2>1, TellingTold
  <2>3. StoryInv'
    BY <2>1 DEF TellingInv
  <2>4. OutcomeTold(q)'
    BY <2>3 DEF StoryInv, Story
  <2>5. QED BY <2>2, <2>4
<1>2. \A K : Mentioned(log, K) => Mentioned(log', K)
  BY MentionedStays
<1>3. /\ requests[q].status = "Completed" => requests'[q].status = "Completed"
      /\ requests[q].status = "Refunded" => requests'[q].status = "Refunded"
  <2>1. /\ requests[q].status = "Completed" <=> Mentioned(log, NamedOf(q, "RequestCompleted"))
        /\ requests[q].status = "Refunded" <=> Mentioned(log, NamedOf(q, "RefundIssued"))
    BY <1>1 DEF OutcomeTold
  <2>2. /\ requests'[q].status = "Completed" <=> Mentioned(log', NamedOf(q, "RequestCompleted"))
        /\ requests'[q].status = "Refunded" <=> Mentioned(log', NamedOf(q, "RefundIssued"))
    BY <1>1 DEF OutcomeTold
  <2>3. QED BY <2>1, <2>2, <1>2
<1>4. Moves(q)
  BY DEF Passing
<1>5. QED BY <1>3, <1>4 DEF Moves, Steady

(* What says nothing of an end does not end anything.                       *)
LEMMA NoEndSaid ==
  ASSUME Passing, NEW q \in RequestIds, NEW es, Grows(log, es, log')
  PROVE  /\ Mute(es, NamedOf(q, "RefundIssued")) =>
              (requests'[q].status = "Refunded" <=> requests[q].status = "Refunded")
         /\ Mute(es, NamedOf(q, "RequestCompleted")) =>
              (requests'[q].status = "Completed" <=> requests[q].status = "Completed")
         /\ Has(es, NamedOf(q, "RefundIssued")) => requests'[q].status = "Refunded"
<1>1. TellingInv /\ StoryInv'
  BY DEF Passing, TellingInv
<1>2. OutcomeTold(q) /\ OutcomeTold(q)'
  <2>1. OutcomeTold(q)
    BY <1>1, TellingTold
  <2>2. OutcomeTold(q)'
    BY <1>1 DEF StoryInv, Story
  <2>3. QED BY <2>1, <2>2
<1>3. /\ requests[q].status = "Completed" <=> Mentioned(log, NamedOf(q, "RequestCompleted"))
      /\ requests[q].status = "Refunded" <=> Mentioned(log, NamedOf(q, "RefundIssued"))
  BY <1>2 DEF OutcomeTold
<1>4. /\ requests'[q].status = "Completed" <=> Mentioned(log', NamedOf(q, "RequestCompleted"))
      /\ requests'[q].status = "Refunded" <=> Mentioned(log', NamedOf(q, "RefundIssued"))
  BY <1>2 DEF OutcomeTold
<1>5. QED BY <1>3, <1>4, MuteKeeps, HasIsMentioned

(* What happens to the log's word about an end.                             *)
LEMMA EndLoggedKept ==
  ASSUME Passing, NEW q \in RequestIds, NEW es, Grows(log, es, log'), NothingOf(es, q, EndNames),
         NothingOf(es, q, PaymentEvents) \/ WasFunded(requests'[q]), Agreed(q)' = Agreed(q)
  PROVE  EndLogged(q)'
<1>1. /\ Mute(es, NamedOf(q, "RequestCompleted")) /\ Mute(es, NamedOf(q, "RefundIssued"))
      /\ \A w : Mute(es, Expiries(q, w))
  <2>1. /\ \A e \in NamedOf(q, "RequestCompleted") : e.request = q /\ e.name \in EndNames
        /\ \A e \in NamedOf(q, "RefundIssued") : e.request = q /\ e.name \in EndNames
        /\ \A w : \A e \in Expiries(q, w) : e.request = q /\ e.name \in EndNames
    BY DEF NamedOf, Expiries, EndNames
  <2>2. QED BY <2>1, NothingIsMute
<1>2. EndLogged(q)
  BY DEF Passing, CountedInv
<1>3. /\ requests'[q].status = "Completed" <=> requests[q].status = "Completed"
      /\ requests'[q].status = "Refunded" <=> requests[q].status = "Refunded"
  BY <1>1, NoEndSaid
<1>4. requests'[q].status = "Completed" => Once(log', NamedOf(q, "RequestCompleted"))
  BY <1>1, <1>2, <1>3, MuteKeeps DEF EndLogged
<1>5. Mentioned(log', MoneyOf(q)) => WasFunded(requests'[q])
  <2>1. CASE NothingOf(es, q, PaymentEvents)
    <3>1. \A e \in MoneyOf(q) : e.request = q /\ e.name \in PaymentEvents
      BY DEF MoneyOf
    <3>2. Mute(es, MoneyOf(q))
      BY <2>1, <3>1, NothingIsMute
    <3>3. Mentioned(log', MoneyOf(q)) => Mentioned(log, MoneyOf(q))
      BY <3>2, MuteKeeps
    <3>4. QED BY <3>3, <1>2, EndsLast DEF EndLogged
  <2>2. QED BY <2>1
<1>6. ASSUME NEW w \in Parties
      PROVE  Mentioned(log', Expiries(q, w)) <=>
               requests'[q].status = "Refunded" /\ w = requests'[q].carrier /\ Agreed(q)' = {}
  <2>1. Mentioned(log', Expiries(q, w)) <=> Mentioned(log, Expiries(q, w))
    BY <1>1, MuteKeeps
  <2>2. Mentioned(log, Expiries(q, w)) <=>
          requests[q].status = "Refunded" /\ w = requests[q].carrier /\ Agreed(q) = {}
    BY <1>2 DEF EndLogged
  <2>3. requests[q].status = "Refunded" => requests'[q].carrier = requests[q].carrier
    BY EndsLast DEF WasFunded
  <2>4. QED BY <2>1, <2>2, <2>3, <1>3
<1>7. QED BY <1>4, <1>5, <1>6 DEF EndLogged

LEMMA CompletionLogged ==
  ASSUME Passing, NEW r \in RequestIds, requests[r].status # "Completed", WasFunded(requests[r]),
         NEW es, Grows(log, es, log'), NEW i \in DOMAIN es, es[i] \in NamedOf(r, "RequestCompleted"),
         \A j \in DOMAIN es : j # i => es[j] \notin NamedOf(r, "RequestCompleted"),
         NothingOf(es, r, {"RequestExpired", "RefundIssued"}), Agreed(r)' = Agreed(r)
  PROVE  EndLogged(r)'
<1>1. /\ Mute(es, NamedOf(r, "RefundIssued")) /\ \A w : Mute(es, Expiries(r, w))
  <2>1. /\ \A e \in NamedOf(r, "RefundIssued") :
             e.request = r /\ e.name \in {"RequestExpired", "RefundIssued"}
        /\ \A w : \A e \in Expiries(r, w) :
             e.request = r /\ e.name \in {"RequestExpired", "RefundIssued"}
    BY DEF NamedOf, Expiries
  <2>2. QED BY <2>1, NothingIsMute
<1>2. EndLogged(r)
  BY DEF Passing, CountedInv
<1>3. ~Mentioned(log, NamedOf(r, "RequestCompleted"))
  <2>1. OutcomeTold(r)
    BY TellingTold DEF Passing
  <2>2. QED BY <2>1 DEF OutcomeTold
<1>4. Once(log', NamedOf(r, "RequestCompleted"))
  BY <1>3, OneWord
<1>5. WasFunded(requests'[r]) /\ requests'[r].carrier = requests[r].carrier
  BY EndsLast
<1>6. requests'[r].status = "Refunded" <=> requests[r].status = "Refunded"
  BY <1>1, NoEndSaid
<1>7. ASSUME NEW w \in Parties
      PROVE  Mentioned(log', Expiries(r, w)) <=>
               requests'[r].status = "Refunded" /\ w = requests'[r].carrier /\ Agreed(r)' = {}
  <2>1. Mentioned(log', Expiries(r, w)) <=> Mentioned(log, Expiries(r, w))
    BY <1>1, MuteKeeps
  <2>2. Mentioned(log, Expiries(r, w)) <=>
          requests[r].status = "Refunded" /\ w = requests[r].carrier /\ Agreed(r) = {}
    BY <1>2 DEF EndLogged
  <2>3. QED BY <2>1, <2>2, <1>5, <1>6
<1>8. QED BY <1>4, <1>5, <1>7 DEF EndLogged

(* A refund: of an overdue shipment, or by agreement.                       *)
LEMMA RefundLogged ==
  ASSUME Passing, NEW r \in RequestIds, Running(requests[r]),
         NEW es, Grows(log, es, log'), NothingOf(es, r, {"RequestCompleted"}),
         Has(es, NamedOf(r, "RefundIssued")),
         \/ /\ Agreed(r)' = Agreed(r) /\ Has(es, Expiries(r, requests[r].carrier))
            /\ \A w : w # requests[r].carrier => Mute(es, Expiries(r, w))
         \/ /\ Agreed(r)' # {} /\ NothingOf(es, r, {"RequestExpired"})
  PROVE  EndLogged(r)'
<1>1. EndLogged(r) /\ AgreedOK(r)
  BY DEF Passing, CountedInv
<1>2. requests'[r].status = "Refunded"
  BY NoEndSaid
<1>3. WasFunded(requests[r]) /\ requests[r].status \notin {"Refunded", "Completed"}
  BY DEF Running, WasFunded
<1>4. WasFunded(requests'[r]) /\ requests'[r].carrier = requests[r].carrier
  BY <1>3, EndsLast
<1>5. Agreed(r) = {} /\ \A w \in Parties : ~Mentioned(log, Expiries(r, w))
  BY <1>1, <1>3 DEF AgreedOK, EndLogged
<1>6. ASSUME NEW w \in Parties
      PROVE  Mentioned(log', Expiries(r, w)) <=> w = requests'[r].carrier /\ Agreed(r)' = {}
  <2>1. CASE Agreed(r)' # {} /\ NothingOf(es, r, {"RequestExpired"})
    <3>1. \A e \in Expiries(r, w) : e.request = r /\ e.name \in {"RequestExpired"}
      BY DEF Expiries
    <3>2. Mute(es, Expiries(r, w))
      BY <2>1, <3>1, NothingIsMute
    <3>3. QED BY <2>1, <3>2, <1>5, MuteKeeps
  <2>2. CASE /\ Agreed(r)' = Agreed(r) /\ Has(es, Expiries(r, requests[r].carrier))
             /\ \A v : v # requests[r].carrier => Mute(es, Expiries(r, v))
    <3>1. CASE w = requests[r].carrier
      BY <3>1, <2>2, <1>4, <1>5, HasIsMentioned
    <3>2. CASE w # requests[r].carrier
      <4>1. Mute(es, Expiries(r, w))
        BY <2>2, <3>2
      <4>2. QED BY <3>2, <4>1, <1>4, <1>5, MuteKeeps
    <3>3. QED BY <3>1, <3>2
  <2>3. QED BY <2>1, <2>2
<1>7. QED BY <1>2, <1>4, <1>6 DEF EndLogged

LEMMA AgreedStays ==
  ASSUME Passing, NEW q \in RequestIds, NEW es, Grows(log, es, log') \/ log' = log, Bargained(q)
  PROVE  AgreedOK(q)' /\ Agreed(q)' = Agreed(q)
<1> DEFINE list == cancellationRequests[q]
           list2 == cancellationRequests'[q]
<1>1. AgreedOK(q) /\ list \in Seq(Cancellations)
  BY TellingTold DEF Passing, CountedInv
<1>2. /\ requests[q].status = "Refunded" => requests'[q].status = "Refunded"
      /\ WasFunded(requests[q]) => /\ WasFunded(requests'[q])
                                   /\ Participants(q)' = Participants(q)
  BY EndsLast DEF Participants
<1>3. CASE list2 = list
  <2>1. Agreed(q)' = Agreed(q)
    BY <1>3 DEF Agreed
  <2>2. QED BY <1>1, <1>2, <1>3, <2>1 DEF AgreedOK
<1>4. ASSUME Len(list) < MaxNegotiations, WasFunded(requests[q]),
             NEW new \in Cancellations, new.status = "Pending", new.requester \in Participants(q),
             list2 = Append(list, new)
      PROVE  AgreedOK(q)' /\ Agreed(q)' = Agreed(q)
  <2>1. /\ Len(list2) = Len(list) + 1 /\ list2[Len(list) + 1] = new
        /\ DOMAIN list2 = DOMAIN list \cup {Len(list) + 1}
        /\ \A c \in DOMAIN list : list2[c] = list[c] /\ c # Len(list) + 1
    BY <1>1, <1>4
  <2>2. Agreed(q)' = Agreed(q)
    BY <2>1, <1>4 DEF Agreed
  <2>3. Len(list2) <= MaxNegotiations
    BY <2>1, <1>4, <1>1, NegotiationAssumption
  <2>4. \A c \in DOMAIN list2 : WasFunded(requests'[q]) /\ list2[c].requester \in Participants(q)'
    BY <2>1, <1>4, <1>2, <1>1 DEF AgreedOK
  <2>5. QED BY <1>1, <1>2, <2>2, <2>3, <2>4 DEF AgreedOK
<1>5. ASSUME NEW c \in DOMAIN list, NEW outcome \in AmendmentStatus \ {"Accepted"},
             list[c].status = "Pending", list2 = [list EXCEPT ![c].status = outcome]
      PROVE  AgreedOK(q)' /\ Agreed(q)' = Agreed(q)
  <2>1. /\ Len(list2) = Len(list) /\ DOMAIN list2 = DOMAIN list
        /\ \A d \in DOMAIN list : /\ list2[d].requester = list[d].requester
                                  /\ d # c => list2[d] = list[d]
        /\ list2[c].status = outcome
    BY <1>1, <1>5 DEF Cancellations
  <2>2. Agreed(q)' = Agreed(q)
    BY <2>1, <1>5 DEF Agreed
  <2>3. QED BY <1>1, <1>2, <2>1, <2>2 DEF AgreedOK
<1>6. QED BY <1>3, <1>4, <1>5 DEF Bargained

LEMMA AgreedNow ==
  ASSUME Passing, NEW r \in RequestIds, NEW es, Grows(log, es, log'), Running(requests[r]),
         requests'[r].status = "Refunded", NEW c \in DOMAIN cancellationRequests[r],
         cancellationRequests'[r] = [cancellationRequests[r] EXCEPT ![c].status = "Accepted"]
  PROVE  AgreedOK(r)' /\ Agreed(r)' # {}
<1> DEFINE list == cancellationRequests[r]
           list2 == cancellationRequests'[r]
<1>1. AgreedOK(r) /\ list \in Seq(Cancellations)
  BY TellingTold DEF Passing, CountedInv
<1>2. WasFunded(requests[r]) => WasFunded(requests'[r]) /\ Participants(r)' = Participants(r)
  BY EndsLast DEF Participants
<1>3. Agreed(r) = {}
  BY <1>1 DEF AgreedOK, Running
<1>4. /\ Len(list2) = Len(list) /\ DOMAIN list2 = DOMAIN list
      /\ \A d \in DOMAIN list : /\ list2[d].requester = list[d].requester
                                /\ d # c => list2[d] = list[d]
      /\ list2[c].status = "Accepted"
  BY <1>1 DEF Cancellations
<1>5. Agreed(r)' = {c}
  BY <1>3, <1>4 DEF Agreed
<1>6. QED BY <1>1, <1>2, <1>4, <1>5 DEF AgreedOK

LEMMA OthersCounted ==
  ASSUME Passing, NEW r \in RequestIds, NEW names, NEW es \in Seq(Sayings(r, names)),
         log' = Append(log, es), OthersBargain(r)
  PROVE  /\ Grows(log, es, log')
         /\ \A q \in RequestIds : q # r => AgreedOK(q)' /\ EndLogged(q)'
<1>1. Grows(log, es, log')
  BY TellingTold, SayingsAre DEF Passing, Grows
<1>2. ASSUME NEW q \in RequestIds, q # r PROVE AgreedOK(q)' /\ EndLogged(q)'
  <2>1. Bargained(q)
    BY <1>2 DEF Bargained, OthersBargain
  <2>2. AgreedOK(q)' /\ Agreed(q)' = Agreed(q)
    BY <1>1, <2>1, AgreedStays
  <2>3. NothingOf(es, q, EndNames) /\ NothingOf(es, q, PaymentEvents)
    BY <1>2, SayingsAre
  <2>4. EndLogged(q)'
    BY <1>1, <2>2, <2>3, EndLoggedKept
  <2>5. QED BY <2>2, <2>4
<1>3. QED BY <1>1, <1>2

(* ... and one that ends nothing leaves all counts as they are.             *)
LEMMA AsideCounted ==
  ASSUME Passing, NEW r \in RequestIds, NEW names, NEW es \in Seq(Sayings(r, names)),
         log' = Append(log, es), OthersBargain(r), Bargained(r), names \cap EndNames = {},
         names \cap PaymentEvents = {} \/ WasFunded(requests[r]) \/ WasFunded(requests'[r])
  PROVE  CountedInv'
<1>1. /\ Grows(log, es, log')
      /\ \A q \in RequestIds : q # r => AgreedOK(q)' /\ EndLogged(q)'
  BY OthersCounted
<1>2. AgreedOK(r)' /\ Agreed(r)' = Agreed(r)
  BY <1>1, AgreedStays
<1>3. NothingOf(es, r, EndNames)
  BY SayingsAre
<1>4. NothingOf(es, r, PaymentEvents) \/ WasFunded(requests'[r])
  BY <1>1, SayingsAre, EndsLast
<1>5. EndLogged(r)'
  BY <1>1, <1>2, <1>3, <1>4, EndLoggedKept
<1>6. QED BY <1>1, <1>2, <1>5 DEF CountedInv

LEMMA OneAside ==
  ASSUME Passing, NEW r \in RequestIds, NEW name, name \notin EndNames,
         NEW e \in Sayings(r, {name}), Emit(<<e>>) \/ EmitEnd(<<e>>),
         name \notin PaymentEvents \/ WasFunded(requests[r]), OthersBargain(r), Bargained(r)
  PROVE  CountedInv'
<1>1. PICK names, es : names = {name} /\ es = <<e>>
  OBVIOUS
<1>2. es \in Seq(Sayings(r, names)) /\ log' = Append(log, es)
  BY <1>1, Said, EmitAppends
<1>3. names \cap EndNames = {} /\ (names \cap PaymentEvents = {} \/ WasFunded(requests[r]))
  BY <1>1
<1>4. QED BY <1>2, <1>3, AsideCounted

LEMMA CreationCounted ==
  ASSUME Passing, UNCHANGED negotiationVars, NEW u \in Users, NEW deadline, NEW amount,
         CreateRequest(u, deadline, amount), Emit(<<Event(nextRequestId, "RequestCreated")>>)
  PROVE  CountedInv'
<1>1. PICK r \in RequestIds : r = nextRequestId
  <2>1. IInv
    BY TellingTold DEF Passing
  <2>2. nextRequestId \in 1 .. MaxRequests + 1 /\ nextRequestId <= MaxRequests
    BY <2>1 DEF IInv, MarketOK, CreateRequest
  <2>3. QED BY <2>2, NumberAssumption DEF RequestIds
<1>2. OthersBargain(r) /\ Bargained(r)
  BY NobodyBargains DEF negotiationVars
<1>3. "RequestCreated" \in EventNames /\ NoUser \in Parties /\ 0 \in Nat /\ 0 \in Int
  BY DEF EventNames, QuietNames, Parties
<1>4. Event(r, "RequestCreated") \in Sayings(r, {"RequestCreated"})
  BY <1>3, EventsSaid
<1>5. "RequestCreated" \notin EndNames /\ "RequestCreated" \notin PaymentEvents
  BY DEF EndNames, PaymentEvents
<1>6. QED BY <1>1, <1>2, <1>4, <1>5, OneAside

LEMMA OffersCounted ==
  ASSUME Passing, NEW r \in RequestIds, UNCHANGED negotiationVars,
         \/ \E u \in Carriers :
              \/ \E plan \in Plans :
                   ProposeMilestones(u, r, plan) /\ Emit(<<Of(r, "MilestonePlanProposed", u)>>)
              \/ RevokeMilestoneProposal(u, r) /\ Emit(<<Of(r, "MilestonePlanRevoked", u)>>)
         \/ \E p \in 1 .. MaxProposals :
              RejectMilestoneProposal(r, p)
                /\ Emit(<<Of(r, "MilestonePlanRejected", proposals[r][p].carrier)>>)
         \/ CancelRequest(r) /\ Emit(<<Event(r, "RequestCancelled")>>)
  PROVE  CountedInv'
<1>1. OthersBargain(r) /\ Bargained(r)
  BY NobodyBargains DEF negotiationVars
<1>2. /\ "MilestonePlanProposed" \in EventNames /\ "MilestonePlanRevoked" \in EventNames
      /\ "MilestonePlanRejected" \in EventNames /\ "RequestCancelled" \in EventNames
      /\ NoUser \in Parties /\ 0 \in Nat /\ 0 \in Int
  BY DEF EventNames, QuietNames, Parties
<1>3. ASSUME NEW name \in {"MilestonePlanProposed", "MilestonePlanRevoked", "MilestonePlanRejected"},
             NEW w \in Users, Emit(<<Of(r, name, w)>>)
      PROVE  CountedInv'
  <2>1. PICK u \in Parties : u = w
    BY DEF Parties
  <2>2. Of(r, name, u) \in Sayings(r, {name})
    BY <1>2, <1>3, EventsSaid
  <2>3. name \notin EndNames /\ name \notin PaymentEvents
    BY <1>3 DEF EndNames, PaymentEvents
  <2>4. QED BY <1>1, <1>3, <2>1, <2>2, <2>3, OneAside
<1>4. CASE CancelRequest(r) /\ Emit(<<Event(r, "RequestCancelled")>>)
  <2>1. Event(r, "RequestCancelled") \in Sayings(r, {"RequestCancelled"})
    BY <1>2, EventsSaid
  <2>2. "RequestCancelled" \notin EndNames /\ "RequestCancelled" \notin PaymentEvents
    BY DEF EndNames, PaymentEvents
  <2>3. QED BY <1>1, <1>4, <2>1, <2>2, OneAside
<1>5. ASSUME NEW u \in Carriers, NEW name \in {"MilestonePlanProposed", "MilestonePlanRevoked"},
             Emit(<<Of(r, name, u)>>)
      PROVE  CountedInv'
  <2>1. PICK w \in Users : w = u
    BY RecordsAssumption
  <2>2. QED BY <1>3, <1>5, <2>1
<1>6. ASSUME NEW p \in 1 .. MaxProposals, RejectMilestoneProposal(r, p),
             Emit(<<Of(r, "MilestonePlanRejected", proposals[r][p].carrier)>>)
      PROVE  CountedInv'
  <2>1. proposals[r] \in Seq(Proposals)
    BY TellingTold, MarketTypes DEF Passing
  <2>2. p \in DOMAIN proposals[r]
    BY <1>6 DEF RejectMilestoneProposal
  <2>3. proposals[r][p] \in Proposals
    BY ONLY <2>1, <2>2
  <2>4. PICK w \in Users : w = proposals[r][p].carrier
    BY <2>3 DEF Proposals
  <2>5. PICK name : name = "MilestonePlanRejected"
    OBVIOUS
  <2>6. QED BY <1>3, <1>6, <2>4, <2>5
<1>7. QED BY <1>4, <1>5, <1>6

LEMMA WordsCounted ==
  ASSUME Passing, NEW r \in RequestIds, UNCHANGED cancellationRequests, NEW m \in MilestoneIds,
         NEW amount \in Nat,
         \/ WithdrawProof(r, m) /\ Emit(<<Step(r, "ProofWithdrawn", m)>>)
         \/ /\ TipCarrier(r, amount)
            /\ Emit(<<Money(r, "CarrierTipped", requests[r].carrier, amount)>>)
         \/ /\ TopUpOperationalAllowance(r, amount)
            /\ Emit(<<Money(r, "OperationalAllowanceFunded", Escrow, amount)>>)
         \/ Emit(<<Event(r, "ShipmentDeadlineExtended")>>)
  PROVE  CountedInv'
<1>1. OthersBargain(r) /\ Bargained(r)
  BY NobodyBargains
<1>2. /\ "ProofWithdrawn" \in EventNames /\ "CarrierTipped" \in EventNames
      /\ "OperationalAllowanceFunded" \in EventNames /\ "ShipmentDeadlineExtended" \in EventNames
      /\ "ProofWithdrawn" \in WorkNames
      /\ Escrow \in Parties /\ NoUser \in Parties /\ 0 \in Nat /\ 0 \in Int /\ m \in Int
  BY DEF EventNames, QuietNames, PaymentEvents, WorkNames, Parties, MilestoneIds
<1>3. {"ProofWithdrawn", "CarrierTipped", "OperationalAllowanceFunded", "ShipmentDeadlineExtended"}
        \cap EndNames = {}
  BY DEF EndNames
<1>4. "ProofWithdrawn" \notin PaymentEvents /\ "ShipmentDeadlineExtended" \notin PaymentEvents
  BY DEF PaymentEvents
<1>5. CASE Emit(<<Step(r, "ProofWithdrawn", m)>>)
  <2>1. Step(r, "ProofWithdrawn", m) \in Sayings(r, {"ProofWithdrawn"})
    BY <1>2, EventsSaid
  <2>2. QED BY <1>1, <1>3, <1>4, <1>5, <2>1, OneAside
<1>6. CASE TipCarrier(r, amount) /\ Emit(<<Money(r, "CarrierTipped", requests[r].carrier, amount)>>)
  <2>1. WasFunded(requests[r])
    BY <1>6 DEF TipCarrier, WasFunded
  <2>2. requests[r] \in Requests
    BY TellingTold DEF Passing
  <2>3. PICK c \in Parties : c = requests[r].carrier
    BY <2>2 DEF Requests, Parties
  <2>4. Money(r, "CarrierTipped", c, amount) \in Sayings(r, {"CarrierTipped"})
    BY <1>2, EventsSaid
  <2>5. QED BY <1>1, <1>3, <1>6, <2>1, <2>3, <2>4, OneAside
<1>7. CASE /\ TopUpOperationalAllowance(r, amount)
           /\ Emit(<<Money(r, "OperationalAllowanceFunded", Escrow, amount)>>)
  <2>1. WasFunded(requests[r])
    BY <1>7 DEF TopUpOperationalAllowance, Active, WasFunded
  <2>2. PICK c \in Parties : c = Escrow
    BY <1>2
  <2>3. Money(r, "OperationalAllowanceFunded", c, amount) \in Sayings(r, {"OperationalAllowanceFunded"})
    BY <1>2, EventsSaid
  <2>4. QED BY <1>1, <1>3, <1>7, <2>1, <2>2, <2>3, OneAside
<1>8. CASE Emit(<<Event(r, "ShipmentDeadlineExtended")>>)
  <2>1. Event(r, "ShipmentDeadlineExtended") \in Sayings(r, {"ShipmentDeadlineExtended"})
    BY <1>2, EventsSaid
  <2>2. QED BY <1>1, <1>3, <1>4, <1>8, <2>1, OneAside
<1>9. QED BY <1>5, <1>6, <1>7, <1>8

LEMMA FundCounted ==
  ASSUME Passing, NEW r \in RequestIds, UNCHANGED negotiationVars, NEW p \in DOMAIN proposals[r],
         NEW price, NEW allowance \in Nat, ApproveAndFund(r, p, price, allowance),
         Emit(<<Of(r, "MilestonePlanAccepted", proposals[r][p].carrier),
                Money(r, "EscrowFunded", Escrow, requests[r].proposedAmount),
                Money(r, "OperationalAllowanceFunded", Escrow, allowance)>>)
  PROVE  CountedInv'
<1>1. IInv /\ requests \in [RequestIds -> Requests]
  BY TellingTold DEF Passing
<1>2. proposals[r][p] \in Proposals
  <2>1. proposals[r] \in Seq(Proposals)
    BY <1>1, MarketTypes
  <2>2. QED BY ONLY <2>1, p \in DOMAIN proposals[r]
<1>3. PICK c \in Parties : c = proposals[r][p].carrier
  BY <1>2 DEF Proposals, Parties
<1>4. PICK amount \in Nat : amount = requests[r].proposedAmount
  BY <1>1, Figures DEF Requests
<1>5. WasFunded(requests'[r])
  <2>1. \E cap, who, total : requests' = [requests EXCEPT ![r].carrier = who, ![r].totalAmount = total,
                                              ![r].status = "Funded",
                                              ![r].operationalAllowance = allowance,
                                              ![r].gasPriceCap = cap]
    BY DEF ApproveAndFund
  <2>2. QED BY <1>1, <2>1 DEF Requests, WasFunded
<1>6. OthersBargain(r) /\ Bargained(r)
  BY NobodyBargains DEF negotiationVars
<1>7. /\ "MilestonePlanAccepted" \in EventNames /\ "EscrowFunded" \in EventNames
      /\ "OperationalAllowanceFunded" \in EventNames /\ Escrow \in Parties /\ 0 \in Nat /\ 0 \in Int
  BY DEF EventNames, QuietNames, PaymentEvents, Parties
<1>8. PICK names : names = {"MilestonePlanAccepted", "EscrowFunded", "OperationalAllowanceFunded"}
  OBVIOUS
<1>9. PICK x, y, z : /\ x = Of(r, "MilestonePlanAccepted", c) /\ y = Money(r, "EscrowFunded", Escrow, amount)
                     /\ z = Money(r, "OperationalAllowanceFunded", Escrow, allowance)
  OBVIOUS
<1>10. x \in Sayings(r, names) /\ y \in Sayings(r, names) /\ z \in Sayings(r, names)
  <2>1. /\ x \in Sayings(r, {"MilestonePlanAccepted"}) /\ y \in Sayings(r, {"EscrowFunded"})
        /\ z \in Sayings(r, {"OperationalAllowanceFunded"})
    BY <1>7, <1>9, EventsSaid
  <2>2. QED BY <1>8, <2>1 DEF Sayings
<1>11. PICK es : es = <<x, y, z>>
  OBVIOUS
<1>12. es \in Seq(Sayings(r, names))
  <2>1. PICK S : S = Sayings(r, names)
    OBVIOUS
  <2>2. x \in S /\ y \in S /\ z \in S
    BY <1>10, <2>1
  <2>3. es \in Seq(S)
    BY ONLY <1>11, <2>2
  <2>4. QED BY <2>1, <2>3
<1>13. log' = Append(log, es)
  BY <1>3, <1>4, <1>9, <1>11, EmitAppends
<1>14. names \cap EndNames = {}
  BY <1>8 DEF EndNames
<1>15. QED BY <1>5, <1>6, <1>12, <1>13, <1>14, AsideCounted

LEMMA SubmissionCounted ==
  ASSUME Passing, NEW r \in RequestIds, UNCHANGED negotiationVars, NEW m \in MilestoneIds,
         NEW uri, NEW gas \in Nat, NEW price \in Nat, SubmitProof(r, m, uri, gas, price),
         Emit(IfAny(Money(r, "OperationalAllowanceReimbursed", requests[r].carrier, Reimbursed(r)))
                \o <<Step(r, "ProofSubmitted", m)>>)
  PROVE  CountedInv'
<1>1. ChainInv /\ requests \in [RequestIds -> Requests] /\ m \in Int
  BY TellingTold DEF Passing, MilestoneIds
<1>2. Reimbursed(r) \in Nat
  BY <1>1, SubmitMoves
<1>3. WasFunded(requests[r])
  BY DEF SubmitProof, Active, WasFunded
<1>4. OthersBargain(r) /\ Bargained(r)
  BY NobodyBargains DEF negotiationVars
<1>5. PICK carrier \in Parties : carrier = requests[r].carrier
  BY <1>1 DEF Requests, Parties
<1>6. PICK paid \in Nat : paid = Reimbursed(r)
  BY <1>2
<1>7. PICK a, e, es : /\ a = IfAny(Money(r, "OperationalAllowanceReimbursed", carrier, paid))
                      /\ e = Step(r, "ProofSubmitted", m) /\ es = a \o <<e>>
  OBVIOUS
<1>8. log' = Append(log, es)
  BY <1>5, <1>6, <1>7, EmitAppends
<1>9. /\ "OperationalAllowanceReimbursed" \in EventNames /\ "ProofSubmitted" \in EventNames
      /\ "ProofSubmitted" \in WorkNames /\ NoUser \in Parties /\ 0 \in Nat
  BY DEF EventNames, QuietNames, PaymentEvents, WorkNames, AboutNames, Parties
<1>10. PICK one, two, names : /\ one = {"OperationalAllowanceReimbursed"} /\ two = {"ProofSubmitted"}
                              /\ names = one \cup two
  OBVIOUS
<1>11. a \in Seq(Sayings(r, one))
  BY <1>1, <1>7, <1>9, <1>10, EventsSaid
<1>12. e \in Sayings(r, two)
  BY <1>1, <1>7, <1>9, <1>10, EventsSaid
<1>13. <<e>> \in Seq(Sayings(r, two))
  BY <1>12, Said
<1>14. es \in Seq(Sayings(r, names))
  <2>1. es \in Seq(Sayings(r, one \cup two))
    <3>1. es = a \o <<e>>
      BY <1>7
    <3>2. QED BY <1>11, <1>13, <3>1, Said
  <2>2. QED BY <1>10, <2>1
<1>15. names \cap EndNames = {}
  BY <1>10 DEF EndNames
<1>16. QED BY <1>3, <1>4, <1>8, <1>14, <1>15, AsideCounted

LEMMA RejectionCounted ==
  ASSUME Passing, NEW r \in RequestIds, UNCHANGED negotiationVars, NEW m \in MilestoneIds,
         Emit(<<[Step(r, "MilestoneVerified", m) EXCEPT !.approved = FALSE],
                Step(r, "MilestoneRejected", m)>>)
  PROVE  CountedInv'
<1>1. m \in Int
  BY DEF MilestoneIds
<1>2. OthersBargain(r) /\ Bargained(r)
  BY NobodyBargains DEF negotiationVars
<1>3. PICK names : names = {"MilestoneVerified", "MilestoneRejected"}
  OBVIOUS
<1>4. PICK a, b : /\ a = [Step(r, "MilestoneVerified", m) EXCEPT !.approved = FALSE]
                  /\ b = Step(r, "MilestoneRejected", m)
  OBVIOUS
<1>5. a \in Sayings(r, names) /\ b \in Sayings(r, names)
  <2>1. /\ "MilestoneVerified" \in EventNames /\ "MilestoneRejected" \in EventNames
        /\ "MilestoneVerified" \in WorkNames /\ "MilestoneRejected" \in WorkNames
        /\ NoUser \in Parties /\ 0 \in Nat
    BY DEF EventNames, QuietNames, WorkNames, AboutNames, Parties
  <2>2. PICK c : c = Step(r, "MilestoneVerified", m)
    OBVIOUS
  <2>3. c \in Sayings(r, {"MilestoneVerified"})
    BY <1>1, <2>1, <2>2, EventsSaid
  <2>4. a = [c EXCEPT !.approved = FALSE]
    BY <1>4, <2>2
  <2>5. a \in Sayings(r, {"MilestoneVerified"})
    BY <2>3, <2>4, StepChanged
  <2>6. b \in Sayings(r, {"MilestoneRejected"})
    BY <1>1, <1>4, <2>1, EventsSaid
  <2>7. QED BY <1>3, <2>5, <2>6 DEF Sayings
<1>6. PICK es : es = <<a, b>>
  OBVIOUS
<1>7. es \in Seq(Sayings(r, names))
  <2>1. PICK S : S = Sayings(r, names)
    OBVIOUS
  <2>2. a \in S /\ b \in S
    BY <1>5, <2>1
  <2>3. es \in Seq(S)
    BY ONLY <1>6, <2>2
  <2>4. QED BY <2>1, <2>3
<1>8. log' = Append(log, es)
  BY <1>4, <1>6, EmitAppends
<1>9. names \cap EndNames = {} /\ names \cap PaymentEvents = {}
  BY <1>3 DEF EndNames, PaymentEvents
<1>10. QED BY <1>2, <1>7, <1>8, <1>9, AsideCounted

(* The completion of a request is told once, in the block of the payment.   *)
LEMMA ApprovalCounted ==
  ASSUME Passing, NEW r \in RequestIds, UNCHANGED negotiationVars, NEW m \in MilestoneIds, NEW k,
         ApproveMilestone(r, m, k),
         LET amount  == milestones[r][m].payoutAmount + milestones[r][m].additionalPayoutAmount
             carrier == requests[r].carrier
         IN  Emit(<<Step(r, "MilestoneVerified", m),
                    [Step(r, "MilestonePaid", m) EXCEPT !.amount = amount],
                    [Money(r, "PaymentReleased", carrier, amount) EXCEPT !.milestone = m]>>
                  \o IF requests'[r].status = "Completed"
                     THEN <<[Of(r, "RequestCompleted", carrier) EXCEPT !.completedAt = now]>>
                            \o ReserveRefunded(r)
                     ELSE <<>>)
  PROVE  CountedInv'
<1>1. /\ ChainInv /\ IInv /\ requests \in [RequestIds -> Requests]
      /\ milestones \in [RequestIds -> [MilestoneIds -> Milestones]]
      /\ Sound(r) /\ Balanced(r) /\ Held(r)
  BY TellingTold, StoryTypes DEF Passing
<1>2. Running(requests[r])
  BY <1>1, ApproveFigures
<1>3. WasFunded(requests[r]) /\ requests[r].status # "Completed"
  BY <1>2 DEF Running, WasFunded
<1>4. PICK amount : amount = milestones[r][m].payoutAmount + milestones[r][m].additionalPayoutAmount
  OBVIOUS
<1>5. amount \in Nat
  <2>1. milestones[r][m] \in Milestones
    BY <1>1
  <2>2. QED BY <1>4, <2>1 DEF Milestones
<1>6. PICK carrier \in Parties : carrier = requests[r].carrier
  BY <1>1 DEF Requests, Parties
<1>7. OthersBargain(r) /\ Bargained(r)
  BY NobodyBargains DEF negotiationVars
<1>8. PICK x, y, z : /\ PaymentBlock(r, m, carrier, amount) = <<x, y, z>>
                     /\ x \in Sayings(r, {"MilestoneVerified"}) /\ x.milestone = m
                     /\ y \in Sayings(r, {"MilestonePaid"}) /\ y.milestone = m
                     /\ z \in Sayings(r, {"PaymentReleased"})
  BY <1>5, <1>6, PaymentSaid
<1>9. PICK one, front : /\ one = {"MilestoneVerified", "MilestonePaid", "PaymentReleased"}
                        /\ front = <<x, y, z>>
  OBVIOUS
<1>10. front \in Seq(Sayings(r, one))
  <2>1. x \in Sayings(r, one) /\ y \in Sayings(r, one) /\ z \in Sayings(r, one)
    BY <1>8, <1>9 DEF Sayings
  <2>2. PICK S : S = Sayings(r, one)
    OBVIOUS
  <2>3. x \in S /\ y \in S /\ z \in S
    BY <2>1, <2>2
  <2>4. front \in Seq(S)
    BY ONLY <1>9, <2>3
  <2>5. QED BY <2>2, <2>4
<1>11. CASE requests'[r].status # "Completed"
  <2>1. PICK b : b = IF requests'[r].status = "Completed"
                    THEN <<[Of(r, "RequestCompleted", carrier) EXCEPT !.completedAt = now]>>
                           \o ReserveRefunded(r)
                    ELSE <<>>
    OBVIOUS
  <2>2. front \o b = front
    <3>1. b = <<>>
      BY <1>11, <2>1
    <3>2. QED BY <1>9, <3>1
  <2>3. Emit(PaymentBlock(r, m, carrier, amount) \o b)
    BY <1>4, <1>6, <2>1 DEF PaymentBlock
  <2>4. log' = Append(log, front)
    BY <1>8, <1>9, <2>2, <2>3, EmitAppends
  <2>5. one \cap EndNames = {}
    BY <1>9 DEF EndNames
  <2>6. QED BY <1>3, <1>7, <1>10, <2>4, <2>5, AsideCounted
<1>12. CASE requests'[r].status = "Completed"
  <2>1. PICK e, back, es : /\ e = [Of(r, "RequestCompleted", carrier) EXCEPT !.completedAt = now]
                           /\ back = ReserveRefunded(r) /\ es = front \o <<e>> \o back
    OBVIOUS
  <2>2. log' = Append(log, es)
    <3>1. Emit(PaymentBlock(r, m, carrier, amount) \o (<<e>> \o back))
      BY <1>4, <1>6, <1>12, <2>1 DEF PaymentBlock
    <3>2. PaymentBlock(r, m, carrier, amount) \o (<<e>> \o back) = es
      <4>1. PICK middle : middle = <<e>> \o back
        OBVIOUS
      <4>2. front \o middle = es
        BY <1>9, <2>1, <4>1
      <4>3. QED BY <1>8, <1>9, <4>1, <4>2
    <3>3. QED BY <3>1, <3>2, EmitAppends
  <2>3. PICK two, three : two = {"RequestCompleted"} /\ three = {"OperationalAllowanceRefunded"}
    OBVIOUS
  <2>4. e \in Sayings(r, two)
    <3>1. "RequestCompleted" \in EventNames /\ 0 \in Nat /\ 0 \in Int
      BY DEF EventNames, QuietNames
    <3>2. PICK c : c = Of(r, "RequestCompleted", carrier)
      OBVIOUS
    <3>3. c \in Sayings(r, two)
      BY <2>3, <3>1, <3>2, EventsSaid
    <3>4. now \in Nat
      BY <1>1 DEF IInv, ClockOK
    <3>5. QED BY <2>1, <3>2, <3>3, <3>4, StepChanged
  <2>5. back \in Seq(Sayings(r, three))
    BY <1>1, <2>1, <2>3, ReserveSaid
  <2>6. PICK both, all, start : both = one \cup two /\ all = both \cup three /\ start = front \o <<e>>
    OBVIOUS
  <2>7. <<e>> \in Seq(Sayings(r, two))
    BY <2>4, Said
  <2>8. start \in Seq(Sayings(r, both))
    BY <1>10, <2>6, <2>7, Said
  <2>9. es \in Seq(Sayings(r, all))
    <3>1. es = start \o back
      BY <2>1, <2>6
    <3>2. QED BY <2>5, <2>6, <2>8, <3>1, Said
  <2>10. /\ Grows(log, es, log')
         /\ \A q \in RequestIds : q # r => AgreedOK(q)' /\ EndLogged(q)'
    BY <1>7, <2>2, <2>9, OthersCounted
  <2>11. AgreedOK(r)' /\ Agreed(r)' = Agreed(r)
    BY <1>7, <2>10, AgreedStays
  <2>12. PICK K : K = NamedOf(r, "RequestCompleted")
    OBVIOUS
  <2>13. PICK i \in DOMAIN es : es[i] = e /\ \A j \in DOMAIN es : j # i => es[j] \notin K
    <3>1. /\ front \in Seq(LogEvents) /\ \A j \in DOMAIN front : front[j].name \in one
          /\ back \in Seq(LogEvents) /\ \A j \in DOMAIN back : back[j].name \in three
      BY <1>10, <2>5, SayingsAre
    <3>2. Mute(front, K) /\ Mute(back, K)
      BY <1>9, <2>3, <2>12, <3>1 DEF Mute, NamedOf
    <3>3. e \in LogEvents /\ e \in K
      BY <2>3, <2>4, <2>12 DEF Sayings, PlainEvents, NamedOf
    <3>4. Between(es, front, e, back)
      BY <2>1 DEF Between
    <3>5. QED BY ONLY <3>1, <3>2, <3>3, <3>4, WordBetween
  <2>14. es[i] \in NamedOf(r, "RequestCompleted")
    BY <2>3, <2>4, <2>13 DEF Sayings, PlainEvents, NamedOf
  <2>15. NothingOf(es, r, {"RequestExpired", "RefundIssued"})
    <3>1. all \cap {"RequestExpired", "RefundIssued"} = {}
      BY <1>9, <2>3, <2>6
    <3>2. QED BY <2>9, <3>1, SayingsAre
  <2>16. EndLogged(r)'
    BY <1>3, <2>10, <2>11, <2>12, <2>13, <2>14, <2>15, CompletionLogged
  <2>17. QED BY <2>10, <2>11, <2>16 DEF CountedInv
<1>13. QED BY <1>11, <1>12

(* The refund of an overdue shipment names the carrier who was late.        *)
LEMMA ExpiryCounted ==
  ASSUME Passing, NEW r \in RequestIds, UNCHANGED negotiationVars, RefundRemaining(r),
         EmitEnd((IF Overdue(r) THEN <<Of(r, "RequestExpired", requests[r].carrier)>> ELSE <<>>)
                   \o Refunded(r))
  PROVE  CountedInv'
<1>1. ChainInv /\ IInv /\ requests[r] \in Requests /\ RequestExists(r) /\ Refund(r)
  BY TellingTold DEF Passing, RefundRemaining
<1>2. Running(requests[r])
  BY <1>1, RefundMoves
<1>3. Overdue(r)
  BY <1>2 DEF RefundRemaining, Running
<1>4. OthersBargain(r) /\ Bargained(r)
  BY NobodyBargains DEF negotiationVars
<1>5. PICK carrier \in Parties : carrier = requests[r].carrier
  BY <1>1 DEF Requests, Parties
<1>6. PICK one, two : one = {"RequestExpired"} /\ two = {"RefundIssued", "OperationalAllowanceRefunded"}
  OBVIOUS
<1>7. PICK e, a : e = Of(r, "RequestExpired", carrier) /\ a = <<e>>
  OBVIOUS
<1>8. e \in Sayings(r, one) /\ e.party = carrier
  <2>1. "RequestExpired" \in EventNames /\ 0 \in Nat /\ 0 \in Int
    BY DEF EventNames, QuietNames
  <2>2. QED BY <1>6, <1>7, <2>1, EventsSaid
<1>9. a \in Seq(Sayings(r, one))
  BY <1>7, <1>8, Said
<1>10. PICK b : b = Refunded(r)
  OBVIOUS
<1>11. b \in Seq(Sayings(r, two)) /\ Has(b, NamedOf(r, "RefundIssued"))
  BY <1>1, <1>6, <1>10, RefundedSaid
<1>12. PICK es : es = a \o b
  OBVIOUS
<1>13. log' = Append(log, es)
  BY <1>3, <1>5, <1>7, <1>10, <1>12 DEF EmitEnd
<1>14. PICK names : names = one \cup two
  OBVIOUS
<1>15. es \in Seq(Sayings(r, names))
  <2>1. es \in Seq(Sayings(r, one \cup two))
    BY <1>9, <1>11, <1>12, Said
  <2>2. QED BY <1>14, <2>1
<1>16. /\ Grows(log, es, log')
       /\ \A q \in RequestIds : q # r => AgreedOK(q)' /\ EndLogged(q)'
  BY <1>4, <1>13, <1>15, OthersCounted
<1>17. AgreedOK(r)' /\ Agreed(r)' = Agreed(r)
  BY <1>4, <1>16, AgreedStays
<1>18. a \in Seq(LogEvents) /\ b \in Seq(LogEvents)
  BY <1>9, <1>11, SayingsAre
<1>19. Has(es, NamedOf(r, "RefundIssued"))
  <2>1. PICK K : K = NamedOf(r, "RefundIssued")
    OBVIOUS
  <2>2. Has(b, K)
    BY <1>11, <2>1
  <2>3. Has(es, K)
    BY ONLY <1>12, <1>18, <2>2, HasInBoth
  <2>4. QED BY <2>1, <2>3
<1>20. e \in LogEvents /\ e.request = r /\ e.name = "RequestExpired"
  BY <1>6, <1>8 DEF Sayings, PlainEvents
<1>21. Has(es, Expiries(r, requests[r].carrier))
  <2>1. PICK K : K = Expiries(r, carrier)
    OBVIOUS
  <2>2. e \in K
    BY <1>8, <1>20, <2>1 DEF Expiries
  <2>3. Has(a, K)
    BY <1>7, <2>2 DEF Has
  <2>4. Has(es, K)
    BY ONLY <1>12, <1>18, <2>3, HasInBoth
  <2>5. QED BY <1>5, <2>1, <2>4
<1>22. ASSUME NEW w, w # requests[r].carrier PROVE Mute(es, Expiries(r, w))
  <2>1. \A j \in DOMAIN b : b[j].name \in two
    BY <1>11, SayingsAre
  <2>2. \A j \in DOMAIN es : es[j] = e \/ es[j].name \in two
    <3>1. \A j \in DOMAIN es : es[j] = e \/ \E k \in DOMAIN b : es[j] = b[k]
      BY <1>7, <1>12, <1>18
    <3>2. QED BY <2>1, <3>1
  <2>3. QED BY <1>5, <1>6, <1>8, <1>22, <2>2 DEF Mute, Expiries
<1>23. NothingOf(es, r, {"RequestCompleted"})
  <2>1. names \cap {"RequestCompleted"} = {}
    BY <1>6, <1>14
  <2>2. QED BY <1>15, <2>1, SayingsAre
<1>24. EndLogged(r)'
  BY <1>2, <1>16, <1>17, <1>19, <1>21, <1>22, <1>23, RefundLogged
<1>25. QED BY <1>16, <1>17, <1>24 DEF CountedInv

(* An agreed end names nobody: it is known by its cancellation.             *)
LEMMA MutualCounted ==
  ASSUME Passing, NEW r \in RequestIds, NEW c, AcceptCancellation(r, c),
         Emit(<<Event(r, "RequestCancelled")>> \o Refunded(r) \o <<Event(r, "CancellationAccepted")>>)
  PROVE  CountedInv'
<1>1. /\ ChainInv /\ IInv /\ RequestExists(r) /\ Refund(r)
      /\ cancellationRequests \in [RequestIds -> Seq(Cancellations)]
  BY TellingTold DEF Passing, AcceptCancellation, FinalizeMutualCancellation
<1>2. Running(requests[r]) /\ requests'[r].status = "Refunded"
  BY <1>1, RefundMoves
<1>3. /\ c \in DOMAIN cancellationRequests[r]
      /\ cancellationRequests' = [cancellationRequests EXCEPT ![r][c].status = "Accepted"]
  BY DEF AcceptCancellation, ResolveCancellation, PendingCancellation
<1>4. /\ cancellationRequests'[r] = [cancellationRequests[r] EXCEPT ![c].status = "Accepted"]
      /\ OthersBargain(r)
  BY <1>1, <1>3 DEF OthersBargain
<1>5. PICK one, two, three : /\ one = {"RequestCancelled"} /\ three = {"CancellationAccepted"}
                             /\ two = {"RefundIssued", "OperationalAllowanceRefunded"}
  OBVIOUS
<1>6. PICK a, b, d : /\ a = <<Event(r, "RequestCancelled")>> /\ b = Refunded(r)
                     /\ d = <<Event(r, "CancellationAccepted")>>
  OBVIOUS
<1>7. a \in Seq(Sayings(r, one)) /\ d \in Seq(Sayings(r, three))
  <2>1. /\ "RequestCancelled" \in EventNames /\ "CancellationAccepted" \in EventNames
        /\ NoUser \in Parties /\ 0 \in Nat /\ 0 \in Int
    BY DEF EventNames, QuietNames, Parties
  <2>2. Event(r, "RequestCancelled") \in Sayings(r, one) /\ Event(r, "CancellationAccepted") \in Sayings(r, three)
    BY <1>5, <2>1, EventsSaid
  <2>3. QED BY <1>6, <2>2, Said
<1>8. b \in Seq(Sayings(r, two)) /\ Has(b, NamedOf(r, "RefundIssued"))
  BY <1>1, <1>5, <1>6, RefundedSaid
<1>9. PICK front, both : front = a \o b /\ both = one \cup two
  OBVIOUS
<1>10. front \in Seq(Sayings(r, both))
  <2>1. front = a \o b
    BY <1>9
  <2>2. front \in Seq(Sayings(r, one \cup two))
    BY <1>7, <1>8, <2>1, Said
  <2>3. QED BY <1>9, <2>2
<1>11. PICK es, names : es = front \o d /\ names = both \cup three
  OBVIOUS
<1>12. es \in Seq(Sayings(r, names))
  <2>1. es = front \o d
    BY <1>11
  <2>2. es \in Seq(Sayings(r, both \cup three))
    BY <1>7, <1>10, <2>1, Said
  <2>3. QED BY <1>11, <2>2
<1>13. log' = Append(log, es)
  BY <1>6, <1>9, <1>11, EmitAppends
<1>14. /\ Grows(log, es, log')
       /\ \A q \in RequestIds : q # r => AgreedOK(q)' /\ EndLogged(q)'
  BY <1>4, <1>12, <1>13, OthersCounted
<1>15. AgreedOK(r)' /\ Agreed(r)' # {}
  BY <1>2, <1>3, <1>4, <1>14, AgreedNow
<1>16. Has(es, NamedOf(r, "RefundIssued"))
  <2>1. PICK K : K = NamedOf(r, "RefundIssued")
    OBVIOUS
  <2>2. /\ a \in Seq(LogEvents) /\ b \in Seq(LogEvents) /\ d \in Seq(LogEvents)
        /\ front \in Seq(LogEvents) /\ Has(b, K)
    BY <1>7, <1>8, <1>10, <2>1, SayingsAre
  <2>3. front = a \o b /\ es = front \o d
    BY <1>9, <1>11
  <2>4. Has(front, K)
    BY ONLY <2>2, <2>3, HasInBoth
  <2>5. Has(es, K)
    BY ONLY <2>2, <2>3, <2>4, HasInBoth
  <2>6. QED BY <2>1, <2>5
<1>17. NothingOf(es, r, {"RequestCompleted"}) /\ NothingOf(es, r, {"RequestExpired"})
  <2>1. names \cap {"RequestCompleted"} = {} /\ names \cap {"RequestExpired"} = {}
    BY <1>5, <1>9, <1>11
  <2>2. QED BY <1>12, <2>1, SayingsAre
<1>18. EndLogged(r)'
  BY <1>2, <1>14, <1>15, <1>16, <1>17, RefundLogged
<1>19. QED BY <1>14, <1>15, <1>18 DEF CountedInv

(* What an answer to an amendment, or to a cancellation, says.              *)
LEMMA EndsInEvent ==
  ASSUME Passing, NEW r \in RequestIds, NEW names, NEW front, front \in Seq(Sayings(r, names)),
         NEW name \in EventNames, NEW es, es = front \o <<Event(r, name)>>, log' = Append(log, es),
         names \cap EndNames = {}, name \notin EndNames, name \notin PaymentEvents,
         names \cap PaymentEvents = {} \/ WasFunded(requests[r]),
         OthersBargain(r), Bargained(r)
  PROVE  CountedInv'
<1>1. PICK e, two : e = Event(r, name) /\ two = {name}
  OBVIOUS
<1>2. e \in Sayings(r, two)
  <2>1. NoUser \in Parties /\ 0 \in Nat /\ 0 \in Int
    BY DEF Parties
  <2>2. QED BY <1>1, <2>1, EventsSaid
<1>3. <<e>> \in Seq(Sayings(r, two))
  BY <1>2, Said
<1>4. PICK all : all = names \cup two
  OBVIOUS
<1>5. es \in Seq(Sayings(r, all))
  <2>1. es = front \o <<e>>
    BY <1>1
  <2>2. es \in Seq(Sayings(r, names \cup two))
    BY <1>3, <2>1, Said
  <2>3. QED BY <1>4, <2>2
<1>6. all \cap EndNames = {} /\ (all \cap PaymentEvents = {} \/ WasFunded(requests[r]))
  BY <1>1, <1>4
<1>7. QED BY <1>5, <1>6, AsideCounted

LEMMA AnswerNames ==
  /\ ResponseNames \cap EndNames = {} /\ ResponseNames \cap PaymentEvents = {}
  /\ FundingNames \cap EndNames = {}
  /\ NegotiationNames \subseteq EventNames
  /\ NegotiationNames \cap EndNames = {} /\ NegotiationNames \cap PaymentEvents = {}
BY DEF ResponseNames, FundingNames, NegotiationNames, EventNames, QuietNames, EndNames, PaymentEvents

LEMMA ResolutionCounted ==
  ASSUME Passing, NEW r \in RequestIds, NEW a, PendingAmendment(r, a),
         NEW outcome, NEW reimbursed \in Nat,
         reimbursed <= amendmentRequests[r][a].responseAllowance,
         ResolveAmendment(r, a, outcome, reimbursed),
         NEW name \in {"AmendmentRejected", "AmendmentWithdrawn", "AmendmentExpired"},
         LET es == ResponseSettled(r, amendmentRequests[r][a], reimbursed) \o <<Event(r, name)>>
         IN  Emit(es) \/ EmitEnd(es)
  PROVE  CountedInv'
<1>1. ChainInv /\ EscrowInv /\ NegotiationInv /\ ManagerHoldsTheStakes
  BY TellingTold, ChainFacts DEF Passing
<1>2. PICK amendment : amendment = amendmentRequests[r][a]
  OBVIOUS
<1>3. amendment \in Amendments /\ amendment.responseAllowanceSpent = 0
  BY <1>1, <1>2, PendingFacts DEF PendingOK
<1>4. PICK front, names : front = ResponseSettled(r, amendment, reimbursed) /\ names = ResponseNames
  OBVIOUS
<1>5. front \in Seq(Sayings(r, names))
  BY <1>2, <1>3, <1>4, SettledSaid
<1>6. PICK es : es = front \o <<Event(r, name)>>
  OBVIOUS
<1>7. log' = Append(log, es)
  BY <1>2, <1>4, <1>6, EmitAppends
<1>8. OthersBargain(r) /\ Bargained(r)
  BY NobodyBargains DEF ResolveAmendment
<1>9. name \in EventNames /\ name \notin EndNames /\ name \notin PaymentEvents
  <2>1. name \in NegotiationNames
    BY DEF NegotiationNames
  <2>2. QED BY <2>1, AnswerNames
<1>10. names \cap EndNames = {} /\ names \cap PaymentEvents = {}
  BY <1>4, AnswerNames
<1>11. Passing /\ r \in RequestIds
  OBVIOUS
<1>12. QED BY ONLY <1>5, <1>6, <1>7, <1>8, <1>9, <1>10, <1>11, EndsInEvent

LEMMA AcceptanceCounted ==
  ASSUME Passing, NEW r \in RequestIds, NEW a, NEW gas \in Nat, NEW price \in Nat,
         AcceptAmendment(r, a, gas, price),
         LET amendment == amendmentRequests[r][a] IN
         Emit(Amended(r, amendment.additionalFunding, amendment.operationalAllowance)
                \o ResponseSettled(r, amendment, ResponseReimbursement(amendment, gas, price))
                \o <<Event(r, "AmendmentAccepted")>>)
  PROVE  CountedInv'
<1>1. ChainInv /\ EscrowInv /\ NegotiationInv /\ ManagerHoldsTheStakes
  BY TellingTold, ChainFacts DEF Passing
<1>2. PICK amendment : amendment = amendmentRequests[r][a]
  OBVIOUS
<1>3. /\ amendment \in Amendments /\ amendment.responseAllowanceSpent = 0
      /\ amendment.additionalFunding \in Nat /\ amendment.operationalAllowance \in Nat
  <2>1. PendingAmendment(r, a)
    BY DEF AcceptAmendment
  <2>2. amendment \in Amendments /\ PendingOK(amendment) /\ amendment.status = "Pending"
    BY <1>1, <1>2, <2>1, PendingFacts
  <2>3. QED BY <2>2 DEF PendingOK, Amendments
<1>4. PICK funding, operational \in Nat : /\ funding = amendment.additionalFunding
                                         /\ operational = amendment.operationalAllowance
  BY <1>3
<1>5. PICK reimbursed : reimbursed = ResponseReimbursement(amendment, gas, price)
  OBVIOUS
<1>6. reimbursed \in Nat /\ reimbursed <= amendment.responseAllowance
  BY <1>3, <1>5, ReimbursementWithin
<1>7. PICK one, two, names : one = FundingNames /\ two = ResponseNames /\ names = one \cup two
  OBVIOUS
<1>8. PICK b, d : b = Amended(r, funding, operational) /\ d = ResponseSettled(r, amendment, reimbursed)
  OBVIOUS
<1>9. b \in Seq(Sayings(r, one))
  BY <1>7, <1>8, AmendedSaid
<1>10. d \in Seq(Sayings(r, two))
  BY <1>3, <1>6, <1>7, <1>8, SettledSaid
<1>11. PICK front : front = b \o d
  OBVIOUS
<1>12. front \in Seq(Sayings(r, names))
  <2>1. front \in Seq(Sayings(r, one \cup two))
    BY <1>9, <1>10, <1>11, Said
  <2>2. QED BY <1>7, <2>1
<1>13. PICK name : name = "AmendmentAccepted"
  OBVIOUS
<1>14. PICK es : es = front \o <<Event(r, name)>>
  OBVIOUS
<1>15. log' = Append(log, es)
  BY <1>2, <1>4, <1>5, <1>8, <1>11, <1>13, <1>14, EmitAppends
<1>16. OthersBargain(r) /\ Bargained(r)
  BY NobodyBargains DEF AcceptAmendment
<1>17. name \in EventNames /\ name \notin EndNames /\ name \notin PaymentEvents
  <2>1. name \in NegotiationNames
    BY <1>13 DEF NegotiationNames
  <2>2. QED BY <2>1, AnswerNames
<1>18. names \cap EndNames = {} /\ WasFunded(requests[r])
  BY <1>7, AnswerNames DEF AcceptAmendment, NegotiableShipment, Active, WasFunded
<1>19. Passing /\ r \in RequestIds
  OBVIOUS
<1>20. QED BY ONLY <1>12, <1>14, <1>15, <1>16, <1>17, <1>18, <1>19, EndsInEvent

LEMMA AskedCounted ==
  ASSUME Passing, NEW r \in RequestIds, UNCHANGED cancellationRequests,
         NEW allowance \in ResponseAllowances,
         Emit(<<Event(r, "AmendmentRequested")>>
                \o IfAny(Money(r, "AmendmentResponseAllowanceFunded", Manager, allowance)))
  PROVE  CountedInv'
<1>1. /\ "AmendmentRequested" \in EventNames /\ "AmendmentResponseAllowanceFunded" \in EventNames
      /\ NoUser \in Parties /\ 0 \in Nat /\ 0 \in Int /\ allowance \in Nat
  BY NegotiationAssumption DEF EventNames, QuietNames, Parties
<1>2. PICK manager \in Parties : manager = Manager
  BY DEF Parties
<1>3. PICK one, two, names : /\ one = {"AmendmentRequested"} /\ two = {"AmendmentResponseAllowanceFunded"}
                             /\ names = one \cup two
  OBVIOUS
<1>4. PICK a, b : /\ a = <<Event(r, "AmendmentRequested")>>
                  /\ b = IfAny(Money(r, "AmendmentResponseAllowanceFunded", manager, allowance))
  OBVIOUS
<1>5. a \in Seq(Sayings(r, one))
  <2>1. Event(r, "AmendmentRequested") \in Sayings(r, one)
    BY <1>1, <1>3, EventsSaid
  <2>2. QED BY <1>4, <2>1, Said
<1>6. b \in Seq(Sayings(r, two))
  BY <1>1, <1>3, <1>4, EventsSaid
<1>7. PICK es : es = a \o b
  OBVIOUS
<1>8. es \in Seq(Sayings(r, names))
  <2>1. es \in Seq(Sayings(r, one \cup two))
    BY <1>5, <1>6, <1>7, Said
  <2>2. QED BY <1>3, <2>1
<1>9. log' = Append(log, es)
  BY <1>2, <1>4, <1>7, EmitAppends
<1>10. OthersBargain(r) /\ Bargained(r)
  BY NobodyBargains
<1>11. names \cap EndNames = {} /\ names \cap PaymentEvents = {}
  BY <1>3 DEF EndNames, PaymentEvents
<1>12. QED BY <1>8, <1>9, <1>10, <1>11, AsideCounted

LEMMA EscrowEventsCounted ==
  ASSUME Passing, NEW r \in RequestIds, UNCHANGED negotiationVars,
         ProposalEvents(r) \/ ProofEvents(r) \/ ReviewEvents(r) \/ SettlementEvents(r)
  PROVE  CountedInv'
<1>1. IInv /\ MarketOK /\ UNCHANGED cancellationRequests
  BY TellingTold DEF Passing, IInv, negotiationVars
<1>2. /\ GasReadings \subseteq Nat /\ TxGasPrices \subseteq Nat
      /\ \A amount \in FundingAmounts : amount \in Nat
  BY InputAssumption
<1>3. CASE ProposalEvents(r)
  <2>1. ASSUME NEW p \in DOMAIN proposals[r], NEW price \in ReferenceGasPrices, NEW extra \in ExtraAllowances,
               LET allowance == MinimumOperationalAllowance(r, p, price) + extra
               IN  /\ ApproveAndFund(r, p, price, allowance)
                   /\ Emit(<<Of(r, "MilestonePlanAccepted", proposals[r][p].carrier),
                             Money(r, "EscrowFunded", Escrow, requests[r].proposedAmount),
                             Money(r, "OperationalAllowanceFunded", Escrow, allowance)>>)
        PROVE  CountedInv'
    <3>1. PICK allowance : allowance = MinimumOperationalAllowance(r, p, price) + extra
      OBVIOUS
    <3>2. allowance \in Nat
      <4>1. price \in Nat /\ extra \in Nat
        BY InputAssumption
      <4>2. MinimumOperationalAllowance(r, p, price) \in Nat
        BY <1>1, <4>1, MinimumIsNat
      <4>3. QED BY <3>1, <4>1, <4>2
    <3>3. /\ ApproveAndFund(r, p, price, allowance)
          /\ Emit(<<Of(r, "MilestonePlanAccepted", proposals[r][p].carrier),
                    Money(r, "EscrowFunded", Escrow, requests[r].proposedAmount),
                    Money(r, "OperationalAllowanceFunded", Escrow, allowance)>>)
      BY <2>1, <3>1
    <3>4. QED BY <3>2, <3>3, FundCounted
  <2>2. CASE \/ \E u \in Carriers :
                  \/ \E plan \in Plans :
                       ProposeMilestones(u, r, plan) /\ Emit(<<Of(r, "MilestonePlanProposed", u)>>)
                  \/ RevokeMilestoneProposal(u, r) /\ Emit(<<Of(r, "MilestonePlanRevoked", u)>>)
             \/ \E p \in 1 .. MaxProposals :
                  RejectMilestoneProposal(r, p)
                    /\ Emit(<<Of(r, "MilestonePlanRejected", proposals[r][p].carrier)>>)
             \/ CancelRequest(r) /\ Emit(<<Event(r, "RequestCancelled")>>)
    BY <2>2, OffersCounted
  <2>3. QED BY <1>3, <2>1, <2>2 DEF ProposalEvents
<1>4. CASE ProofEvents(r)
  <2>1. ASSUME NEW m \in MilestoneIds, NEW uri, NEW gas \in GasReadings, NEW price \in TxGasPrices,
               SubmitProof(r, m, uri, gas, price),
               Emit(IfAny(Money(r, "OperationalAllowanceReimbursed", requests[r].carrier, Reimbursed(r)))
                      \o <<Step(r, "ProofSubmitted", m)>>)
        PROVE  CountedInv'
    BY <1>2, <2>1, SubmissionCounted
  <2>2. ASSUME NEW m \in MilestoneIds, WithdrawProof(r, m), Emit(<<Step(r, "ProofWithdrawn", m)>>)
        PROVE  CountedInv'
    BY <1>1, <2>2, WordsCounted
  <2>3. QED BY <1>4, <2>1, <2>2 DEF ProofEvents
<1>5. CASE ReviewEvents(r)
  <2>1. PICK m \in MilestoneIds, n \in 1 .. MaxVersion :
          \/ /\ RejectMilestone(r, m, n)
             /\ Emit(<<[Step(r, "MilestoneVerified", m) EXCEPT !.approved = FALSE],
                       Step(r, "MilestoneRejected", m)>>)
          \/ /\ ApproveMilestone(r, m, n)
             /\ LET amount  == milestones[r][m].payoutAmount + milestones[r][m].additionalPayoutAmount
                    carrier == requests[r].carrier
                IN  Emit(<<Step(r, "MilestoneVerified", m),
                           [Step(r, "MilestonePaid", m) EXCEPT !.amount = amount],
                           [Money(r, "PaymentReleased", carrier, amount) EXCEPT !.milestone = m]>>
                         \o IF requests'[r].status = "Completed"
                            THEN <<[Of(r, "RequestCompleted", carrier) EXCEPT !.completedAt = now]>>
                                   \o ReserveRefunded(r)
                            ELSE <<>>)
    BY <1>5 DEF ReviewEvents
  <2>2. CASE Emit(<<[Step(r, "MilestoneVerified", m) EXCEPT !.approved = FALSE],
                    Step(r, "MilestoneRejected", m)>>)
    BY <2>2, RejectionCounted
  <2>3. CASE ~Emit(<<[Step(r, "MilestoneVerified", m) EXCEPT !.approved = FALSE],
                     Step(r, "MilestoneRejected", m)>>)
    <3>1. ApproveMilestone(r, m, n)
      BY <2>1, <2>3
    <3>2. LET amount  == milestones[r][m].payoutAmount + milestones[r][m].additionalPayoutAmount
              carrier == requests[r].carrier
          IN  Emit(<<Step(r, "MilestoneVerified", m),
                     [Step(r, "MilestonePaid", m) EXCEPT !.amount = amount],
                     [Money(r, "PaymentReleased", carrier, amount) EXCEPT !.milestone = m]>>
                   \o IF requests'[r].status = "Completed"
                      THEN <<[Of(r, "RequestCompleted", carrier) EXCEPT !.completedAt = now]>>
                             \o ReserveRefunded(r)
                      ELSE <<>>)
      BY <2>1, <2>3
    <3>3. QED BY <3>1, <3>2, ApprovalCounted
  <2>4. QED BY <2>2, <2>3
<1>6. CASE SettlementEvents(r)
  <2>1. CASE /\ RefundRemaining(r)
             /\ EmitEnd((IF Overdue(r) THEN <<Of(r, "RequestExpired", requests[r].carrier)>> ELSE <<>>)
                          \o Refunded(r))
    BY <2>1, ExpiryCounted
  <2>2. PICK m \in MilestoneIds : TRUE
    BY NumberAssumption DEF MilestoneIds
  <2>3. ASSUME NEW amount \in FundingAmounts, TipCarrier(r, amount),
               Emit(<<Money(r, "CarrierTipped", requests[r].carrier, amount)>>)
        PROVE  CountedInv'
    BY <1>1, <1>2, <2>2, <2>3, WordsCounted
  <2>4. ASSUME NEW amount \in FundingAmounts, TopUpOperationalAllowance(r, amount),
               Emit(<<Money(r, "OperationalAllowanceFunded", Escrow, amount)>>)
        PROVE  CountedInv'
    BY <1>1, <1>2, <2>2, <2>4, WordsCounted
  <2>5. QED BY <1>6, <2>1, <2>3, <2>4 DEF SettlementEvents
<1>7. QED BY <1>3, <1>4, <1>5, <1>6

LEMMA AmendmentEventsCounted ==
  ASSUME Passing, NEW r \in RequestIds, AmendmentEvents(r)
  PROVE  CountedInv'
<1>1. ChainInv
  BY TellingTold DEF Passing
<1>2. GasReadings \subseteq Nat /\ TxGasPrices \subseteq Nat
  BY InputAssumption
<1>3. ASSUME NEW newDeadline \in Deadlines, ExtendShipmentDeadline(r, newDeadline),
             Emit(<<Event(r, "ShipmentDeadlineExtended")>>)
      PROVE  CountedInv'
  <2>1. PICK m \in MilestoneIds, amount \in Nat : TRUE
    BY NumberAssumption DEF MilestoneIds
  <2>2. UNCHANGED cancellationRequests
    BY <1>3 DEF ExtendShipmentDeadline
  <2>3. QED BY <1>3, <2>1, <2>2, WordsCounted
<1>4. CASE RequestAmendmentEvents(r)
  <2>1. PICK who \in Participants(r), proposedDeadline, responseDeadline \in Deadlines,
             existing \in Fundings(r), additions \in Additions(r),
             price \in ReferenceGasPrices, allowance \in ResponseAllowances :
          /\ RequestAmendment(r, who, proposedDeadline, responseDeadline,
                              existing, additions, price, allowance)
          /\ Emit(<<Event(r, "AmendmentRequested")>>
                    \o IfAny(Money(r, "AmendmentResponseAllowanceFunded", Manager, allowance)))
    BY <1>4 DEF RequestAmendmentEvents
  <2>2. UNCHANGED cancellationRequests
    BY <2>1 DEF RequestAmendment
  <2>3. QED BY <2>1, <2>2, AskedCounted
<1>5. ASSUME NEW a \in 1 .. MaxNegotiations, AnswerAmendmentEvents(r, a)
      PROVE  CountedInv'
  <2>1. PICK amendment : amendment = amendmentRequests[r][a]
    OBVIOUS
  <2>2. ASSUME NEW gas \in GasReadings, NEW price \in TxGasPrices,
               AcceptAmendment(r, a, gas, price),
               Emit(Amended(r, amendment.additionalFunding, amendment.operationalAllowance)
                      \o ResponseSettled(r, amendment, ResponseReimbursement(amendment, gas, price))
                      \o <<Event(r, "AmendmentAccepted")>>)
        PROVE  CountedInv'
    BY <1>2, <2>1, <2>2, AcceptanceCounted
  <2>3. ASSUME PendingAmendment(r, a)
        PROVE  /\ amendment \in Amendments /\ amendment.responseAllowanceSpent = 0
               /\ 0 <= amendment.responseAllowance
    <3>1. /\ amendment \in Amendments /\ PendingOK(amendment) /\ amendment.status = "Pending"
          /\ amendment.responseAllowance \in Nat
      BY <1>1, <2>1, <2>3, ChainFacts, PendingFacts
    <3>2. QED BY <3>1 DEF PendingOK
  <2>4. ASSUME NEW outcome, NEW reimbursed \in Nat, NEW name,
               name \in {"AmendmentRejected", "AmendmentWithdrawn", "AmendmentExpired"},
               PendingAmendment(r, a), ResolveAmendment(r, a, outcome, reimbursed),
               reimbursed <= amendment.responseAllowance,
               LET es == ResponseSettled(r, amendment, reimbursed) \o <<Event(r, name)>>
               IN  Emit(es) \/ EmitEnd(es)
        PROVE  CountedInv'
    <3>1. LET es == ResponseSettled(r, amendmentRequests[r][a], reimbursed) \o <<Event(r, name)>>
          IN  Emit(es) \/ EmitEnd(es)
      BY <2>1, <2>4
    <3>2. reimbursed <= amendmentRequests[r][a].responseAllowance
      BY <2>1, <2>4
    <3>3. QED BY <2>4, <3>1, <3>2, ResolutionCounted
  <2>5. ASSUME NEW gas \in GasReadings, NEW price \in TxGasPrices,
               RejectAmendment(r, a, gas, price),
               Emit(ResponseSettled(r, amendment, ResponseReimbursement(amendment, gas, price))
                      \o <<Event(r, "AmendmentRejected")>>)
        PROVE  CountedInv'
    <3>1. PICK reimbursed : reimbursed = ResponseReimbursement(amendment, gas, price)
      OBVIOUS
    <3>2. PICK outcome, name : outcome = "Rejected" /\ name = "AmendmentRejected"
      OBVIOUS
    <3>3. PendingAmendment(r, a) /\ ResolveAmendment(r, a, outcome, reimbursed)
      BY <2>1, <2>5, <3>1, <3>2 DEF RejectAmendment
    <3>4. reimbursed \in Nat /\ reimbursed <= amendment.responseAllowance
      BY <1>2, <2>3, <3>1, <3>3, ReimbursementWithin
    <3>5. Emit(ResponseSettled(r, amendment, reimbursed) \o <<Event(r, name)>>)
      BY <2>5, <3>1, <3>2
    <3>6. QED BY <2>4, <3>2, <3>3, <3>4, <3>5
  <2>6. CASE /\ WithdrawAmendment(r, a)
             /\ Emit(ResponseSettled(r, amendment, 0) \o <<Event(r, "AmendmentWithdrawn")>>)
    <3>1. PICK outcome, name : outcome = "Withdrawn" /\ name = "AmendmentWithdrawn"
      OBVIOUS
    <3>2. PendingAmendment(r, a) /\ ResolveAmendment(r, a, outcome, 0)
      BY <2>6, <3>1 DEF WithdrawAmendment
    <3>3. QED BY <2>3, <2>4, <2>6, <3>1, <3>2
  <2>7. CASE /\ ExpireAmendment(r, a)
             /\ EmitEnd(ResponseSettled(r, amendment, 0) \o <<Event(r, "AmendmentExpired")>>)
    <3>1. PICK outcome, name : outcome = "Expired" /\ name = "AmendmentExpired"
      OBVIOUS
    <3>2. PendingAmendment(r, a) /\ ResolveAmendment(r, a, outcome, 0)
      BY <2>7, <3>1 DEF ExpireAmendment
    <3>3. QED BY <2>3, <2>4, <2>7, <3>1, <3>2
  <2>8. QED BY <1>5, <2>1, <2>2, <2>5, <2>6, <2>7 DEF AnswerAmendmentEvents
<1>6. QED BY <1>3, <1>4, <1>5 DEF AmendmentEvents

LEMMA CancellationEventsCounted ==
  ASSUME Passing, NEW r \in RequestIds, CancellationEvents(r)
  PROVE  CountedInv'
<1>1. IInv /\ cancellationRequests \in [RequestIds -> Seq(Cancellations)]
  BY TellingTold DEF Passing
<1>2. /\ "CancellationRequested" \in NegotiationNames /\ "CancellationRejected" \in NegotiationNames
      /\ "CancellationWithdrawn" \in NegotiationNames /\ "CancellationExpired" \in NegotiationNames
  BY DEF NegotiationNames
<1>3. ASSUME NEW name \in NegotiationNames, Emit(<<Event(r, name)>>) \/ EmitEnd(<<Event(r, name)>>),
             OthersBargain(r), Bargained(r)
      PROVE  CountedInv'
  <2>1. name \in EventNames /\ name \notin EndNames /\ name \notin PaymentEvents
    BY AnswerNames
  <2>2. PICK front, names : front = <<>> /\ names = {}
    OBVIOUS
  <2>3. front \in Seq(Sayings(r, names)) /\ names \cap EndNames = {} /\ names \cap PaymentEvents = {}
    BY <2>2, Said
  <2>4. PICK es : es = front \o <<Event(r, name)>>
    OBVIOUS
  <2>5. log' = Append(log, es)
    <3>1. es = <<Event(r, name)>>
      BY <2>2, <2>4
    <3>2. QED BY <1>3, <3>1, EmitAppends
  <2>6. Passing /\ r \in RequestIds
    OBVIOUS
  <2>7. QED BY ONLY <1>3, <2>1, <2>3, <2>4, <2>5, <2>6, EndsInEvent
<1>4. ASSUME NEW c, NEW outcome \in {"Rejected", "Withdrawn", "Expired"}, ResolveCancellation(r, c, outcome)
      PROVE  OthersBargain(r) /\ Bargained(r)
  <2>1. /\ c \in DOMAIN cancellationRequests[r] /\ cancellationRequests[r][c].status = "Pending"
        /\ cancellationRequests' = [cancellationRequests EXCEPT ![r][c].status = outcome]
    BY <1>4 DEF ResolveCancellation, PendingCancellation
  <2>2. /\ cancellationRequests'[r] = [cancellationRequests[r] EXCEPT ![c].status = outcome]
        /\ OthersBargain(r)
    BY <1>1, <2>1 DEF OthersBargain
  <2>3. outcome \in AmendmentStatus \ {"Accepted"}
    BY <1>4 DEF AmendmentStatus
  <2>4. QED BY <2>1, <2>2, <2>3 DEF Bargained
<1>5. ASSUME NEW who \in Participants(r), NEW responseDeadline \in Deadlines,
             RequestCancellation(r, who, responseDeadline), Emit(<<Event(r, "CancellationRequested")>>)
      PROVE  CountedInv'
  <2>1. /\ NegotiableShipment(r) /\ Len(cancellationRequests[r]) < MaxNegotiations
        /\ cancellationRequests' = [cancellationRequests EXCEPT ![r] = Append(@,
             [requester |-> who, responder |-> Counterparty(r, who),
              responseDeadline |-> responseDeadline, status |-> "Pending"])]
    BY <1>5 DEF RequestCancellation, CancellationTerms
  <2>2. PICK new : new = [requester |-> who, responder |-> Counterparty(r, who),
                          responseDeadline |-> responseDeadline, status |-> "Pending"]
    OBVIOUS
  <2>3. /\ cancellationRequests'[r] = Append(cancellationRequests[r], new)
        /\ OthersBargain(r)
    BY <1>1, <2>1, <2>2 DEF OthersBargain
  <2>4. WasFunded(requests[r])
    BY <2>1 DEF NegotiableShipment, Active, WasFunded
  <2>5. \A w \in Participants(r) : w \in Users
    BY <1>1, <2>1, ParticipantsAreUsers
  <2>6. new \in Cancellations /\ new.status = "Pending" /\ new.requester \in Participants(r)
    BY <2>2, <2>5, InputAssumption DEF Cancellations, Counterparty, Participants, AmendmentStatus
  <2>7. Bargained(r)
    BY <2>1, <2>3, <2>4, <2>6 DEF Bargained
  <2>8. QED BY <1>2, <1>3, <1>5, <2>3, <2>7
<1>6. ASSUME NEW c, AcceptCancellation(r, c),
             Emit(<<Event(r, "RequestCancelled")>> \o Refunded(r) \o <<Event(r, "CancellationAccepted")>>)
      PROVE  CountedInv'
  BY <1>6, MutualCounted
<1>7. ASSUME NEW c, RejectCancellation(r, c), Emit(<<Event(r, "CancellationRejected")>>)
      PROVE  CountedInv'
  <2>1. ResolveCancellation(r, c, "Rejected")
    BY <1>7 DEF RejectCancellation
  <2>2. QED BY <1>2, <1>3, <1>4, <1>7, <2>1
<1>8. ASSUME NEW c, WithdrawCancellation(r, c), Emit(<<Event(r, "CancellationWithdrawn")>>)
      PROVE  CountedInv'
  <2>1. ResolveCancellation(r, c, "Withdrawn")
    BY <1>8 DEF WithdrawCancellation
  <2>2. QED BY <1>2, <1>3, <1>4, <1>8, <2>1
<1>9. ASSUME NEW c, ExpireCancellation(r, c), EmitEnd(<<Event(r, "CancellationExpired")>>)
      PROVE  CountedInv'
  <2>1. ResolveCancellation(r, c, "Expired")
    BY <1>9 DEF ExpireCancellation
  <2>2. QED BY <1>2, <1>3, <1>4, <1>9, <2>1
<1>10. QED BY <1>5, <1>6, <1>7, <1>8, <1>9 DEF CancellationEvents

LEMMA RatingCounted ==
  ASSUME Passing, NEW r \in RequestIds, PublishRating(r)
  PROVE  CountedInv'
<1>1. PICK score \in Scores, tags \in Selectable : SubmitCarrierRating(r, score, tags)
  BY DEF PublishRating
<1>2. UNCHANGED chainVars /\ Emit(<<Of(r, "CarrierRated", requests[r].carrier)>>)
  BY <1>1 DEF SubmitCarrierRating
<1>3. UNCHANGED cancellationRequests
  BY <1>2 DEF chainVars, negotiationVars
<1>4. OthersBargain(r) /\ Bargained(r)
  BY <1>3, NobodyBargains
<1>5. requests[r] \in Requests
  BY TellingTold DEF Passing
<1>6. PICK c \in Parties : c = requests[r].carrier
  BY <1>5 DEF Requests, Parties
<1>7. "CarrierRated" \in EventNames /\ 0 \in Nat /\ 0 \in Int
  BY DEF EventNames, QuietNames
<1>8. Of(r, "CarrierRated", c) \in Sayings(r, {"CarrierRated"})
  BY <1>7, EventsSaid
<1>9. "CarrierRated" \notin EndNames /\ "CarrierRated" \notin PaymentEvents
  BY DEF EndNames, PaymentEvents
<1>10. QED BY <1>2, <1>4, <1>6, <1>8, <1>9, OneAside

(* Where nothing is written, no count changes.                              *)
LEMMA CountsStand ==
  ASSUME CountedInv, UNCHANGED <<log, requests, cancellationRequests>>
  PROVE  CountedInv'
BY DEF CountedInv, AgreedOK, EndLogged, Agreed, Participants

LEMMA EveryStepCounted ==
  ASSUME Passing, [RecordsNext]_recordVars
  PROVE  CountedInv'
<1>1. CASE EscrowEvents /\ UNCHANGED negotiationVars
  <2>1. CASE Tick /\ UNCHANGED log
    <3>1. UNCHANGED <<log, requests, cancellationRequests>>
      BY <1>1, <2>1 DEF Tick, negotiationVars
    <3>2. QED BY <3>1, CountsStand DEF Passing
  <2>2. ASSUME NEW u \in Shippers, NEW deadline \in Deadlines, NEW amount \in Amounts,
               CreateRequest(u, deadline, amount), Emit(<<Event(nextRequestId, "RequestCreated")>>)
        PROVE  CountedInv'
    <3>1. u \in Users
      BY RecordsAssumption
    <3>2. QED BY <1>1, <2>2, <3>1, CreationCounted
  <2>3. ASSUME NEW r \in RequestIds,
               ProposalEvents(r) \/ ProofEvents(r) \/ ReviewEvents(r) \/ SettlementEvents(r)
        PROVE  CountedInv'
    BY <1>1, <2>3, EscrowEventsCounted
  <2>4. QED BY <1>1, <2>1, <2>2, <2>3 DEF EscrowEvents
<1>2. ASSUME NEW r \in RequestIds, AmendmentEvents(r) PROVE CountedInv'
  BY <1>2, AmendmentEventsCounted
<1>3. ASSUME NEW r \in RequestIds, CancellationEvents(r) PROVE CountedInv'
  BY <1>3, CancellationEventsCounted
<1>4. ASSUME NEW r \in RequestIds, PublishRating(r) PROVE CountedInv'
  BY <1>4, RatingCounted
<1>5. CASE UNCHANGED recordVars
  <2>1. UNCHANGED <<log, requests, cancellationRequests>>
    BY <1>5 DEF recordVars, chainVars, vars, negotiationVars
  <2>2. QED BY <2>1, CountsStand DEF Passing
<1>6. QED BY <1>1, <1>2, <1>3, <1>4, <1>5 DEF RecordsNext

LEMMA CountedBegins == RecordsInit => CountedInv
<1> SUFFICES ASSUME RecordsInit PROVE CountedInv
  OBVIOUS
<1>1. log = <<>>
  BY DEF RecordsInit
<1>2. \A K : ~Mentioned(log, K)
  BY <1>1 DEF Mentioned, FoundIn, PlacesIn
<1>3. ASSUME NEW q \in RequestIds PROVE AgreedOK(q) /\ EndLogged(q)
  <2>1. requests[q] = NoRequest /\ cancellationRequests[q] = <<>>
    BY DEF RecordsInit, ChainInit, Init
  <2>2. requests[q].status = "Open"
    BY <2>1 DEF NoRequest
  <2>3. Agreed(q) = {}
    BY <2>1 DEF Agreed
  <2>4. AgreedOK(q)
    BY <2>1, <2>3, NegotiationAssumption DEF AgreedOK
  <2>5. EndLogged(q)
    BY <1>2, <2>2 DEF EndLogged
  <2>6. QED BY <2>4, <2>5
<1>4. QED BY <1>3 DEF CountedInv

LEMMA PassingStep ==
  ASSUME TellingInv, TellingInv', CountedInv, [RecordsNext]_recordVars
  PROVE  Passing /\ StepSound
<1>1. ChainInv
  BY TellingTold
<1>2. StepSound
  BY <1>1, RecordsMove, ChainStepOK
<1>3. QED BY <1>2 DEF Passing, StepSound

LEMMA CountedInvariant == FairRecordsSpec => []CountedInv
<1>1. RecordsInit => CountedInv
  BY CountedBegins
<1>2. TellingInv /\ TellingInv' /\ CountedInv /\ [RecordsNext]_recordVars => CountedInv'
  BY PassingStep, EveryStepCounted
<1>3. FairRecordsSpec => []TellingInv
  BY TellingInvariant
<1>4. QED BY <1>1, <1>2, <1>3, PTL DEF FairRecordsSpec

-----------------------------------------------------------------------------
(* Part XIII.  The ratings.                                                 *)

(* Which ratings a carrier has.                                             *)
RatedOf(u) == {r \in RequestIds : ratings[r] # NoRating /\ requests[r].carrier = u}
TaggedOf(u, t) == {r \in RatedOf(u) : t \in ratings[r].tags}
ScoresOf(u) == [r \in RequestIds |-> IF requests[r].carrier = u THEN ratings[r].score ELSE 0]

RatingTypes ==
  /\ ratings \in [RequestIds -> [score : Nat, tags : SUBSET Tags]]
  /\ ratingCounts \in [Carriers -> Nat]
  /\ ratingScoreTotals \in [Carriers -> Nat]
  /\ carrierTagCounts \in [Carriers -> [Tags -> Nat]]

RatingsOf(u) ==
  /\ ratingCounts[u] = Cardinality(RatedOf(u))
  /\ ratingScoreTotals[u] = SumOver(ScoresOf(u))
  /\ \A t \in Tags : carrierTagCounts[u][t] = Cardinality(TaggedOf(u, t))

(* Only what is completed is rated, and the registry's totals are those of  *)
(* the ratings.                                                             *)
RatingsInv ==
  /\ RatingTypes
  /\ \A r \in RequestIds : ratings[r] # NoRating => requests[r].status = "Completed"
  /\ \A u \in Carriers : RatingsOf(u)

(* Where nobody rates, what was rated stays as it is.                       *)
LEMMA RatingsStay ==
  ASSUME RatingsInv, ChainInv, [ChainNext]_chainVars, UNCHANGED ratingVars
  PROVE  RatingsInv'
<1>1. UNCHANGED <<ratings, ratingCounts, ratingScoreTotals, carrierTagCounts>>
  BY DEF ratingVars
<1>2. ASSUME NEW r \in RequestIds, ratings[r] # NoRating PROVE requests'[r] = requests[r]
  BY <1>2, OverStays DEF RatingsInv
<1>3. RatingTypes'
  BY <1>1 DEF RatingsInv, RatingTypes
<1>4. ASSUME NEW r \in RequestIds, ratings'[r] # NoRating PROVE requests'[r].status = "Completed"
  BY <1>1, <1>2, <1>4 DEF RatingsInv
<1>5. ASSUME NEW u \in Carriers PROVE RatingsOf(u)'
  <2>1. RatedOf(u)' = RatedOf(u)
    BY <1>1, <1>2 DEF RatedOf
  <2>2. \A t : TaggedOf(u, t)' = TaggedOf(u, t)
    BY <2>1, <1>1 DEF TaggedOf
  <2>3. ASSUME NEW r \in RequestIds
        PROVE  (IF requests'[r].carrier = u THEN ratings'[r].score ELSE 0)
                 = (IF requests[r].carrier = u THEN ratings[r].score ELSE 0)
    <3>1. CASE ratings[r] # NoRating
      BY <3>1, <1>1, <1>2
    <3>2. CASE ratings[r] = NoRating
      BY <3>2, <1>1 DEF NoRating
    <3>3. QED BY <3>1, <3>2
  <2>4. ScoresOf(u)' = ScoresOf(u)
    BY <2>3 DEF ScoresOf
  <2>5. RatingsOf(u)
    BY DEF RatingsInv
  <2>6. QED BY <2>1, <2>2, <2>4, <2>5, <1>1 DEF RatingsOf
<1>6. QED BY <1>3, <1>4, <1>5 DEF RatingsInv

LEMMA RatedFinite ==
  ASSUME NEW u
  PROVE  IsFiniteSet(RatedOf(u)) /\ \A t : IsFiniteSet(TaggedOf(u, t))
<1>1. RatedOf(u) \in SUBSET RequestIds /\ \A t : TaggedOf(u, t) \in SUBSET RequestIds
  BY DEF RatedOf, TaggedOf
<1>2. QED BY <1>1, RequestIdsFinite, FS_Subset

(* A rating is added to what its carrier has.                               *)
LEMMA RatingAdded ==
  ASSUME RatingsInv, ChainInv, NEW r \in RequestIds, PublishRating(r)
  PROVE  RatingsInv'
<1>1. PICK score \in Scores, tags \in Selectable : SubmitCarrierRating(r, score, tags)
  BY DEF PublishRating
<1>2. score \in Nat /\ score > 0 /\ tags \subseteq Tags
  BY RecordsAssumption DEF Selectable
<1>3. PICK new : new = [score |-> score, tags |-> tags]
  OBVIOUS
<1>4. /\ new \in [score : Nat, tags : SUBSET Tags] /\ new # NoRating
      /\ new.score = score /\ new.tags = tags
  BY <1>2, <1>3 DEF NoRating
<1>5. PICK carrier : carrier = requests[r].carrier
  OBVIOUS
<1>6. /\ ratings[r] = NoRating /\ requests[r].status = "Completed"
      /\ ratings' = [ratings EXCEPT ![r] = new]
      /\ ratingCounts' = [ratingCounts EXCEPT ![carrier] = @ + 1]
      /\ ratingScoreTotals' = [ratingScoreTotals EXCEPT ![carrier] = @ + score]
      /\ carrierTagCounts' = [carrierTagCounts EXCEPT ![carrier] =
              [t \in Tags |-> @[t] + (IF t \in tags THEN 1 ELSE 0)]]
      /\ UNCHANGED chainVars
  BY <1>1, <1>3, <1>5 DEF SubmitCarrierRating
<1>7. requests' = requests
  BY <1>6 DEF chainVars, vars
<1>8. RatingTypes
  BY DEF RatingsInv
<1>9. ratings \in [RequestIds -> [score : Nat, tags : SUBSET Tags]]
  BY <1>8 DEF RatingTypes
<1>10. /\ ratings' \in [RequestIds -> [score : Nat, tags : SUBSET Tags]] /\ ratings'[r] = new
       /\ \A q \in RequestIds : q # r => ratings'[q] = ratings[q]
  BY <1>4, <1>6, <1>9
<1>11. \A q \in RequestIds : ratings'[q] # NoRating => requests'[q].status = "Completed"
  BY <1>6, <1>7, <1>10 DEF RatingsInv
<1>12. ratingCounts' \in [Carriers -> Nat]
  <2>1. PICK n : n = ratingCounts[carrier] + 1
    OBVIOUS
  <2>2. ratingCounts \in [Carriers -> Nat] /\ ratingCounts' = [ratingCounts EXCEPT ![carrier] = n]
    BY <1>6, <1>8, <2>1 DEF RatingTypes
  <2>3. carrier \in Carriers => n \in Nat
    BY <2>1, <2>2
  <2>4. QED BY <2>2, <2>3
<1>13. ratingScoreTotals' \in [Carriers -> Nat]
  <2>1. PICK n : n = ratingScoreTotals[carrier] + score
    OBVIOUS
  <2>2. /\ ratingScoreTotals \in [Carriers -> Nat]
        /\ ratingScoreTotals' = [ratingScoreTotals EXCEPT ![carrier] = n]
    BY <1>6, <1>8, <2>1 DEF RatingTypes
  <2>3. carrier \in Carriers => n \in Nat
    BY <1>2, <2>1, <2>2
  <2>4. QED BY <2>2, <2>3
<1>14. \A u \in Carriers : u # carrier => carrierTagCounts'[u] = carrierTagCounts[u]
  BY <1>6, <1>8 DEF RatingTypes
<1>15. carrier \in Carriers =>
         carrierTagCounts'[carrier]
           = [t \in Tags |-> carrierTagCounts[carrier][t] + (IF t \in tags THEN 1 ELSE 0)]
  BY <1>6, <1>8 DEF RatingTypes
<1>16. carrierTagCounts' \in [Carriers -> [Tags -> Nat]]
  <2>1. carrierTagCounts \in [Carriers -> [Tags -> Nat]]
    BY <1>8 DEF RatingTypes
  <2>2. carrier \in Carriers => carrierTagCounts'[carrier] \in [Tags -> Nat]
    BY <2>1, <1>15
  <2>3. DOMAIN carrierTagCounts' = Carriers /\ carrierTagCounts' = [x \in Carriers |-> carrierTagCounts'[x]]
    BY <2>1, <1>6
  <2>4. \A u \in Carriers : carrierTagCounts'[u] \in [Tags -> Nat]
    BY <2>1, <2>2, <1>14
  <2>5. QED BY <2>3, <2>4
<1>17. RatingTypes'
  BY <1>10, <1>12, <1>13, <1>16 DEF RatingTypes
<1>18. ASSUME NEW u \in Carriers, u # carrier PROVE RatingsOf(u)'
  <2>1. RatedOf(u)' = RatedOf(u)
    BY <1>5, <1>7, <1>10, <1>18 DEF RatedOf
  <2>2. \A t : TaggedOf(u, t)' = TaggedOf(u, t)
    BY <1>5, <1>7, <1>10, <1>18 DEF TaggedOf, RatedOf
  <2>3. ScoresOf(u)' = ScoresOf(u)
    BY <1>5, <1>7, <1>10, <1>18 DEF ScoresOf
  <2>4. RatingsOf(u)
    BY DEF RatingsInv
  <2>5. /\ ratingCounts'[u] = ratingCounts[u] /\ ratingScoreTotals'[u] = ratingScoreTotals[u]
        /\ carrierTagCounts'[u] = carrierTagCounts[u]
    BY <1>6, <1>8, <1>14, <1>18 DEF RatingTypes
  <2>6. QED BY <2>1, <2>2, <2>3, <2>4, <2>5 DEF RatingsOf
<1>19. ASSUME carrier \in Carriers PROVE RatingsOf(carrier)'
  <2>1. r \notin RatedOf(carrier) /\ RatedOf(carrier)' = RatedOf(carrier) \cup {r}
    BY <1>4, <1>5, <1>6, <1>7, <1>10 DEF RatedOf
  <2>2. IsFiniteSet(RatedOf(carrier)) /\ \A t : IsFiniteSet(TaggedOf(carrier, t))
    BY RatedFinite
  <2>3. Cardinality(RatedOf(carrier)') = Cardinality(RatedOf(carrier)) + 1
    BY <2>1, <2>2, FS_AddElement
  <2>4. RatingsOf(carrier)
    BY <1>19 DEF RatingsInv
  <2>5. ratingCounts'[carrier] = Cardinality(RatedOf(carrier)')
    <3>1. ratingCounts'[carrier] = ratingCounts[carrier] + 1
      BY <1>6, <1>8, <1>19 DEF RatingTypes
    <3>2. ratingCounts[carrier] = Cardinality(RatedOf(carrier))
      BY <2>4 DEF RatingsOf
    <3>3. QED BY <2>3, <3>1, <3>2
  <2>6. ratingScoreTotals'[carrier] = SumOver(ScoresOf(carrier)')
    <3>1. ScoresOf(carrier) \in [RequestIds -> Nat] /\ ScoresOf(carrier)[r] = 0
      BY <1>5, <1>6, <1>9 DEF ScoresOf, NoRating
    <3>2. ScoresOf(carrier)' = [ScoresOf(carrier) EXCEPT ![r] = score]
      BY <1>4, <1>5, <1>7, <1>10 DEF ScoresOf
    <3>3. PICK f \in [RequestIds -> Nat] : f = ScoresOf(carrier)
      BY <3>1
    <3>4. SumOver([f EXCEPT ![r] = score]) = SumOver(f) - f[r] + score /\ SumOver(f) \in Nat
      BY <1>2, SumUpdate, SumIsNat, RequestIdsFinite
    <3>5. SumOver(ScoresOf(carrier)') = SumOver(ScoresOf(carrier)) + score
      BY <1>2, <3>1, <3>2, <3>3, <3>4
    <3>6. ratingScoreTotals'[carrier] = ratingScoreTotals[carrier] + score
      BY <1>6, <1>8, <1>19 DEF RatingTypes
    <3>7. ratingScoreTotals[carrier] = SumOver(ScoresOf(carrier))
      BY <2>4 DEF RatingsOf
    <3>8. QED BY <3>5, <3>6, <3>7
  <2>7. ASSUME NEW t \in Tags PROVE carrierTagCounts'[carrier][t] = Cardinality(TaggedOf(carrier, t)')
    <3>1. carrierTagCounts'[carrier][t] = carrierTagCounts[carrier][t] + (IF t \in tags THEN 1 ELSE 0)
      BY <1>15, <1>19
    <3>2. carrierTagCounts[carrier][t] = Cardinality(TaggedOf(carrier, t))
      BY <2>4 DEF RatingsOf
    <3>3. r \notin TaggedOf(carrier, t)
      BY <2>1 DEF TaggedOf
    <3>4. CASE t \in tags
      <4>1. TaggedOf(carrier, t)' = TaggedOf(carrier, t) \cup {r}
        BY <1>4, <1>10, <2>1, <3>4 DEF TaggedOf, RatedOf
      <4>2. QED BY <2>2, <3>1, <3>2, <3>3, <3>4, <4>1, FS_AddElement
    <3>5. CASE t \notin tags
      <4>1. TaggedOf(carrier, t)' = TaggedOf(carrier, t)
        BY <1>4, <1>10, <2>1, <3>5 DEF TaggedOf, RatedOf
      <4>2. Cardinality(TaggedOf(carrier, t)) \in Nat
        BY <2>2, FS_CardinalityType
      <4>3. QED BY <3>1, <3>2, <3>5, <4>1, <4>2
    <3>6. QED BY <3>4, <3>5
  <2>8. QED BY <2>5, <2>6, <2>7 DEF RatingsOf
<1>20. QED BY <1>11, <1>17, <1>18, <1>19 DEF RatingsInv

LEMMA RatingsStep ==
  ASSUME RatingsInv, ChainInv, [RecordsNext]_recordVars
  PROVE  RatingsInv'
<1>1. [ChainNext]_chainVars
  BY RecordsMove
<1>2. CASE UNCHANGED ratingVars
  BY <1>1, <1>2, RatingsStay
<1>3. ASSUME NEW r \in RequestIds, PublishRating(r) PROVE RatingsInv'
  BY <1>3, RatingAdded
<1>4. QED BY <1>2, <1>3 DEF RecordsNext, recordVars, ratingVars

LEMMA RatingsBegin == RecordsInit => RatingsInv
<1> SUFFICES ASSUME RecordsInit PROVE RatingsInv
  OBVIOUS
<1>1. /\ ratings = [r \in RequestIds |-> NoRating]
      /\ ratingCounts = [u \in Carriers |-> 0]
      /\ ratingScoreTotals = [u \in Carriers |-> 0]
      /\ carrierTagCounts = [u \in Carriers |-> [t \in Tags |-> 0]]
  BY DEF RecordsInit
<1>2. NoRating \in [score : Nat, tags : SUBSET Tags] /\ NoRating.score = 0
  BY DEF NoRating
<1>3. RatingTypes
  BY <1>1, <1>2 DEF RatingTypes
<1>4. ASSUME NEW u \in Carriers PROVE RatingsOf(u)
  <2>1. RatedOf(u) = {}
    BY <1>1 DEF RatedOf
  <2>2. \A t : TaggedOf(u, t) = {}
    BY <2>1 DEF TaggedOf
  <2>3. ScoresOf(u) = [r \in RequestIds |-> 0]
    BY <1>1, <1>2 DEF ScoresOf
  <2>4. SumOver(ScoresOf(u)) = 0
    BY <2>3, SumOfZeros
  <2>5. QED BY <1>1, <2>1, <2>2, <2>4, FS_EmptySet DEF RatingsOf
<1>5. QED BY <1>1, <1>3, <1>4 DEF RatingsInv

LEMMA RatingsInvariant == FairRecordsSpec => []RatingsInv
<1>1. TellingInv /\ RatingsInv /\ [RecordsNext]_recordVars => RatingsInv'
  BY RatingsStep, TellingTold
<1>2. FairRecordsSpec => []TellingInv
  BY TellingInvariant
<1>3. QED BY <1>1, <1>2, RatingsBegin, PTL DEF FairRecordsSpec

(* What a profile of a carrier reads: the requests it was ever awarded.     *)
LEMMA AssignedAre ==
  ASSUME TellingInv, NEW u \in Users
  PROVE  /\ AssignedTo(u) = {r \in RequestIds : requests[r].carrier = u}
         /\ \A r \in AssignedTo(u) : WasFunded(requests[r]) /\ requests[r].shipper # u
<1>1. ChainInv /\ IInv
  BY TellingTold
<1>2. u # NoUser
  BY AccountAssumption
<1>3. \A r \in RequestIds : requests[r].carrier = u => RequestExists(r)
  <2>1. \A r \in RequestIds : r >= nextRequestId => requests[r] = NoRequest
    BY <1>1 DEF IInv, RequestsOK
  <2>2. \A r \in RequestIds : r \in Nat /\ nextRequestId \in Nat
    BY <1>1, MarketTypes
  <2>3. NoRequest.carrier = NoUser
    BY DEF NoRequest
  <2>4. QED BY <1>2, <2>1, <2>2, <2>3 DEF RequestExists
<1>4. AssignedTo(u) = {r \in RequestIds : requests[r].carrier = u}
  BY <1>3 DEF AssignedTo
<1>5. ASSUME NEW r \in RequestIds, requests[r].carrier = u
      PROVE  WasFunded(requests[r]) /\ requests[r].shipper # u
  <2>1. Deal(r)
    BY <1>1, StoryTypes
  <2>2. WasFunded(requests[r])
    BY <2>1, <1>2, <1>5 DEF Deal
  <2>3. QED BY <2>1, <2>2, <1>5 DEF Deal
<1>6. QED BY <1>4, <1>5

(* The registry's totals are those of the ratings of what was completed.    *)
LEMMA RatingsRead ==
  ASSUME TellingInv, RatingsInv, NEW u \in Carriers
  PROVE  RatingsAddUp(u)
<1>1. u \in Users
  BY RecordsAssumption
<1>2. PICK A : A = AssignedTo(u)
  OBVIOUS
<1>3. A = {r \in RequestIds : requests[r].carrier = u}
  BY <1>1, <1>2, AssignedAre
<1>4. RatingsOf(u) /\ RatingTypes
  BY DEF RatingsInv
<1>5. {r \in CompletedBy(u) : ratings[r] # NoRating} = RatedOf(u)
  BY <1>2, <1>3 DEF CompletedBy, RatedOf, RatingsInv
<1>6. \A t \in Tags : {r \in RatedOf(u) : t \in ratings[r].tags} = TaggedOf(u, t)
  BY DEF TaggedOf
<1>7. SumOver(ScoresOf(u)) = SumOver([r \in A |-> ratings[r].score])
  <2>1. ratings \in [RequestIds -> [score : Nat, tags : SUBSET Tags]]
    BY <1>4 DEF RatingTypes
  <2>2. A \in SUBSET RequestIds
    BY <1>3
  <2>3. PICK f : f = [r \in A |-> ratings[r].score]
    OBVIOUS
  <2>4. f \in [A -> Nat]
    BY <2>1, <2>2, <2>3
  <2>5. ScoresOf(u) \in [RequestIds -> Nat]
    BY <2>1 DEF ScoresOf
  <2>6. PICK h : h = ScoresOf(u)
    OBVIOUS
  <2>7. h \in [RequestIds -> Nat]
    BY <2>5, <2>6
  <2>8. \A r \in RequestIds : h[r] = IF r \in A THEN f[r] ELSE 0
    BY <1>3, <2>3, <2>6 DEF ScoresOf
  <2>9. SumOver(h) = SumOver(f)
    BY ONLY <2>2, <2>4, <2>7, <2>8, SumPadded
  <2>10. QED BY <2>3, <2>6, <2>9
<1>8. ratingCounts[u] = Cardinality(RatedOf(u))
  BY <1>4 DEF RatingsOf
<1>9. ratingScoreTotals[u] = SumOver([r \in AssignedTo(u) |-> ratings[r].score])
  BY <1>2, <1>4, <1>7 DEF RatingsOf
<1>10. \A t \in Tags : carrierTagCounts[u][t] = Cardinality({r \in RatedOf(u) : t \in ratings[r].tags})
  BY <1>4, <1>6 DEF RatingsOf
<1>11. QED BY <1>5, <1>8, <1>9, <1>10 DEF RatingsAddUp

(* How a request of a carrier can be over.                                  *)
AgreedBy(w) == {r \in RequestIds : \E c \in Agreed(r) : cancellationRequests[r][c].requester = w}
LateOf(u) == {r \in AssignedTo(u) : requests[r].status = "Refunded" /\ Agreed(r) = {}}

LEMMA LateRead ==
  ASSUME TellingInv, CountedInv, NEW u \in Users
  PROVE  UnsuccessfulBy(u) = LateOf(u)
<1>1. log \in Seq(Seq(LogEvents))
  BY TellingTold
<1>2. AssignedTo(u) \subseteq RequestIds /\ \A r \in AssignedTo(u) : requests[r].carrier = u
  BY AssignedAre
<1>3. u \in Parties
  BY DEF Parties
<1>4. ASSUME NEW r \in RequestIds
      PROVE  r \in RequestsWith(u, "RequestExpired") <=> Mentioned(log, Expiries(r, u))
  <2>1. r \in RequestsWith(u, "RequestExpired") <=>
          \E p \in AllPlaces : /\ EventAt(p).name = "RequestExpired" /\ EventAt(p).party = u
                               /\ EventAt(p).request = r
    BY DEF RequestsWith
  <2>2. \A p : p \in FoundIn(log, Expiries(r, u)) <=>
          /\ p \in PlacesIn(log) /\ EventAt(p) \in LogEvents /\ EventAt(p) \in Expiries(r, u)
    BY <1>1, FoundIs
  <2>3. \A p \in PlacesIn(log) : EventAt(p) \in LogEvents
    BY <1>1, FoundIsEvent, PlacesRead
  <2>4. AllPlaces = PlacesIn(log)
    BY PlacesRead
  <2>5. \A p : p \in FoundIn(log, Expiries(r, u)) <=>
          /\ p \in AllPlaces /\ EventAt(p).name = "RequestExpired" /\ EventAt(p).party = u
          /\ EventAt(p).request = r
    BY <2>2, <2>3, <2>4 DEF Expiries
  <2>6. QED BY <2>1, <2>5 DEF Mentioned
<1>5. ASSUME NEW r \in AssignedTo(u)
      PROVE  Mentioned(log, Expiries(r, u)) <=> requests[r].status = "Refunded" /\ Agreed(r) = {}
  BY <1>2, <1>3, <1>5 DEF CountedInv, EndLogged
<1>6. QED BY <1>2, <1>4, <1>5 DEF UnsuccessfulBy, LateOf

(* One accepted cancellation for each request that ended by it.             *)
LEMMA CancellationsRead ==
  ASSUME TellingInv, CountedInv, NEW u \in Users
  PROVE  LET ended == AssignedTo(u) \cap AgreedBy(u)
         IN  IsFiniteSet(ended) /\ Cardinality(CancellationsBy(u)) = Cardinality(ended)
<1> DEFINE ended == AssignedTo(u) \cap AgreedBy(u)
<1>1. AssignedTo(u) \subseteq RequestIds
  BY AssignedAre
<1>2. IsFiniteSet(ended)
  BY <1>1, RequestIdsFinite, FS_Subset
<1>3. cancellationRequests \in [RequestIds -> Seq(Cancellations)]
  BY TellingTold
<1>4. \A r \in RequestIds : AgreedOK(r)
  BY DEF CountedInv
<1>5. ASSUME NEW r \in RequestIds
      PROVE  Agreed(r) \subseteq 1 .. MaxNegotiations
  <2>1. cancellationRequests[r] \in Seq(Cancellations) /\ Len(cancellationRequests[r]) <= MaxNegotiations
    BY <1>3, <1>4 DEF AgreedOK
  <2>2. DOMAIN cancellationRequests[r] = 1 .. Len(cancellationRequests[r])
    BY <2>1
  <2>3. QED BY <2>1, <2>2, NegotiationAssumption DEF Agreed
<1>6. ASSUME NEW x
      PROVE  x \in CancellationsBy(u) <=>
               \E r \in AssignedTo(u), c \in 1 .. MaxNegotiations :
                 /\ x = <<r, c>> /\ c \in Agreed(r) /\ cancellationRequests[r][c].requester = u
  BY DEF CancellationsBy, Agreed
<1> DEFINE theOne(r) == CHOOSE c \in Agreed(r) : cancellationRequests[r][c].requester = u
<1> DEFINE f == [r \in ended |-> <<r, theOne(r)>>]
<1>7. ASSUME NEW r \in ended
      PROVE  /\ r \in AssignedTo(u) /\ r \in RequestIds
             /\ theOne(r) \in Agreed(r) /\ cancellationRequests[r][theOne(r)].requester = u
             /\ \A c \in Agreed(r) : c = theOne(r)
  <2>1. r \in AssignedTo(u) /\ r \in RequestIds /\ r \in AgreedBy(u)
    BY <1>1
  <2>2. \E c \in Agreed(r) : cancellationRequests[r][c].requester = u
    BY <2>1 DEF AgreedBy
  <2>3. theOne(r) \in Agreed(r) /\ cancellationRequests[r][theOne(r)].requester = u
    BY <2>2
  <2>4. \A c, d \in Agreed(r) : c = d
    BY <1>4, <2>1 DEF AgreedOK
  <2>5. QED BY <2>1, <2>3, <2>4
<1> HIDE DEF theOne
<1>8. ASSUME NEW r \in ended PROVE f[r] \in CancellationsBy(u)
  <2>1. theOne(r) \in 1 .. MaxNegotiations
    BY <1>5, <1>7
  <2>2. QED BY <1>6, <1>7, <2>1
<1>9. ASSUME NEW x \in CancellationsBy(u) PROVE \E r \in ended : f[r] = x
  <2>1. PICK r \in AssignedTo(u), c \in 1 .. MaxNegotiations :
          x = <<r, c>> /\ c \in Agreed(r) /\ cancellationRequests[r][c].requester = u
    BY <1>6
  <2>2. r \in ended
    BY <1>1, <2>1 DEF AgreedBy
  <2>3. c = theOne(r)
    BY <1>7, <2>1, <2>2
  <2>4. QED BY <2>1, <2>2, <2>3
<1>10. f \in Bijection(ended, CancellationsBy(u))
  <2>1. f \in [ended -> CancellationsBy(u)]
    BY <1>8
  <2>2. \A r, q \in ended : f[r] = f[q] => r = q
    OBVIOUS
  <2>3. QED BY <2>1, <2>2, <1>9 DEF Bijection, Injection, Surjection, IsInjective
<1>11. ExistsBijection(ended, CancellationsBy(u))
  BY <1>10 DEF ExistsBijection
<1>12. Cardinality(CancellationsBy(u)) = Cardinality(ended)
  BY <1>2, <1>11, FS_Bijection
<1>13. QED BY <1>2, <1>12

(* Every shipment of a carrier that is over is counted, and in one place.   *)
LEMMA OutcomesRead ==
  ASSUME TellingInv, CountedInv, NEW u \in Users
  PROVE  OutcomesAddUp(u)
<1>1. /\ requests \in [RequestIds -> Requests]
      /\ AssignedTo(u) \subseteq RequestIds
      /\ \A r \in AssignedTo(u) : /\ requests[r].carrier = u /\ WasFunded(requests[r])
                                  /\ requests[r].shipper # u
  BY TellingTold, AssignedAre
<1>2. \A r \in RequestIds : AgreedOK(r)
  BY DEF CountedInv
<1>3. PICK W, A, B, C, D :
        /\ W = {r \in AssignedTo(u) : ~Active(r)}
        /\ A = CompletedBy(u) /\ B = LateOf(u)
        /\ C = AssignedTo(u) \cap AgreedBy(u) /\ D = CancelledByShipper(u)
  OBVIOUS
<1>4. ASSUME NEW r \in AssignedTo(u)
      PROVE  /\ r \in W <=> requests[r].status \in {"Completed", "Refunded"}
             /\ r \in A <=> requests[r].status = "Completed"
             /\ r \in B <=> requests[r].status = "Refunded" /\ Agreed(r) = {}
             /\ r \in C <=> \E c \in Agreed(r) : cancellationRequests[r][c].requester = u
             /\ r \in D <=> \E c \in Agreed(r) : cancellationRequests[r][c].requester = requests[r].shipper
             /\ Agreed(r) # {} => requests[r].status = "Refunded"
             /\ \A c, d \in Agreed(r) : c = d
             /\ \A c \in Agreed(r) : cancellationRequests[r][c].requester \in {u, requests[r].shipper}
  <2>1. requests[r].status \in RequestStatus
    BY <1>1 DEF Requests
  <2>2. r \in W <=> requests[r].status \in {"Completed", "Refunded"}
    BY <1>1, <1>3, <2>1 DEF Active, WasFunded, RequestStatus
  <2>3. r \in A <=> requests[r].status = "Completed"
    BY <1>3 DEF CompletedBy
  <2>4. r \in B <=> requests[r].status = "Refunded" /\ Agreed(r) = {}
    BY <1>3 DEF LateOf
  <2>5. r \in C <=> \E c \in Agreed(r) : cancellationRequests[r][c].requester = u
    BY <1>1, <1>3 DEF AgreedBy
  <2>6. r \in D <=> \E c \in Agreed(r) : cancellationRequests[r][c].requester = requests[r].shipper
    BY <1>3 DEF CancelledByShipper, Agreed
  <2>7. AgreedOK(r)
    BY <1>1, <1>2
  <2>8. Agreed(r) # {} => requests[r].status = "Refunded"
    BY <2>7 DEF AgreedOK
  <2>9. \A c, d \in Agreed(r) : c = d
    BY <2>7 DEF AgreedOK
  <2>10. \A c \in Agreed(r) : cancellationRequests[r][c].requester \in {u, requests[r].shipper}
    BY <1>1, <2>7 DEF AgreedOK, Agreed, Participants
  <2>11. QED BY <2>2, <2>3, <2>4, <2>5, <2>6, <2>8, <2>9, <2>10
<1>5. /\ W \subseteq AssignedTo(u) /\ A \subseteq AssignedTo(u) /\ B \subseteq AssignedTo(u)
      /\ C \subseteq AssignedTo(u) /\ D \subseteq AssignedTo(u)
  BY <1>3 DEF CompletedBy, LateOf, CancelledByShipper
<1>6. W = A \cup B \cup C \cup D
  <2>1. ASSUME NEW r \in AssignedTo(u) PROVE r \in W <=> r \in A \/ r \in B \/ r \in C \/ r \in D
    BY <1>4
  <2>2. QED BY <1>5, <2>1
<1>7. \A r \in AssignedTo(u) : /\ r \in A => r \notin B /\ r \notin C /\ r \notin D
                               /\ r \in B => r \notin C /\ r \notin D
  BY <1>4
<1>8. \A r \in AssignedTo(u) : r \in C => r \notin D
  BY <1>1, <1>4
<1>9. /\ A \cap B = {} /\ A \cap C = {} /\ A \cap D = {} /\ B \cap C = {} /\ B \cap D = {}
      /\ C \cap D = {}
  BY <1>5, <1>7, <1>8
<1>10. IsFiniteSet(W)
  BY <1>1, <1>5, RequestIdsFinite, FS_Subset
<1>11. Cardinality(W) = Cardinality(A) + Cardinality(B) + Cardinality(C) + Cardinality(D)
  BY ONLY <1>6, <1>9, <1>10, FourParts
<1>12. Cardinality(C) = Cardinality(CancellationsBy(u))
  BY <1>3, CancellationsRead
<1>13. B = UnsuccessfulBy(u)
  BY <1>3, LateRead
<1>14. QED BY <1>3, <1>11, <1>12, <1>13 DEF OutcomesAddUp

-----------------------------------------------------------------------------
(* Part XIV.  What is on record stays.                                      *)

(* A step writes a block or nothing.                                        *)
LEMMA LogGrows ==
  ASSUME TellingInv, [RecordsNext]_recordVars
  PROVE  \E es : Grows(log, es, log') \/ log' = log
<1>1. ChainInv /\ log \in Seq(Seq(LogEvents))
  BY TellingTold
<1>2. (\E es : Recorded(es)) \/ log' = log
  BY <1>1, EveryStepRecorded
<1>3. ASSUME NEW es, Recorded(es) PROVE Grows(log, es, log')
  BY <1>1, <1>3 DEF Recorded, Grows
<1>4. QED BY <1>2, <1>3

(* The rows of a history, block by block, before and after a step.          *)
TakesPart(rs, u, q) == u \in {rs[q].shipper, rs[q].carrier}
IsRow(l, rs, u, b, i) == l[b][i].name \in PaymentEvents /\ TakesPart(rs, u, l[b][i].request)
RowFrom(l, rs, u, from, p) ==
  \E b \in from .. Len(l) : \E i \in DOMAIN l[b] : p = <<b, i>> /\ IsRow(l, rs, u, b, i)

LEMMA HistoryIs ==
  ASSUME NEW u, NEW from, NEW p
  PROVE  /\ p \in PaymentHistory(u, from, Len(log)) <=> RowFrom(log, requests, u, from, p)
         /\ p \in PaymentHistory(u, from, Len(log))' <=> RowFrom(log', requests', u, from, p)
<1>1. p \in PaymentHistory(u, from, Len(log)) <=> RowFrom(log, requests, u, from, p)
  BY DEF PaymentHistory, Places, EventAt, Concerns, RowFrom, IsRow, TakesPart
<1>2. p \in PaymentHistory(u, from, Len(log))' <=> RowFrom(log', requests', u, from, p)
  BY DEF PaymentHistory, Places, EventAt, Concerns, RowFrom, IsRow, TakesPart
<1>3. QED BY <1>1, <1>2

(* Whose a payment was does not change after it.                            *)
LEMMA PaymentsKeepTheirOwners ==
  ASSUME Passing, NEW es, Grows(log, es, log') \/ log' = log,
         NEW b \in 1 .. Len(log), NEW i \in DOMAIN log[b], log[b][i].name \in PaymentEvents, NEW u
  PROVE  TakesPart(requests', u, log[b][i].request) <=> TakesPart(requests, u, log[b][i].request)
<1>1. log \in Seq(Seq(LogEvents))
  BY TellingTold DEF Passing
<1>2. log[b][i] \in LogEvents
  BY <1>1
<1>3. PICK q : q = log[b][i].request
  OBVIOUS
<1>4. q \in RequestIds
  BY <1>2, <1>3 DEF LogEvents
<1>5. Mentioned(log, MoneyOf(q))
  <2>1. log[b][i] \in MoneyOf(q)
    BY <1>2, <1>3 DEF MoneyOf
  <2>2. <<b, i>> \in PlacesIn(log)
    BY IsPlace
  <2>3. <<b, i>> \in FoundIn(log, MoneyOf(q))
    BY <2>1, <2>2 DEF FoundIn
  <2>4. QED BY <2>3 DEF Mentioned
<1>6. WasFunded(requests[q])
  BY <1>4, <1>5 DEF Passing, CountedInv, EndLogged
<1>7. requests'[q].carrier = requests[q].carrier /\ requests'[q].shipper = requests[q].shipper
  BY <1>4, <1>6, EndsLast
<1>8. QED BY <1>3, <1>7 DEF TakesPart

(* A history that is read on is the one that is read afresh.                *)
LEMMA HistoryReadOn ==
  ASSUME Passing, NEW es, Grows(log, es, log') \/ log' = log, NEW u, NEW cursor, cursor = Len(log),
         NEW shown, shown = PaymentHistory(u, 1, Len(log))
  PROVE  HistoryRefreshed(u, shown, cursor)' = PaymentHistory(u, 1, Len(log))'
<1>1. log \in Seq(Seq(LogEvents)) /\ cursor \in Nat
  <2>1. log \in Seq(Seq(LogEvents))
    BY TellingTold DEF Passing
  <2>2. QED BY <2>1
<1>2. /\ Len(log') \in Nat /\ cursor <= Len(log')
      /\ \A b \in 1 .. cursor : log'[b] = log[b]
  <2>1. CASE log' = log
    BY <1>1, <2>1
  <2>2. CASE Grows(log, es, log')
    BY <1>1, <2>2 DEF Grows
  <2>3. QED BY <2>1, <2>2
<1>3. HistoryRefreshed(u, shown, cursor)' = shown \cup PaymentHistory(u, cursor + 1, Len(log))'
  BY DEF HistoryRefreshed
<1>4. ASSUME NEW p
      PROVE  p \in PaymentHistory(u, 1, Len(log))' <=>
               p \in shown \/ p \in PaymentHistory(u, cursor + 1, Len(log))'
  <2> DEFINE after(b, i) == p = <<b, i>> /\ IsRow(log', requests', u, b, i)
             before(b, i) == p = <<b, i>> /\ IsRow(log, requests, u, b, i)
  <2>1. /\ p \in PaymentHistory(u, 1, Len(log))' <=>
             \E b \in 1 .. Len(log') : \E i \in DOMAIN log'[b] : after(b, i)
        /\ p \in PaymentHistory(u, cursor + 1, Len(log))' <=>
             \E b \in cursor + 1 .. Len(log') : \E i \in DOMAIN log'[b] : after(b, i)
        /\ p \in shown <=> \E b \in 1 .. cursor : \E i \in DOMAIN log[b] : before(b, i)
    BY HistoryIs DEF RowFrom
  <2>2. ASSUME NEW b \in 1 .. cursor, NEW i \in DOMAIN log[b] PROVE after(b, i) <=> before(b, i)
    <3>1. log'[b][i] = log[b][i]
      BY <1>2
    <3>2. log[b][i].name \in PaymentEvents =>
            (TakesPart(requests', u, log[b][i].request) <=> TakesPart(requests, u, log[b][i].request))
      BY PaymentsKeepTheirOwners
    <3>3. QED BY <3>1, <3>2 DEF IsRow
  <2> HIDE DEF after, before
  <2>3. \A b \in 1 .. cursor : log'[b] = log[b]
    BY <1>2
  <2>4. (\E b \in 1 .. cursor : \E i \in DOMAIN log'[b] : after(b, i))
          <=> \E b \in 1 .. cursor : \E i \in DOMAIN log[b] : before(b, i)
    BY <2>2, <2>3
  <2>5. \A b : b \in 1 .. Len(log') <=> b \in 1 .. cursor \/ b \in cursor + 1 .. Len(log')
    BY <1>1, <1>2
  <2>6. QED BY <2>1, <2>4, <2>5
<1>5. QED BY <1>3, <1>4

(* What was delivered on time, read from a log and from the requests.       *)
SaidOf(l, name, u, r) ==
  {p \in PlacesIn(l) : /\ l[p[1]][p[2]].name = name /\ l[p[1]][p[2]].party = u
                       /\ l[p[1]][p[2]].request = r}
TimeAt(l, p) == l[p[1]][p[2]].completedAt
Delivery(l, u, r) == LatestOf(SaidOf(l, "RequestCompleted", u, r))
OnTimeIn(l, request, u, r) ==
  /\ request.carrier = u /\ request.status = "Completed"
  /\ SaidOf(l, "RequestCompleted", u, r) # {}
  /\ TimeAt(l, Delivery(l, u, r)) <= request.deadline

LEMMA OnTimeIs ==
  ASSUME NEW u, NEW r
  PROVE  r \in OnTimeBy(u) <=>
           r \in RequestIds /\ RequestExists(r) /\ OnTimeIn(log, requests[r], u, r)
<1>1. {p \in AllPlaces : /\ EventAt(p).name = "RequestCompleted" /\ EventAt(p).party = u
                         /\ EventAt(p).request = r} = SaidOf(log, "RequestCompleted", u, r)
  BY DEF AllPlaces, Places, PlacesIn, EventAt, SaidOf
<1>2. CompletedAt(u, r) = TimeAt(log, Delivery(log, u, r))
  BY <1>1 DEF CompletedAt, TimeAt, Delivery, EventAt
<1>3. r \in RequestsWith(u, "RequestCompleted") <=> SaidOf(log, "RequestCompleted", u, r) # {}
  BY <1>1 DEF RequestsWith
<1>4. QED BY <1>2, <1>3 DEF OnTimeBy, CompletedBy, AssignedTo, OnTimeIn

LEMMA OnTimeIsAfter ==
  ASSUME NEW u, NEW r
  PROVE  r \in OnTimeBy(u)' <=>
           r \in RequestIds /\ RequestExists(r)' /\ OnTimeIn(log', requests'[r], u, r)
<1>1. {p \in AllPlaces : /\ EventAt(p).name = "RequestCompleted" /\ EventAt(p).party = u
                         /\ EventAt(p).request = r}' = SaidOf(log', "RequestCompleted", u, r)
  BY DEF AllPlaces, Places, PlacesIn, EventAt, SaidOf
<1>2. CompletedAt(u, r)' = TimeAt(log', Delivery(log', u, r))
  BY <1>1 DEF CompletedAt, TimeAt, Delivery, EventAt
<1>3. r \in RequestsWith(u, "RequestCompleted")' <=> SaidOf(log', "RequestCompleted", u, r) # {}
  BY <1>1 DEF RequestsWith
<1>4. QED BY <1>2, <1>3 DEF OnTimeBy, CompletedBy, AssignedTo, OnTimeIn

(* A completion that is told once is the one that is read.                  *)
LEMMA OneDelivery ==
  ASSUME NEW l, l \in Seq(Seq(LogEvents)), NEW u, NEW r, NEW p,
         FoundIn(l, NamedOf(r, "RequestCompleted")) = {p},
         SaidOf(l, "RequestCompleted", u, r) # {}
  PROVE  Delivery(l, u, r) = p /\ p \in SaidOf(l, "RequestCompleted", u, r)
<1>1. \A x \in SaidOf(l, "RequestCompleted", u, r) : x \in FoundIn(l, NamedOf(r, "RequestCompleted"))
  <2> SUFFICES ASSUME NEW x \in SaidOf(l, "RequestCompleted", u, r)
               PROVE  x \in FoundIn(l, NamedOf(r, "RequestCompleted"))
    OBVIOUS
  <2>1. x \in PlacesIn(l)
    BY DEF SaidOf
  <2>2. x[1] \in 1 .. Len(l) /\ x[2] \in DOMAIN l[x[1]]
    BY <2>1, PlaceIs
  <2>3. l[x[1]][x[2]] \in LogEvents
    BY <2>2
  <2>4. QED BY <2>1, <2>3 DEF SaidOf, FoundIn, NamedOf
<1>2. SaidOf(l, "RequestCompleted", u, r) = {p}
  BY <1>1
<1>3. LatestOf({p}) = p
  BY DEF LatestOf
<1>4. QED BY <1>2, <1>3 DEF Delivery

(* A request with a carrier exists, before a step and after it.             *)
CarriersKnown == \A q \in RequestIds : requests[q].carrier \in Users => RequestExists(q)

LEMMA KnownByCarrier == TellingInv => CarriersKnown
<1> SUFFICES ASSUME TellingInv, NEW q \in RequestIds, requests[q].carrier \in Users
             PROVE  RequestExists(q)
  BY DEF CarriersKnown
<1>1. PICK u \in Users : u = requests[q].carrier
  OBVIOUS
<1>2. q \in AssignedTo(u)
  BY <1>1, AssignedAre
<1>3. QED BY <1>2 DEF AssignedTo

LEMMA KnownAfter == TellingInv' => CarriersKnown'
BY KnownByCarrier, PTL

(* What was on time stays on time.                                          *)
LEMMA OnTimeStays ==
  ASSUME Passing, CountedInv', [ChainNext]_chainVars,
         NEW es, Grows(log, es, log') \/ log' = log, NEW u \in Users,
         NEW r \in OnTimeBy(u)
  PROVE  r \in OnTimeBy(u)'
<1>1. /\ ChainInv /\ TellingInv /\ TellingInv' /\ log \in Seq(Seq(LogEvents))
      /\ \A q \in RequestIds : EndLogged(q)
  BY TellingTold DEF Passing, CountedInv
<1>2. \A q \in RequestIds : EndLogged(q)'
  BY DEF CountedInv
<1>3. r \in RequestIds /\ OnTimeIn(log, requests[r], u, r)
  BY OnTimeIs
<1>4. requests'[r] = requests[r] /\ requests[r].status = "Completed" /\ requests[r].carrier = u
  BY <1>1, <1>3, OverStays DEF OnTimeIn
<1>5. log' \in Seq(Seq(LogEvents))
  <2>1. CASE log' = log
    BY <1>1, <2>1
  <2>2. CASE Grows(log, es, log')
    BY <2>2 DEF Grows
  <2>3. QED BY <2>1, <2>2
<1>6. Once(log, NamedOf(r, "RequestCompleted"))
  BY <1>1, <1>3, <1>4 DEF EndLogged
<1>7. Once(log', NamedOf(r, "RequestCompleted"))
  BY <1>2, <1>3, <1>4 DEF EndLogged
<1>8. PICK K : K = NamedOf(r, "RequestCompleted")
  OBVIOUS
<1>9. PICK p : FoundIn(log, K) = {p}
  BY <1>6, <1>8 DEF Once
<1>10. FoundIn(log', K) = {p} /\ log'[p[1]][p[2]] = log[p[1]][p[2]]
  <2>1. CASE log' = log
    BY <1>9, <2>1
  <2>2. CASE Grows(log, es, log')
    <3>1. p \in FoundIn(log', K) /\ log'[p[1]][p[2]] = log[p[1]][p[2]]
      BY <1>9, <2>2, FoundGrows
    <3>2. QED BY <3>1, <1>7, <1>8 DEF Once
  <2>3. QED BY <2>1, <2>2
<1>11. Delivery(log, u, r) = p /\ p \in SaidOf(log, "RequestCompleted", u, r)
  <2>1. SaidOf(log, "RequestCompleted", u, r) # {}
    BY <1>3 DEF OnTimeIn
  <2>2. QED BY <2>1, <1>1, <1>8, <1>9, OneDelivery
<1>12. p \in SaidOf(log', "RequestCompleted", u, r)
  <2>1. p \in PlacesIn(log')
    BY <1>10 DEF FoundIn
  <2>2. QED BY <2>1, <1>10, <1>11 DEF SaidOf
<1>13. Delivery(log', u, r) = p
  BY <1>12, <1>5, <1>8, <1>10, OneDelivery
<1>14. OnTimeIn(log', requests'[r], u, r)
  <2>1. TimeAt(log', p) = TimeAt(log, p)
    BY <1>10 DEF TimeAt
  <2>2. QED BY <2>1, <1>3, <1>4, <1>11, <1>12, <1>13 DEF OnTimeIn
<1>15. RequestExists(r)'
  BY <1>1, <1>3, <1>4, KnownAfter DEF CarriersKnown
<1>16. QED BY <1>3, <1>14, <1>15, OnTimeIsAfter

-----------------------------------------------------------------------------
(* The theorem: every step keeps the records counted once and what they     *)
(* said.                                                                    *)

RecordsRead == \A u \in Carriers : OutcomesAddUp(u) /\ RatingsAddUp(u)

LEMMA RecordsCount == TellingInv /\ CountedInv /\ RatingsInv => RecordsRead
<1> SUFFICES ASSUME TellingInv, CountedInv, RatingsInv, NEW u \in Carriers
             PROVE  OutcomesAddUp(u) /\ RatingsAddUp(u)
  BY DEF RecordsRead
<1>1. u \in Users
  BY RecordsAssumption
<1>2. QED BY <1>1, OutcomesRead, RatingsRead

LEMMA RecordsCountAfter == TellingInv' /\ CountedInv' /\ RatingsInv' => RecordsRead'
BY RecordsCount, PTL

(* What a carrier's wallet saw before a step, it sees after it.             *)
LEMMA RecordsStayFor ==
  ASSUME TellingInv, TellingInv', CountedInv, CountedInv', [RecordsNext]_recordVars,
         NEW u \in Users
  PROVE  /\ OnTimeBy(u) \subseteq OnTimeBy(u)'
         /\ \E cursor \in {Len(log)} : \E shown \in {PaymentHistory(u, 1, cursor)} :
              HistoryRefreshed(u, shown, cursor)' = PaymentHistory(u, 1, Len(log))'
<1>1. Passing
  BY PassingStep
<1>2. PICK es : Grows(log, es, log') \/ log' = log
  BY LogGrows
<1>3. [ChainNext]_chainVars
  <2>1. ChainInv
    BY TellingTold
  <2>2. QED BY <2>1, RecordsMove
<1>4. \A r \in OnTimeBy(u) : r \in OnTimeBy(u)'
  BY <1>1, <1>2, <1>3, OnTimeStays
<1>5. PICK cursor : cursor = Len(log)
  OBVIOUS
<1>6. PICK shown : shown = PaymentHistory(u, 1, Len(log))
  OBVIOUS
<1>7. HistoryRefreshed(u, shown, cursor)' = PaymentHistory(u, 1, Len(log))'
  BY <1>1, <1>2, <1>5, <1>6, HistoryReadOn
<1>8. QED BY <1>4, <1>5, <1>6, <1>7

(* What is on record counts once and stays, for every carrier and in every  *)
(* step: a reputation (loadCarrierReputationProfile) counts each delivery   *)
(* that is over once, as completed, expired or ended by agreement; the      *)
(* registry's totals are the ratings of completed deliveries; a delivery    *)
(* that was on time is so for good, whatever is amended or extended; and a  *)
(* payment history read on from the last block shown is the one that a      *)
(* fresh page reads.                                                        *)
THEOREM RecordsAlwaysCountOnceAndStay == FairRecordsSpec => RecordsCountOnceAndStay
<1> DEFINE Stays == \A u \in Carriers :
             /\ OutcomesAddUp(u)' /\ RatingsAddUp(u)'
             /\ OnTimeBy(u) \subseteq OnTimeBy(u)'
             /\ \E cursor \in {Len(log)} : \E shown \in {PaymentHistory(u, 1, cursor)} :
                  HistoryRefreshed(u, shown, cursor)' = PaymentHistory(u, 1, Len(log))'
<1>1. TellingInv /\ TellingInv' /\ CountedInv /\ CountedInv' /\ RatingsInv' /\ [RecordsNext]_recordVars
        => [Stays]_recordVars
  <2> SUFFICES ASSUME TellingInv, TellingInv', CountedInv, CountedInv', RatingsInv',
                      [RecordsNext]_recordVars, NEW u \in Carriers
               PROVE  /\ OutcomesAddUp(u)' /\ RatingsAddUp(u)'
                      /\ OnTimeBy(u) \subseteq OnTimeBy(u)'
                      /\ \E cursor \in {Len(log)} : \E shown \in {PaymentHistory(u, 1, cursor)} :
                           HistoryRefreshed(u, shown, cursor)' = PaymentHistory(u, 1, Len(log))'
    OBVIOUS
  <2>1. OutcomesAddUp(u)' /\ RatingsAddUp(u)'
    BY RecordsCountAfter DEF RecordsRead
  <2>2. u \in Users
    BY RecordsAssumption
  <2>3. QED BY <2>1, <2>2, RecordsStayFor
<1>2. FairRecordsSpec => []TellingInv /\ []CountedInv /\ []RatingsInv
  BY TellingInvariant, CountedInvariant, RatingsInvariant
<1> HIDE DEF Stays
<1>3. FairRecordsSpec => [][Stays]_recordVars
  BY <1>1, <1>2, PTL DEF FairRecordsSpec
<1>4. QED BY <1>3 DEF RecordsCountOnceAndStay, Stays

=============================================================================
