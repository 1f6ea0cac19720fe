------------------------- MODULE DeliveryEscrow_proof -------------------------
(***************************************************************************)
(* The theorems about DeliveryEscrow.  First what the operators of          *)
(* CargoSums and the helpers of DeliveryEscrow return: sums of CARGO when a *)
(* term changes, the payouts of a plan and the execution order after an     *)
(* amendment; none of these lemmas mentions a state.  Then one inductive    *)
(* invariant, IInv, made of five named parts, and a lemma per action that   *)
(* shows that it keeps them.                                                *)
(***************************************************************************)
EXTENDS DeliveryEscrow, FiniteSetTheorems, TLAPS

-----------------------------------------------------------------------------
(* Sums: what one is worth when one of its terms changes.  These lemmas     *)
(* carry every accounting proof of the project.                             *)

(* The units of one term: as many as the term says.                         *)
LEMMA UnitsOfTerm ==
  ASSUME NEW x, NEW n \in Nat
  PROVE  /\ IsFiniteSet({x} \X (1 .. n))
         /\ Cardinality({x} \X (1 .. n)) = n
<1>1. IsFiniteSet({x}) /\ Cardinality({x}) = 1
  BY FS_Singleton
<1>2. IsFiniteSet(1 .. n) /\ Cardinality(1 .. n) = n
  <2>1. /\ IsFiniteSet(1 .. n)
        /\ Cardinality(1 .. n) = IF 1 > n THEN 0 ELSE n - 1 + 1
    BY FS_Interval
  <2>2. QED BY <2>1
<1>3. /\ IsFiniteSet({x} \X (1 .. n))
      /\ Cardinality({x} \X (1 .. n)) = Cardinality({x}) * Cardinality(1 .. n)
  BY <1>1, <1>2, FS_Product
<1>4. QED BY <1>1, <1>2, <1>3

(* A sum of natural numbers over a finite set is a natural number.          *)
LEMMA SumIsNat ==
  ASSUME NEW S, IsFiniteSet(S), NEW f \in [S -> Nat]
  PROVE  IsFiniteSet(Units(f)) /\ SumOver(f) \in Nat
<1> DEFINE T == { {x} \X (1 .. f[x]) : x \in S }
<1>1. IsFiniteSet(T)
  <2> DEFINE g == [x \in S |-> {x} \X (1 .. f[x])]
  <2>1. g \in Surjection(S, T)
    BY DEF Surjection
  <2>2. QED BY <2>1, FS_Surjection
<1>2. \A U \in T : IsFiniteSet(U)
  <2>1. ASSUME NEW x \in S PROVE IsFiniteSet({x} \X (1 .. f[x]))
    <3>1. f[x] \in Nat
      OBVIOUS
    <3>2. QED BY <3>1, UnitsOfTerm
  <2>2. QED BY <2>1
<1>3. IsFiniteSet(UNION T)
  BY <1>1, <1>2, FS_UNION
<1>4. Units(f) = UNION T
  BY DEF Units
<1>5. QED BY <1>3, <1>4, FS_CardinalityType DEF SumOver

(* Replacing one term changes the sum by exactly that much.                 *)
LEMMA SumUpdate ==
  ASSUME NEW S, IsFiniteSet(S), NEW f \in [S -> Nat],
         NEW r \in S, NEW n \in Nat
  PROVE  SumOver([f EXCEPT ![r] = n]) = SumOver(f) - f[r] + n
<1> DEFINE g == [f EXCEPT ![r] = n]
           Old == {r} \X (1 .. f[r])
           New == {r} \X (1 .. n)
           Rest == Units(f) \ Old
<1>1. g \in [S -> Nat] /\ g[r] = n /\ \A x \in S : x # r => g[x] = f[x]
  OBVIOUS
<1>2. IsFiniteSet(Units(f)) /\ SumOver(f) \in Nat
  BY SumIsNat
<1>3. IsFiniteSet(Old) /\ Cardinality(Old) = f[r]
  BY UnitsOfTerm
<1>4. IsFiniteSet(New) /\ Cardinality(New) = n
  BY UnitsOfTerm
<1>5. Units(f) \cap Old = Old
  BY DEF Units
<1>6. /\ IsFiniteSet(Rest)
      /\ Cardinality(Rest) = SumOver(f) - f[r]
  <2>1. /\ IsFiniteSet(Rest)
        /\ Cardinality(Rest) = Cardinality(Units(f)) - Cardinality(Units(f) \cap Old)
    BY <1>2, FS_Difference
  <2>2. Cardinality(Units(f) \cap Old) = f[r]
    BY <1>3, <1>5
  <2>3. QED BY <2>1, <2>2 DEF SumOver
<1>7. Rest \cap New = {}
  BY DEF Units
<1>8. Units(g) = Rest \cup New
  <2>1. ASSUME NEW p \in Units(g) PROVE p \in Rest \cup New
    <3>1. PICK x \in S : p \in {x} \X (1 .. g[x])
      BY <1>1 DEF Units
    <3>2. CASE x = r
      BY <3>1, <3>2, <1>1
    <3>3. CASE x # r
      <4>1. p \in {x} \X (1 .. f[x])
        BY <3>1, <3>3, <1>1
      <4>2. p \in Units(f) /\ p \notin Old
        BY <4>1, <3>3 DEF Units
      <4>3. QED BY <4>2
    <3>4. QED BY <3>2, <3>3
  <2>2. ASSUME NEW p \in New PROVE p \in Units(g)
    BY <1>1, <2>2 DEF Units
  <2>3. ASSUME NEW p \in Rest PROVE p \in Units(g)
    <3>1. PICK x \in S : p \in {x} \X (1 .. f[x])
      BY <2>3 DEF Units
    <3>2. x # r
      BY <3>1, <2>3
    <3>3. p \in {x} \X (1 .. g[x])
      BY <3>1, <3>2, <1>1
    <3>4. QED BY <3>3, <1>1 DEF Units
  <2>4. QED BY <2>1, <2>2, <2>3
<1>9. Cardinality(Units(g)) =
        Cardinality(Rest) + Cardinality(New) - Cardinality(Rest \cap New)
  BY <1>4, <1>6, <1>8, FS_Union
<1>10. QED BY <1>2, <1>4, <1>6, <1>7, <1>9, FS_EmptySet DEF SumOver

(* Nothing sums to nothing.                                                 *)
LEMMA SumOfZeros ==
  ASSUME NEW S
  PROVE  SumOver([x \in S |-> 0]) = 0
<1>1. Units([x \in S |-> 0]) = {}
  BY DEF Units
<1>2. QED BY <1>1, FS_EmptySet DEF SumOver

(* No term is larger than the sum.                                          *)
LEMMA TermBelowSum ==
  ASSUME NEW S, IsFiniteSet(S), NEW f \in [S -> Nat], NEW r \in S
  PROVE  f[r] <= SumOver(f)
<1>1. IsFiniteSet(Units(f))
  BY SumIsNat
<1>2. {r} \X (1 .. f[r]) \in SUBSET Units(f)
  BY DEF Units
<1>3. Cardinality({r} \X (1 .. f[r])) <= Cardinality(Units(f))
  BY <1>1, <1>2, FS_Subset
<1>4. QED BY <1>3, UnitsOfTerm DEF SumOver

(* A sum whose units fit into another one's is not larger.                  *)
LEMMA UnitsInjected ==
  ASSUME NEW S, NEW f, NEW k \in Nat \ {0}, NEW T, IsFiniteSet(T), NEW g \in [T -> Nat],
         S \subseteq T, f \in [S -> Nat], IsFiniteSet(S),
         \A x \in S : k * f[x] <= g[x]
  PROVE  k * SumOver(f) <= SumOver(g)
<1> DEFINE Source == Units(f) \X (1 .. k)
           inject == [u \in Source |-> <<u[1][1], (u[1][2] - 1) * k + u[2]>>]
<1>1. /\ IsFiniteSet(Units(f)) /\ SumOver(f) \in Nat
      /\ IsFiniteSet(Units(g)) /\ SumOver(g) \in Nat
  BY SumIsNat
<1>2. IsFiniteSet(1 .. k) /\ Cardinality(1 .. k) = k
  BY FS_Interval
<1>3. IsFiniteSet(Source) /\ Cardinality(Source) = SumOver(f) * k
  BY <1>1, <1>2, FS_Product DEF SumOver
<1>4. ASSUME NEW u \in Source
      PROVE  /\ u[1][1] \in S /\ u[1][2] \in 1 .. f[u[1][1]] /\ u[2] \in 1 .. k
             /\ u = <<<<u[1][1], u[1][2]>>, u[2]>>
  BY DEF Units
<1>5. ASSUME NEW u \in Source PROVE inject[u] \in Units(g)
  <2> DEFINE x == u[1][1]
             i == u[1][2]
             j == u[2]
  <2>1. x \in S /\ x \in T /\ i \in 1 .. f[x] /\ j \in 1 .. k /\ f[x] \in Nat /\ g[x] \in Nat
    BY <1>4
  <2>2. (i - 1) * k + j \in 1 .. g[x]
    <3>1. (i - 1) * k + j \in Int /\ (i - 1) * k >= 0
      BY <2>1
    <3>2. k * i <= k * f[x]
      BY <2>1
    <3>3. (i - 1) * k + j <= k * i
      BY <2>1
    <3>4. k * f[x] <= g[x] /\ k * f[x] \in Int /\ k * i \in Int
      BY <2>1
    <3>5. QED BY <3>1, <3>2, <3>3, <3>4, <2>1
  <2>3. inject[u] = <<x, (i - 1) * k + j>>
    OBVIOUS
  <2>4. inject[u] \in {x} \X (1 .. g[x])
    BY <2>2, <2>3
  <2>5. QED BY <2>1, <2>4 DEF Units
<1>6. ASSUME NEW u \in Source, NEW v \in Source, inject[u] = inject[v] PROVE u = v
  <2>1. u[1][1] = v[1][1] /\ (u[1][2] - 1) * k + u[2] = (v[1][2] - 1) * k + v[2]
    BY <1>6
  <2>2. /\ u[1][2] \in Int /\ u[2] \in 1 .. k
        /\ v[1][2] \in Int /\ v[2] \in 1 .. k
    <3>1. f[u[1][1]] \in Nat /\ f[v[1][1]] \in Nat
      BY <1>4
    <3>2. QED BY <1>4, <3>1
  <2>3. u[1][2] = v[1][2]
    <3> HIDE DEF inject, Source
    <3> DEFINE a == u[1][2] - v[1][2]
    <3>1. a \in Int /\ a * k = v[2] - u[2]
      BY <2>1, <2>2
    <3>2. -k < a * k /\ a * k < k
      BY <3>1, <2>2
    <3>3. a = 0
      <4> HIDE DEF a
      <4>1. CASE a >= 1
        BY <4>1, <3>1, <3>2
      <4>2. CASE a <= -1
        BY <4>2, <3>1, <3>2
      <4>3. QED BY <4>1, <4>2, <3>1
    <3>4. QED BY <3>3, <2>2
  <2>4. u[2] = v[2]
    BY <2>1, <2>2, <2>3
  <2>5. QED BY <2>1, <2>3, <2>4, <1>4
<1>7. inject \in Injection(Source, Units(g))
  BY <1>5, <1>6 DEF Injection, IsInjective
<1>8. Cardinality(Source) <= Cardinality(Units(g))
  <2> HIDE DEF inject, Source
  <2>1. QED BY <1>7, <1>1, FS_Injection
<1>9. QED BY <1>8, <1>3, <1>1 DEF SumOver

(* The sum of sums, term by term.                                           *)
LEMMA SumOfTwo ==
  ASSUME NEW S, IsFiniteSet(S), NEW f \in [S -> Nat], NEW g \in [S -> Nat]
  PROVE  SumOver([x \in S |-> f[x] + g[x]]) = SumOver(f) + SumOver(g)
<1> DEFINE h == [x \in S |-> f[x] + g[x]]
           shift == [u \in Units(g) |-> <<u[1], f[u[1]] + u[2]>>]
           Rest == Units(h) \ Units(f)
<1>1. h \in [S -> Nat] /\ \A x \in S : h[x] = f[x] + g[x]
  OBVIOUS
<1>2. /\ IsFiniteSet(Units(f)) /\ SumOver(f) \in Nat
      /\ IsFiniteSet(Units(g)) /\ SumOver(g) \in Nat
      /\ IsFiniteSet(Units(h)) /\ SumOver(h) \in Nat
  <2> HIDE DEF h
  <2>1. QED BY <1>1, SumIsNat
<1>3. ASSUME NEW u \in Units(g)
      PROVE  u[1] \in S /\ u[2] \in 1 .. g[u[1]] /\ u = <<u[1], u[2]>>
  BY DEF Units
<1>4. ASSUME NEW u \in Units(h)
      PROVE  u[1] \in S /\ u[2] \in 1 .. f[u[1]] + g[u[1]] /\ u = <<u[1], u[2]>>
  BY DEF Units
<1>5. Units(f) \subseteq Units(h)
  <2>1. ASSUME NEW u \in Units(f) PROVE u \in Units(h)
    <3>1. PICK x \in S : u \in {x} \X (1 .. f[x])
      BY DEF Units
    <3>2. f[x] \in Nat /\ g[x] \in Nat
      OBVIOUS
    <3>3. u \in {x} \X (1 .. h[x])
      BY <3>1, <3>2
    <3>4. QED BY <3>3 DEF Units
  <2>2. QED BY <2>1
<1>6. ASSUME NEW u \in Rest PROVE u[1] \in S /\ u[2] \in f[u[1]] + 1 .. f[u[1]] + g[u[1]]
  <2>1. u[1] \in S /\ u[2] \in 1 .. f[u[1]] + g[u[1]] /\ u = <<u[1], u[2]>> /\ u \notin Units(f)
    BY <1>4
  <2>2. f[u[1]] \in Nat /\ g[u[1]] \in Nat
    BY <2>1
  <2>3. u[2] \notin 1 .. f[u[1]]
    <3>1. u[2] \in 1 .. f[u[1]] => u \in {u[1]} \X (1 .. f[u[1]])
      BY <2>1
    <3>2. QED BY <3>1, <2>1 DEF Units
  <2>4. QED BY <2>1, <2>2, <2>3
<1>7. ASSUME NEW u \in Units(g) PROVE shift[u] \in Rest
  <2>1. u[1] \in S /\ u[2] \in 1 .. g[u[1]] /\ f[u[1]] \in Nat /\ g[u[1]] \in Nat
    BY <1>3
  <2>2. shift[u] = <<u[1], f[u[1]] + u[2]>>
    OBVIOUS
  <2>3. shift[u] \in {u[1]} \X (1 .. h[u[1]])
    BY <2>1, <2>2
  <2>4. shift[u] \in Units(h)
    BY <2>1, <2>3 DEF Units
  <2>5. ASSUME shift[u] \in Units(f) PROVE FALSE
    <3>1. PICK x \in S : shift[u] \in {x} \X (1 .. f[x])
      BY <2>5 DEF Units
    <3>2. x = u[1] /\ f[u[1]] + u[2] \in 1 .. f[u[1]]
      BY <3>1, <2>2
    <3>3. QED BY <3>2, <2>1
  <2>6. QED BY <2>4, <2>5
<1>8. ASSUME NEW u \in Units(g), NEW v \in Units(g), shift[u] = shift[v] PROVE u = v
  <2>1. u[1] = v[1] /\ f[u[1]] + u[2] = f[v[1]] + v[2]
    BY <1>8
  <2>2. f[u[1]] \in Nat /\ g[u[1]] \in Nat /\ f[v[1]] \in Nat /\ g[v[1]] \in Nat
    BY <1>3
  <2>3. u[2] = v[2]
    BY <2>1, <2>2, <1>3
  <2>4. QED BY <2>1, <2>3, <1>3
<1>9. ASSUME NEW w \in Rest PROVE \E u \in Units(g) : shift[u] = w
  <2> DEFINE u == <<w[1], w[2] - f[w[1]]>>
  <2>1. w[1] \in S /\ f[w[1]] \in Nat /\ g[w[1]] \in Nat
        /\ w[2] \in f[w[1]] + 1 .. f[w[1]] + g[w[1]]
    BY <1>6
  <2>2. u \in {w[1]} \X (1 .. g[w[1]])
    BY <2>1
  <2>3. u \in Units(g)
    BY <2>1, <2>2 DEF Units
  <2>4. w = <<w[1], w[2]>>
    BY <1>4
  <2>5. shift[u] = w
    BY <2>1, <2>3, <2>4
  <2>6. QED BY <2>3, <2>5
<1>10. shift \in Bijection(Units(g), Rest)
  BY <1>7, <1>8, <1>9 DEF Bijection, Injection, IsInjective, Surjection
<1>11. IsFiniteSet(Rest) /\ Cardinality(Rest) = SumOver(g)
  <2> HIDE DEF shift, Rest
  <2>1. ExistsBijection(Units(g), Rest)
    BY <1>10 DEF ExistsBijection
  <2>2. QED BY <2>1, <1>2, FS_Bijection DEF SumOver
<1>12. Cardinality(Rest) = SumOver(h) - SumOver(f)
  <2> HIDE DEF h
  <2>1. Cardinality(Rest) = Cardinality(Units(h)) - Cardinality(Units(h) \cap Units(f))
    BY <1>2, FS_Difference
  <2>2. Units(h) \cap Units(f) = Units(f)
    BY <1>5
  <2>3. QED BY <2>1, <2>2 DEF SumOver
<1>13. QED
  <2> HIDE DEF h
  <2>1. SumOver(h) = SumOver(f) + SumOver(g)
    BY <1>11, <1>12, <1>2
  <2>2. QED BY <2>1 DEF h

(* A sum grows with its terms.                                              *)
LEMMA SumScaled ==
  ASSUME NEW S, IsFiniteSet(S), NEW f \in [S -> Nat], NEW c \in Nat
  PROVE  SumOver([x \in S |-> c * f[x]]) = c * SumOver(f)
<1> DEFINE scaled(n) == [x \in S |-> n * f[x]]
           Wrong == {n \in Nat : SumOver(scaled(n)) # n * SumOver(f)}
<1>1. SumOver(f) \in Nat
  BY SumIsNat
<1>2. 0 \notin Wrong
  <2>1. scaled(0) = [x \in S |-> 0]
    OBVIOUS
  <2>2. SumOver(scaled(0)) = 0
    BY <2>1, SumOfZeros
  <2>3. QED BY <2>2, <1>1
<1>3. ASSUME NEW n \in Nat, n \notin Wrong PROVE n + 1 \notin Wrong
  <2>1. scaled(n) \in [S -> Nat]
    <3>1. ASSUME NEW x \in S PROVE n * f[x] \in Nat
      OBVIOUS
    <3>2. QED BY <3>1
  <2>2. scaled(n + 1) = [x \in S |-> scaled(n)[x] + f[x]]
    <3>1. ASSUME NEW x \in S PROVE (n + 1) * f[x] = n * f[x] + f[x]
      OBVIOUS
    <3>2. QED BY <3>1
  <2>3. SumOver(scaled(n + 1)) = SumOver(scaled(n)) + SumOver(f)
    <3> HIDE DEF scaled
    <3>1. QED BY <2>1, <2>2, SumOfTwo
  <2>4. SumOver(scaled(n)) = n * SumOver(f)
    BY <1>3
  <2>5. (n + 1) * SumOver(f) = n * SumOver(f) + SumOver(f)
    BY <1>1
  <2>6. QED BY <2>3, <2>4, <2>5
<1>4. Wrong = {}
  <2> SUFFICES ASSUME Wrong # {} PROVE FALSE
    OBVIOUS
  <2>1. PICK least \in Wrong : \A n \in Wrong : ~(<<n, least>> \in OpToRel(<, Nat))
    <3> HIDE DEF Wrong
    <3>1. Wrong \subseteq Nat
      BY DEF Wrong
    <3>2. QED BY <3>1, NatLessThanWellFounded, WFMin
  <2>2. least \in Nat /\ least # 0
    BY <1>2
  <2>3. least - 1 \in Nat /\ <<least - 1, least>> \in OpToRel(<, Nat)
    BY <2>2 DEF OpToRel
  <2>4. least - 1 \notin Wrong
    BY <2>1, <2>3
  <2>5. least \notin Wrong
    <3> HIDE DEF Wrong
    <3>1. (least - 1) + 1 \notin Wrong
      BY <1>3, <2>3, <2>4
    <3>2. (least - 1) + 1 = least
      BY <2>2
    <3>3. QED BY <3>1, <3>2
  <2>6. QED BY <2>5
<1>5. c \notin Wrong
  BY <1>4
<1>6. QED BY <1>5

(* Terms of zero add nothing.                                               *)
LEMMA SumExtended ==
  ASSUME NEW T, NEW S \in SUBSET T, NEW f \in [S -> Nat]
  PROVE  SumOver([x \in T |-> IF x \in S THEN f[x] ELSE 0]) = SumOver(f)
<1> DEFINE h == [x \in T |-> IF x \in S THEN f[x] ELSE 0]
<1>1. ASSUME NEW u \in Units(h) PROVE u \in Units(f)
  <2>1. PICK x \in T : u \in {x} \X (1 .. h[x])
    BY DEF Units
  <2>2. x \in S
    <3>1. x \notin S => h[x] = 0
      OBVIOUS
    <3>2. 1 .. 0 = {}
      OBVIOUS
    <3>3. QED BY <2>1, <3>1, <3>2
  <2>3. u \in {x} \X (1 .. f[x])
    BY <2>1, <2>2
  <2>4. QED BY <2>2, <2>3 DEF Units
<1>2. ASSUME NEW u \in Units(f) PROVE u \in Units(h)
  <2>1. PICK x \in S : u \in {x} \X (1 .. f[x])
    BY DEF Units
  <2>2. h[x] = f[x] /\ x \in DOMAIN h
    OBVIOUS
  <2> HIDE DEF h
  <2>3. QED BY <2>1, <2>2 DEF Units
<1> HIDE DEF h
<1>3. Units(h) = Units(f)
  BY <1>1, <1>2
<1>4. QED BY <1>3 DEF SumOver, h

(* The same for a function that is already known by its values.             *)
LEMMA SumPadded ==
  ASSUME NEW T, NEW S \in SUBSET T, NEW f \in [S -> Nat], NEW h \in [T -> Nat],
         \A x \in T : h[x] = IF x \in S THEN f[x] ELSE 0
  PROVE  SumOver(h) = SumOver(f)
<1>1. h = [x \in T |-> IF x \in S THEN f[x] ELSE 0]
  OBVIOUS
<1>2. QED BY <1>1, SumExtended

(* A sum does not depend on how the terms are named.                        *)
LEMMA SumRenamed ==
  ASSUME NEW S, NEW T, IsFiniteSet(S), NEW f \in [T -> Nat], NEW g \in Bijection(S, T)
  PROVE  SumOver([x \in S |-> f[g[x]]]) = SumOver(f)
<1> DEFINE h == [x \in S |-> f[g[x]]]
           map == [u \in Units(h) |-> <<g[u[1]], u[2]>>]
<1>1. /\ g \in [S -> T] /\ \A x, y \in S : g[x] = g[y] => x = y
      /\ \A t \in T : \E x \in S : g[x] = t
  BY DEF Bijection, Injection, IsInjective, Surjection
<1>2. IsFiniteSet(Units(h))
  <2>1. h \in [S -> Nat]
    BY <1>1
  <2> HIDE DEF h
  <2>2. QED BY <2>1, SumIsNat
<1>3. ASSUME NEW u \in Units(h)
      PROVE  u[1] \in S /\ u[2] \in 1 .. f[g[u[1]]] /\ u = <<u[1], u[2]>>
  BY DEF Units
<1>4. ASSUME NEW u \in Units(h) PROVE map[u] \in Units(f)
  <2>1. u[1] \in S /\ u[2] \in 1 .. f[g[u[1]]] /\ g[u[1]] \in T
    BY <1>1, <1>3
  <2>2. map[u] \in {g[u[1]]} \X (1 .. f[g[u[1]]])
    BY <2>1
  <2> HIDE DEF map
  <2>3. QED BY <2>1, <2>2 DEF Units
<1>5. ASSUME NEW u \in Units(h), NEW v \in Units(h), map[u] = map[v] PROVE u = v
  <2>1. g[u[1]] = g[v[1]] /\ u[2] = v[2]
    BY <1>5
  <2>2. QED BY <2>1, <1>1, <1>3
<1>6. ASSUME NEW w \in Units(f) PROVE \E u \in Units(h) : map[u] = w
  <2>1. PICK t \in T : w \in {t} \X (1 .. f[t])
    BY DEF Units
  <2>2. PICK x \in S : g[x] = t
    BY <1>1
  <2>3. <<x, w[2]>> \in {x} \X (1 .. h[x]) /\ x \in DOMAIN h /\ w = <<t, w[2]>>
    BY <2>1, <2>2
  <2>4. <<x, w[2]>> \in Units(h)
    <3> HIDE DEF h
    <3>1. QED BY <2>3 DEF Units
  <2>5. map[<<x, w[2]>>] = w
    BY <2>2, <2>3, <2>4
  <2>6. QED BY <2>4, <2>5
<1>7. map \in Bijection(Units(h), Units(f))
  BY <1>4, <1>5, <1>6 DEF Bijection, Injection, IsInjective, Surjection
<1> HIDE DEF h, map
<1>8. ExistsBijection(Units(h), Units(f))
  BY <1>7 DEF ExistsBijection
<1>9. Cardinality(Units(h)) = Cardinality(Units(f))
  BY <1>2, <1>8, FS_Bijection
<1>10. QED BY <1>9 DEF SumOver, h

-----------------------------------------------------------------------------
(* Payouts.                                                                 *)

(* A share is the floor of the percentage.                                  *)
LEMMA ShareIsFloor ==
  ASSUME NEW amount \in Nat, NEW percentage \in Nat
  PROVE  /\ Share(amount, percentage) \in Nat
         /\ 100 * Share(amount, percentage) <= amount * percentage
<1>1. amount * percentage \in Nat
  OBVIOUS
<1>2. \A n \in Nat : n \div 100 \in Nat /\ 100 * (n \div 100) <= n
  OBVIOUS
<1>3. QED BY <1>1, <1>2 DEF Share

(* The floors of all milestones but the last never exceed the amount, so    *)
(* the last payout, which takes the rest, does not underflow.               *)
LEMMA PayoutIsNat ==
  ASSUME NEW amount \in Nat, NEW plan \in Seq(Nat), ValidPlan(plan), NEW i \in 1 .. Len(plan)
  PROVE  PayoutAmount(amount, plan, i) \in Nat
<1> DEFINE S == 1 .. Len(plan) - 1
           T == 1 .. Len(plan)
           floors == [j \in S |-> Share(amount, plan[j])]
           scaled == [j \in T |-> amount * plan[j]]
<1>1. /\ Len(plan) \in Nat /\ plan \in [T -> Nat]
      /\ S \subseteq T /\ \A j \in T : plan[j] \in Nat
  OBVIOUS
<1>2. IsFiniteSet(S) /\ IsFiniteSet(T)
  BY <1>1, FS_Interval
<1>3. floors \in [S -> Nat]
  BY <1>1, ShareIsFloor
<1>4. scaled \in [T -> Nat]
  <2>1. \A j \in T : amount * plan[j] \in Nat
    BY <1>1
  <2>2. QED BY <2>1
<1>5. \A j \in S : 100 * floors[j] <= scaled[j]
  BY <1>1, ShareIsFloor
<1>6. 100 * SumOver(floors) <= SumOver(scaled)
  <2> HIDE DEF S, T, floors, scaled
  <2>1. 100 \in Nat \ {0}
    OBVIOUS
  <2>2. S \subseteq T
    BY <1>1
  <2>3. QED BY <2>1, <2>2, <1>2, <1>3, <1>4, <1>5, UnitsInjected
<1>7. SumOver(scaled) = amount * 100
  <2>1. SumOver(plan) = 100
    BY DEF ValidPlan
  <2>2. SumOver(scaled) = amount * SumOver(plan)
    <3> HIDE DEF T
    <3>1. QED BY <1>1, <1>2, SumScaled
  <2>3. QED BY <2>1, <2>2
<1>8. SumOver(floors) \in Nat
  <2> HIDE DEF S, floors
  <2>1. QED BY <1>2, <1>3, SumIsNat
<1>9. SumOver(floors) <= amount
  <2> HIDE DEF floors, scaled
  <2>1. QED BY <1>6, <1>7, <1>8
<1>10. CASE i < Len(plan)
  BY <1>1, <1>10, ShareIsFloor DEF PayoutAmount
<1>11. CASE ~(i < Len(plan))
  <2>1. PayoutAmount(amount, plan, i) = amount - SumOver(floors)
    BY <1>11 DEF PayoutAmount
  <2> HIDE DEF floors
  <2>2. QED BY <2>1, <1>8, <1>9
<1>12. QED BY <1>10, <1>11

-----------------------------------------------------------------------------
(* Insertions.  at[j] is the place of the j-th addition in the old order;   *)
(* EarlierAt(at, j) are the additions that end up in front of the j-th.        *)
EarlierAt(at, j) == {k \in DOMAIN at : at[k] < at[j] \/ (at[k] = at[j] /\ k < j)}

PlacesAt(at) == [j \in DOMAIN at |-> at[j] + Cardinality(EarlierAt(at, j))]

Lower(position, p) == {j \in DOMAIN position : position[j] < p}

(* An injective numbering of some additions by numbers in a..b: there are   *)
(* no more additions than numbers.                                          *)
LEMMA AtMostThatMany ==
  ASSUME NEW n \in Nat, NEW position \in [1 .. n -> Int],
         \A j, k \in 1 .. n : j # k => position[j] # position[k],
         NEW a \in Int, NEW b \in Int, a <= b + 1,
         NEW J, J \subseteq 1 .. n, \A j \in J : position[j] \in a .. b
  PROVE  IsFiniteSet(J) /\ Cardinality(J) <= b - a + 1
<1> DEFINE f == [j \in J |-> position[j]]
<1>1. f \in Injection(J, a .. b)
  BY DEF Injection, IsInjective
<1>2. IsFiniteSet(a .. b) /\ Cardinality(a .. b) = b - a + 1
  <2>1. /\ IsFiniteSet(a .. b)
        /\ Cardinality(a .. b) = IF a > b THEN 0 ELSE b - a + 1
    BY FS_Interval
  <2>2. QED BY <2>1
<1>3. IsFiniteSet(J) /\ Cardinality(J) <= Cardinality(a .. b)
  <2> HIDE DEF f
  <2>1. QED BY <1>1, <1>2, FS_Injection
<1>4. QED BY <1>2, <1>3

(* The places of the additions are distinct, and places of the new order.   *)
LEMMA PlacesAreDistinct ==
  ASSUME NEW n \in Nat, NEW len \in Nat, NEW at \in [1 .. n -> 1 .. len + 1]
  PROVE  /\ PlacesAt(at) \in [1 .. n -> 1 .. len + n]
         /\ \A j, k \in 1 .. n : j # k => PlacesAt(at)[j] # PlacesAt(at)[k]
<1>1. IsFiniteSet(1 .. n) /\ Cardinality(1 .. n) = n
  <2>1. /\ IsFiniteSet(1 .. n)
        /\ Cardinality(1 .. n) = IF 1 > n THEN 0 ELSE n - 1 + 1
    BY FS_Interval
  <2>2. QED BY <2>1
<1>2. ASSUME NEW j \in 1 .. n
      PROVE  /\ IsFiniteSet(EarlierAt(at, j)) /\ Cardinality(EarlierAt(at, j)) \in 0 .. n - 1
             /\ PlacesAt(at)[j] = at[j] + Cardinality(EarlierAt(at, j))
  <2>1. EarlierAt(at, j) \in SUBSET (1 .. n)
    BY DEF EarlierAt
  <2>2. IsFiniteSet(EarlierAt(at, j)) /\ Cardinality(EarlierAt(at, j)) <= n
    BY <1>1, <2>1, FS_Subset
  <2>3. j \notin EarlierAt(at, j)
    BY DEF EarlierAt
  <2>4. Cardinality(EarlierAt(at, j)) # n
    BY <1>1, <2>1, <2>3, FS_Subset
  <2>5. Cardinality(EarlierAt(at, j)) \in Nat
    BY <2>2, FS_CardinalityType
  <2>6. QED BY <2>2, <2>4, <2>5 DEF PlacesAt
<1>3. ASSUME NEW j \in 1 .. n, NEW k \in 1 .. n, k \in EarlierAt(at, j)
      PROVE  PlacesAt(at)[k] < PlacesAt(at)[j]
  <2>1. at[k] \in Int /\ at[j] \in Int /\ at[k] <= at[j]
    BY <1>3 DEF EarlierAt
  <2>2. EarlierAt(at, k) \in SUBSET EarlierAt(at, j)
    <3>1. ASSUME NEW i \in 1 .. n, i \in EarlierAt(at, k) PROVE i \in EarlierAt(at, j)
      BY <1>3, <3>1 DEF EarlierAt
    <3>2. EarlierAt(at, k) \subseteq 1 .. n
      BY DEF EarlierAt
    <3>3. QED BY <3>1, <3>2
  <2>3. k \notin EarlierAt(at, k)
    BY DEF EarlierAt
  <2>4. /\ Cardinality(EarlierAt(at, k)) <= Cardinality(EarlierAt(at, j))
        /\ Cardinality(EarlierAt(at, k)) # Cardinality(EarlierAt(at, j))
    BY <2>2, <2>3, <1>2, <1>3, FS_Subset
  <2>5. QED BY <2>1, <2>4, <1>2
<1>4. ASSUME NEW j \in 1 .. n, NEW k \in 1 .. n, j # k
      PROVE  PlacesAt(at)[j] # PlacesAt(at)[k]
  <2>1. k \in EarlierAt(at, j) \/ j \in EarlierAt(at, k)
    BY <1>4 DEF EarlierAt
  <2>2. PlacesAt(at)[j] \in Int /\ PlacesAt(at)[k] \in Int
    BY <1>2
  <2>3. QED BY <2>1, <2>2, <1>3
<1>5. ASSUME NEW j \in 1 .. n PROVE PlacesAt(at)[j] \in 1 .. len + n
  BY <1>2
<1>6. PlacesAt(at) \in [1 .. n -> 1 .. len + n]
  BY <1>5 DEF PlacesAt
<1>7. QED BY <1>4, <1>6

(* A place without an addition holds an element of the old order, and every *)
(* element of the old order is found at such a place.                       *)
LEMMA OldElementsKeepPlaces ==
  ASSUME NEW n \in Nat, NEW len \in Nat, NEW position \in [1 .. n -> 1 .. len + n],
         \A j, k \in 1 .. n : j # k => position[j] # position[k]
  PROVE  LET Free == {p \in 1 .. len + n : \A j \in 1 .. n : position[j] # p}
         IN  /\ \A p \in Free : p - Cardinality(Lower(position, p)) \in 1 .. len
             /\ \A i \in 1 .. len : \E p \in Free : p - Cardinality(Lower(position, p)) = i
<1> DEFINE Free == {p \in 1 .. len + n : \A j \in 1 .. n : position[j] # p}
           Higher(p) == {j \in 1 .. n : position[j] > p}
           g == [p \in Free |-> p - Cardinality(Lower(position, p))]
<1>0. position \in [1 .. n -> Int] /\ \A j \in 1 .. n : position[j] \in 1 .. len + n
  OBVIOUS
<1>1. IsFiniteSet(1 .. n) /\ Cardinality(1 .. n) = n
  <2>1. /\ IsFiniteSet(1 .. n)
        /\ Cardinality(1 .. n) = IF 1 > n THEN 0 ELSE n - 1 + 1
    BY FS_Interval
  <2>2. QED BY <2>1
<1>2. ASSUME NEW p \in Free
      PROVE  /\ IsFiniteSet(Lower(position, p)) /\ Cardinality(Lower(position, p)) \in Nat
             /\ g[p] \in 1 .. len
  <2>1. Lower(position, p) \subseteq 1 .. n /\ Higher(p) \subseteq 1 .. n
    BY DEF Lower
  <2>2. IsFiniteSet(Lower(position, p)) /\ Cardinality(Lower(position, p)) <= (p - 1) - 1 + 1
    <3>1. \A j \in Lower(position, p) : position[j] \in 1 .. p - 1
      BY <1>0 DEF Lower
    <3>2. 1 \in Int /\ p - 1 \in Int /\ 1 <= (p - 1) + 1
      OBVIOUS
    <3> HIDE DEF Free
    <3>3. QED BY <1>0, <2>1, <3>1, <3>2, AtMostThatMany
  <2>3. IsFiniteSet(Higher(p)) /\ Cardinality(Higher(p)) <= (len + n) - (p + 1) + 1
    <3>1. \A j \in Higher(p) : position[j] \in p + 1 .. len + n
      BY <1>0
    <3>2. p + 1 \in Int /\ len + n \in Int /\ p + 1 <= (len + n) + 1
      OBVIOUS
    <3> HIDE DEF Free, Higher
    <3>3. QED BY <1>0, <2>1, <3>1, <3>2, AtMostThatMany
  <2>4. Cardinality(Lower(position, p)) \in Nat /\ Cardinality(Higher(p)) \in Nat
    BY <2>2, <2>3, FS_CardinalityType
  <2>5. Lower(position, p) \cup Higher(p) = 1 .. n /\ Lower(position, p) \cap Higher(p) = {}
    BY <1>0 DEF Lower
  <2>6. Cardinality(Lower(position, p)) + Cardinality(Higher(p)) = n
    <3> HIDE DEF Free, Higher
    <3>1. Cardinality(Lower(position, p) \cup Higher(p)) =
            Cardinality(Lower(position, p)) + Cardinality(Higher(p)) - Cardinality({})
      BY <2>2, <2>3, <2>5, FS_Union
    <3>2. Cardinality({}) = 0
      BY FS_EmptySet
    <3>3. Cardinality(Lower(position, p) \cup Higher(p)) = n
      BY <2>5, <1>1
    <3>4. QED BY <3>1, <3>2, <3>3, <2>4
  <2>7. p \in Int /\ g[p] = p - Cardinality(Lower(position, p))
    OBVIOUS
  <2> HIDE DEF Free, Higher, g
  <2>8. QED BY <2>2, <2>3, <2>4, <2>6, <2>7
<1>3. ASSUME NEW p \in Free, NEW q \in Free, p < q PROVE g[p] < g[q]
  <2> DEFINE Between == Lower(position, q) \ Lower(position, p)
  <2>1. Between \subseteq 1 .. n /\ \A j \in Between : position[j] \in p + 1 .. q - 1
    BY <1>0 DEF Lower
  <2>2. IsFiniteSet(Between) /\ Cardinality(Between) <= (q - 1) - (p + 1) + 1
    <3>1. p + 1 \in Int /\ q - 1 \in Int /\ p + 1 <= (q - 1) + 1
      BY <1>3
    <3> HIDE DEF Free, Between
    <3>2. QED BY <1>0, <2>1, <3>1, AtMostThatMany
  <2>3. Lower(position, p) \subseteq Lower(position, q)
    BY <1>3, <1>0 DEF Lower
  <2>4. Cardinality(Between) = Cardinality(Lower(position, q)) - Cardinality(Lower(position, p))
    <3>1. Lower(position, q) \cap Lower(position, p) = Lower(position, p)
      BY <2>3
    <3>2. QED BY <3>1, <1>2, FS_Difference
  <2>5. Cardinality(Lower(position, p)) \in Nat /\ Cardinality(Lower(position, q)) \in Nat
    <3> HIDE DEF Free, g
    <3>1. QED BY <1>2
  <2>6. /\ p \in Int /\ q \in Int
        /\ g[p] = p - Cardinality(Lower(position, p))
        /\ g[q] = q - Cardinality(Lower(position, q))
    OBVIOUS
  <2> HIDE DEF Free, Between, g
  <2>7. QED BY <2>2, <2>4, <2>5, <2>6
<1>4. g \in Injection(Free, 1 .. len)
  <2>1. g \in [Free -> 1 .. len]
    <3>1. \A p \in Free : g[p] \in 1 .. len
      BY <1>2
    <3>2. QED BY <3>1
  <2>2. ASSUME NEW p \in Free, NEW q \in Free, g[p] = g[q] PROVE p = q
    <3>1. p \in Int /\ q \in Int
      OBVIOUS
    <3> HIDE DEF Free, g
    <3>2. g[p] \in Int
      <4>1. g[p] \in 1 .. len
        BY <1>2
      <4>2. QED BY <4>1
    <3>3. p < q \/ q < p \/ p = q
      BY <3>1
    <3>4. QED BY <2>2, <1>3, <3>2, <3>3
  <2> HIDE DEF Free, g
  <2>3. QED BY <2>1, <2>2 DEF Injection, IsInjective
<1>5. IsFiniteSet(1 .. len) /\ Cardinality(1 .. len) = len
  <2>1. /\ IsFiniteSet(1 .. len)
        /\ Cardinality(1 .. len) = IF 1 > len THEN 0 ELSE len - 1 + 1
    BY FS_Interval
  <2>2. QED BY <2>1
<1>6. Cardinality(Free) = len
  <2> DEFINE Taken == {position[j] : j \in 1 .. n}
  <2>1. position \in Surjection(1 .. n, Taken) /\ position \in Injection(1 .. n, Taken)
    BY <1>0 DEF Surjection, Injection, IsInjective
  <2>2. Cardinality(Taken) = n
    <3> HIDE DEF Taken
    <3>1. QED BY <2>1, <1>1, FS_Surjection
  <2>3. Free = (1 .. len + n) \ Taken
    OBVIOUS
  <2>4. (1 .. len + n) \cap Taken = Taken
    BY <1>0
  <2>5. IsFiniteSet(1 .. len + n) /\ Cardinality(1 .. len + n) = len + n
    <3>1. /\ IsFiniteSet(1 .. len + n)
          /\ Cardinality(1 .. len + n) = IF 1 > len + n THEN 0 ELSE (len + n) - 1 + 1
      BY FS_Interval
    <3>2. QED BY <3>1
  <2> HIDE DEF Free, Taken
  <2>6. Cardinality((1 .. len + n) \ Taken)
          = Cardinality(1 .. len + n) - Cardinality((1 .. len + n) \cap Taken)
    BY <2>5, FS_Difference
  <2>7. Cardinality(Free) = (len + n) - n
    BY <2>2, <2>3, <2>4, <2>5, <2>6
  <2>8. QED BY <2>7
<1>7. g \in Surjection(Free, 1 .. len)
  <2> HIDE DEF Free, g
  <2>1. QED BY <1>4, <1>5, <1>6, FS_Injection
<1>8. \A i \in 1 .. len : \E p \in Free : g[p] = i
  <2> HIDE DEF Free, g
  <2>1. QED BY <1>7 DEF Surjection
<1>9. QED BY <1>2, <1>8

(* The execution order after an amendment: a sequence of milestone ids, as  *)
(* long as the old one and the additions together, in which every old and   *)
(* every added milestone is found, and which ends with an addition or as    *)
(* the old one did.                                                         *)
LEMMA InsertionsKeepEverything ==
  ASSUME NEW order \in Seq(MilestoneIds), NEW targets \in Seq(Int), NEW firstId \in Nat,
         firstId + Len(targets) <= MaxTotalMilestones,
         \A j \in DOMAIN targets :
           \/ targets[j] = AppendMilestoneId
           \/ \E i \in DOMAIN order : order[i] = targets[j]
  PROVE  LET new == WithInsertions(order, targets, firstId)
         IN  /\ new \in Seq(MilestoneIds)
             /\ Len(new) = Len(order) + Len(targets)
             /\ \A m \in firstId .. firstId + Len(targets) - 1 : \E p \in DOMAIN new : new[p] = m
             /\ \A i \in DOMAIN order : \E p \in DOMAIN new : new[p] = order[i]
             /\ Len(order) > 0 =>
                  \/ new[Len(new)] \in firstId .. firstId + Len(targets) - 1
                  \/ new[Len(new)] = order[Len(order)]
<1> DEFINE len == Len(order)
           n == Len(targets)
           at == [k \in 1 .. n |-> InsertionIndex(order, targets[k])]
           position == [j \in DOMAIN targets |-> PositionOfAddition(order, targets, j)]
           Added(p) == \E j \in DOMAIN targets : position[j] = p
           Index(p) == CHOOSE j \in DOMAIN targets : position[j] = p
           new == WithInsertions(order, targets, firstId)
           Free == {p \in 1 .. len + n : \A j \in 1 .. n : position[j] # p}
<1>1. /\ len \in Nat /\ n \in Nat /\ DOMAIN targets = 1 .. n /\ DOMAIN order = 1 .. len
      /\ order \in [1 .. len -> MilestoneIds]
  OBVIOUS
<1>2. at \in [1 .. n -> 1 .. len + 1]
  <2>1. ASSUME NEW k \in 1 .. n PROVE InsertionIndex(order, targets[k]) \in 1 .. len + 1
    <3>1. CASE targets[k] = AppendMilestoneId
      BY <3>1, <1>1 DEF InsertionIndex
    <3>2. CASE targets[k] # AppendMilestoneId
      <4>1. \E i \in DOMAIN order : order[i] = targets[k]
        BY <3>2, <1>1
      <4>2. (CHOOSE i \in DOMAIN order : order[i] = targets[k]) \in DOMAIN order
        BY <4>1
      <4>3. QED BY <4>2, <3>2, <1>1 DEF InsertionIndex
    <3>3. QED BY <3>1, <3>2
  <2>2. QED BY <2>1
<1>3. position = PlacesAt(at)
  <2>1. ASSUME NEW j \in 1 .. n PROVE PositionOfAddition(order, targets, j) = PlacesAt(at)[j]
    <3> DEFINE mine == [k \in DOMAIN targets |-> InsertionIndex(order, targets[k])]
    <3>1. mine = at
      BY <1>1
    <3>2. PositionOfAddition(order, targets, j) =
            mine[j] + Cardinality({k \in DOMAIN targets :
                                     mine[k] < mine[j] \/ (mine[k] = mine[j] /\ k < j)})
      BY DEF PositionOfAddition
    <3>3. DOMAIN at = DOMAIN targets
      BY <1>1
    <3> HIDE DEF at, mine
    <3>4. QED BY <3>1, <3>2, <3>3, <1>1 DEF PlacesAt, EarlierAt
  <2>2. DOMAIN at = DOMAIN targets
    BY <1>1
  <2> HIDE DEF at
  <2>3. QED BY <2>1, <2>2, <1>1 DEF PlacesAt
<1>4. /\ position \in [1 .. n -> 1 .. len + n]
      /\ \A j, k \in 1 .. n : j # k => position[j] # position[k]
  <2> HIDE DEF position, at, len, n
  <2>1. len \in Nat /\ n \in Nat
    BY <1>1
  <2>2. /\ PlacesAt(at) \in [1 .. n -> 1 .. len + n]
        /\ \A j, k \in 1 .. n : j # k => PlacesAt(at)[j] # PlacesAt(at)[k]
    BY <2>1, <1>2, PlacesAreDistinct
  <2>3. QED BY <2>2, <1>3
<1>5. /\ \A p \in Free : p - Cardinality(Lower(position, p)) \in 1 .. len
      /\ \A i \in 1 .. len : \E p \in Free : p - Cardinality(Lower(position, p)) = i
  <2> HIDE DEF position, at, len, n
  <2>1. QED BY <1>1, <1>4, OldElementsKeepPlaces
<1>6. /\ DOMAIN new = 1 .. len + n
      /\ \A p \in 1 .. len + n :
           new[p] = IF Added(p) THEN firstId + Index(p) - 1
                    ELSE order[p - Cardinality(Lower(position, p))]
  <2>1. DOMAIN position = DOMAIN targets
    OBVIOUS
  <2>2. new = [p \in 1 .. len + n |->
                 IF Added(p) THEN firstId + Index(p) - 1
                 ELSE order[p - Cardinality({j \in DOMAIN targets : position[j] < p})]]
    BY DEF WithInsertions
  <2>3. \A p : Lower(position, p) = {j \in DOMAIN targets : position[j] < p}
    BY <2>1 DEF Lower
  <2> HIDE DEF position, new, len, n, Index
  <2>4. QED BY <2>2, <2>3
<1>7. ASSUME NEW p \in 1 .. len + n, Added(p) PROVE Index(p) \in 1 .. n /\ position[Index(p)] = p
  <2> HIDE DEF position
  <2>1. QED BY <1>7, <1>1
<1>8. ASSUME NEW p \in 1 .. len + n, ~Added(p) PROVE p \in Free
  <2> HIDE DEF position
  <2>1. QED BY <1>8, <1>1
<1>9. ASSUME NEW p \in Free PROVE p \in 1 .. len + n /\ ~Added(p)
  <2> HIDE DEF position
  <2>1. QED BY <1>1
<1>10. ASSUME NEW p \in 1 .. len + n PROVE new[p] \in MilestoneIds
  <2>1. CASE Added(p)
    <3>1. new[p] = firstId + Index(p) - 1 /\ Index(p) \in 1 .. n
      BY <2>1, <1>6, <1>7
    <3> HIDE DEF new, Index
    <3>2. QED BY <3>1, <1>1, NumberAssumption DEF MilestoneIds
  <2>2. CASE ~Added(p)
    <3>1. new[p] = order[p - Cardinality(Lower(position, p))]
      BY <2>2, <1>6
    <3>2. p - Cardinality(Lower(position, p)) \in 1 .. len
      BY <2>2, <1>8, <1>5
    <3>3. QED BY <3>1, <3>2, <1>1
  <2>3. QED BY <2>1, <2>2
<1>11. new \in Seq(MilestoneIds) /\ Len(new) = len + n
  <2>1. new = [p \in 1 .. len + n |-> new[p]]
    BY DEF WithInsertions
  <2> HIDE DEF new
  <2>2. new \in [1 .. len + n -> MilestoneIds]
    BY <2>1, <1>10
  <2>3. len + n \in Nat
    BY <1>1
  <2> HIDE DEF len, n
  <2>4. QED BY <2>2, <2>3
<1>12. ASSUME NEW m \in firstId .. firstId + n - 1 PROVE \E p \in DOMAIN new : new[p] = m
  <2> DEFINE j == m - firstId + 1
             p == position[j]
  <2>1. j \in 1 .. n /\ m = firstId + j - 1
    BY <1>1
  <2>2. p \in 1 .. len + n
    <3> HIDE DEF j, position
    <3>1. QED BY <2>1, <1>4
  <2>3. Added(p)
    <3> HIDE DEF j, position
    <3>1. QED BY <2>1, <1>1
  <2>4. Index(p) = j
    <3>1. Index(p) \in 1 .. n /\ position[Index(p)] = position[j]
      BY <2>2, <2>3, <1>7
    <3> HIDE DEF j, position, Index
    <3>2. QED BY <3>1, <2>1, <1>4
  <2> HIDE DEF j, p, new, Index, position
  <2>5. new[p] = m
    BY <1>6, <2>1, <2>2, <2>3, <2>4
  <2>6. QED BY <1>6, <2>2, <2>5
<1>13. ASSUME NEW i \in DOMAIN order PROVE \E p \in DOMAIN new : new[p] = order[i]
  <2>1. PICK p \in Free : p - Cardinality(Lower(position, p)) = i
    BY <1>1, <1>5
  <2>2. p \in 1 .. len + n /\ ~Added(p)
    BY <1>9
  <2> HIDE DEF new, position, Free
  <2>3. new[p] = order[i]
    BY <1>6, <2>1, <2>2
  <2>4. QED BY <1>6, <2>2, <2>3
<1>14. ASSUME len > 0 PROVE new[len + n] \in firstId .. firstId + n - 1 \/ new[len + n] = order[len]
  <2> DEFINE p == len + n
  <2>1. p \in 1 .. len + n /\ p \in Nat
    BY <1>1, <1>14
  <2>2. CASE Added(p)
    <3>1. new[p] = firstId + Index(p) - 1 /\ Index(p) \in 1 .. n
      BY <2>1, <2>2, <1>6, <1>7
    <3> HIDE DEF new, Index, len, n
    <3>2. QED BY <3>1, <1>1
  <2>3. CASE ~Added(p)
    <3>1. new[p] = order[p - Cardinality(Lower(position, p))]
      BY <2>1, <2>3, <1>6
    <3>2. p - Cardinality(Lower(position, p)) \in 1 .. len
      BY <2>1, <2>3, <1>8, <1>5
    <3>3. IsFiniteSet(1 .. n) /\ Cardinality(1 .. n) = n
      <4> HIDE DEF n
      <4>1. /\ IsFiniteSet(1 .. n)
            /\ Cardinality(1 .. n) = IF 1 > n THEN 0 ELSE n - 1 + 1
        BY <1>1, FS_Interval
      <4>2. QED BY <4>1, <1>1
    <3>4. Lower(position, p) \in SUBSET (1 .. n)
      <4>1. DOMAIN position = 1 .. n
        BY <1>1
      <4> HIDE DEF position, n
      <4>2. QED BY <4>1 DEF Lower
    <3>5. Cardinality(Lower(position, p)) \in Nat /\ Cardinality(Lower(position, p)) <= n
      <4> HIDE DEF position, n, p
      <4>1. QED BY <3>3, <3>4, FS_Subset, FS_CardinalityType
    <3> HIDE DEF new, position, len, n
    <3>6. p - Cardinality(Lower(position, p)) = len
      BY <3>2, <3>5, <1>1
    <3>7. QED BY <3>1, <3>6
  <2>4. QED BY <2>2, <2>3
<1>15. QED
  <2>1. \A m \in firstId .. firstId + Len(targets) - 1 : \E p \in DOMAIN new : new[p] = m
    BY <1>12
  <2>2. \A i \in DOMAIN order : \E p \in DOMAIN new : new[p] = order[i]
    BY <1>13
  <2>3. Len(order) > 0 =>
          \/ new[Len(new)] \in firstId .. firstId + Len(targets) - 1
          \/ new[Len(new)] = order[Len(order)]
    <3> HIDE DEF new
    <3>1. QED BY <1>11, <1>14
  <2> HIDE DEF new
  <2>4. QED BY <1>11, <2>1, <2>2, <2>3 DEF new

-----------------------------------------------------------------------------
(* The inductive invariant.                                                 *)

Proposals == [carrier : Users, status : ProposalStatus, plan : Plans]

ClockOK == now \in Nat /\ tipAmounts \in [RequestIds -> Nat]

(* A plan is validated when it is proposed, and only then: what is accepted *)
(* later is still a valid plan.                                             *)
PlansOK == \A r \in RequestIds : \A p \in DOMAIN proposals[r] : ValidPlan(proposals[r][p].plan)

(* The index and the list are inverse to each other.                        *)
OpenListOK ==
  /\ OpenListMatches
  /\ \A i \in DOMAIN openRequestIds : openRequestIndexPlusOne[openRequestIds[i]] = i

MarketOK ==
  /\ nextRequestId \in 1 .. MaxRequests + 1
  /\ proposals \in [RequestIds -> Seq(Proposals)]
  /\ activeProposal \in [RequestIds -> [Users -> Nat]]
  /\ acceptedProposal \in [RequestIds -> Nat]
  /\ openRequestIds \in Seq(RequestIds)
  /\ openRequestIndexPlusOne \in [RequestIds -> Nat]
  /\ PlansOK
  /\ OpenListOK

(* No more leaves a request than was put in.                                *)
Solvent(request) ==
  /\ request.releasedAmount + request.refundedAmount <= request.totalAmount
  /\ request.operationalSpent <= request.operationalAllowance

(* What is zero until a request is funded.                                  *)
Unfunded(request) ==
  /\ request.totalAmount = 0 /\ request.releasedAmount = 0 /\ request.refundedAmount = 0
  /\ request.operationalAllowance = 0 /\ request.operationalSpent = 0

WasFunded(request) == request.status \notin {"Open", "Cancelled"}

RequestsOK ==
  /\ requests \in [RequestIds -> Requests]
  /\ \A r \in RequestIds :
       /\ Solvent(requests[r])
       /\ r >= nextRequestId => requests[r] = NoRequest
       /\ r < nextRequestId => requests[r].shipper \in Users
       /\ IF WasFunded(requests[r])
          THEN requests[r].carrier \in Users
          ELSE Unfunded(requests[r]) /\ nextMilestoneId[r] = 0

WorkOK ==
  /\ milestones \in [RequestIds -> [MilestoneIds -> Milestones]]
  /\ nextMilestoneId \in [RequestIds -> Nat]
  /\ executionOrder \in [RequestIds -> Seq(MilestoneIds)]
  /\ milestoneStateVersion \in [RequestIds -> Nat]
  /\ ExecutionOrderIsComplete

PoolOK ==
  /\ cargo \in [Accounts -> Nat]
  /\ totalEscrowed \in Nat
  /\ lockedEscrow \in [Users -> [totalLocked : Nat, activeRequestCount : Int]]
  /\ EscrowIsBacked
  /\ LockedTotalsMatch

IInv == ClockOK /\ MarketOK /\ RequestsOK /\ WorkOK /\ PoolOK

-----------------------------------------------------------------------------
(* Arithmetic of the contract.                                              *)

LEMMA ProofReserveIsNat ==
  ASSUME NEW price \in Nat
  PROVE  ProofReserve(price) \in Nat /\ (price > 0 => ProofReserve(price) > 0)
<1> DEFINE units == ProofGasUnitCap + ReimbursementOverhead
<1>1. units \in Nat /\ units > 0 /\ CargoPerEth \in Nat /\ CargoPerEth > 0
  BY NumberAssumption
<1>2. ASSUME NEW a \in Nat, NEW b \in Nat
      PROVE  a * b \in Nat /\ (a > 0 /\ b > 0 => a * b > 0)
  OBVIOUS
<1>3. units * price \in Nat /\ (price > 0 => units * price > 0)
  <2> HIDE DEF units
  <2>1. QED BY <1>1, <1>2
<1>4. QED
  <2> HIDE DEF units
  <2>1. (units * price) * CargoPerEth \in Nat /\ (price > 0 => (units * price) * CargoPerEth > 0)
    BY <1>1, <1>2, <1>3
  <2>2. QED BY <2>1 DEF ProofReserve, units

(* What a solvent request has in the contract.                              *)
LEMMA PotOfSolvent ==
  ASSUME NEW request \in Requests, Solvent(request)
  PROVE  /\ EscrowOf(request) = request.totalAmount - request.releasedAmount - request.refundedAmount
         /\ EscrowOf(request) \in Nat
         /\ OperationalOf(request) = request.operationalAllowance - request.operationalSpent
         /\ OperationalOf(request) \in Nat
         /\ Pot(request) = EscrowOf(request) + OperationalOf(request)
         /\ Pot(request) \in Nat
BY DEF Requests, Solvent, EscrowOf, OperationalOf, Pot

LEMMA RequestIdsFinite == IsFiniteSet(RequestIds)
BY NumberAssumption, FS_Interval DEF RequestIds

LEMMA OnePotChanges ==
  ASSUME NEW f \in [RequestIds -> Nat], NEW r \in RequestIds, NEW n \in Nat
  PROVE  SumOver([f EXCEPT ![r] = n]) = SumOver(f) - f[r] + n
BY RequestIdsFinite, SumUpdate

LEMMA PotsAreNat ==
  ASSUME RequestsOK
  PROVE  /\ Pots \in [RequestIds -> Nat]
         /\ \A u : PotsOf(u) \in [RequestIds -> Nat]
<1>1. \A r \in RequestIds : Pot(requests[r]) \in Nat
  BY PotOfSolvent DEF RequestsOK
<1>2. QED BY <1>1 DEF Pots, PotsOf

(* The pool can always pay what one request has in it.                      *)
LEMMA PoolCoversPot ==
  ASSUME RequestsOK, PoolOK, NEW r \in RequestIds, requests[r].shipper \in Users
  PROVE  /\ Pot(requests[r]) <= totalEscrowed
         /\ Pot(requests[r]) <= cargo[Escrow]
         /\ Pot(requests[r]) <= lockedEscrow[requests[r].shipper].totalLocked
<1> DEFINE u == requests[r].shipper
<1>1. Pots[r] <= SumOver(Pots)
  BY PotsAreNat, RequestIdsFinite, TermBelowSum
<1>2. PotsOf(u)[r] <= SumOver(PotsOf(u))
  BY PotsAreNat, RequestIdsFinite, TermBelowSum
<1>3. Pots[r] = Pot(requests[r]) /\ PotsOf(u)[r] = Pot(requests[r])
  BY DEF Pots, PotsOf
<1>4. SumOver(PotsOf(u)) = lockedEscrow[u].totalLocked
  BY DEF PoolOK, LockedTotalsMatch
<1>5. /\ SumOver(Pots) = totalEscrowed /\ totalEscrowed <= cargo[Escrow]
      /\ totalEscrowed \in Nat /\ cargo[Escrow] \in Nat /\ Pot(requests[r]) \in Nat
  <2>1. Escrow \in Accounts
    BY DEF Accounts
  <2>2. Pot(requests[r]) \in Nat
    BY PotOfSolvent DEF RequestsOK
  <2>3. QED BY <2>1, <2>2 DEF PoolOK, EscrowIsBacked
<1>6. QED BY <1>1, <1>2, <1>3, <1>4, <1>5

(* One request's pot changes by delta and so do the totals and the balance: *)
(* the pool is still in order.                                              *)
LEMMA PotMoves ==
  ASSUME RequestsOK, PoolOK,
         NEW r \in RequestIds, requests[r].shipper \in Users,
         requests' \in [RequestIds -> Requests],
         \A q \in RequestIds : q # r => requests'[q] = requests[q],
         Solvent(requests'[r]), requests'[r].shipper = requests[r].shipper,
         NEW delta \in Int, Pot(requests'[r]) = Pot(requests[r]) + delta,
         totalEscrowed' = totalEscrowed + delta,
         lockedEscrow' \in [Users -> [totalLocked : Int, activeRequestCount : Int]],
         lockedEscrow'[requests[r].shipper].totalLocked =
           lockedEscrow[requests[r].shipper].totalLocked + delta,
         \A w \in Users : w # requests[r].shipper => lockedEscrow'[w] = lockedEscrow[w],
         cargo' \in [Accounts -> Nat],
         cargo'[Escrow] = cargo[Escrow] + delta
  PROVE  PoolOK'
<1> DEFINE u == requests[r].shipper
           n == Pot(requests'[r])
<1>1. Pot(requests[r]) \in Nat /\ n \in Nat
  BY PotOfSolvent DEF RequestsOK
<1>2. Pots' = [Pots EXCEPT ![r] = n]
  BY DEF Pots
<1>3. SumOver(Pots') = SumOver(Pots) - Pot(requests[r]) + n
  <2>1. SumOver([Pots EXCEPT ![r] = n]) = SumOver(Pots) - Pots[r] + n
    <3> HIDE DEF n
    <3>1. Pots \in [RequestIds -> Nat] /\ n \in Nat
      BY <1>1, PotsAreNat
    <3>2. QED BY <3>1, OnePotChanges
  <2>2. Pots[r] = Pot(requests[r])
    BY DEF Pots
  <2>3. QED BY <1>2, <2>1, <2>2
<1>4. /\ totalEscrowed \in Nat /\ cargo[Escrow] \in Nat /\ cargo[Escrow] >= totalEscrowed
      /\ totalEscrowed = SumOver(Pots)
  BY DEF PoolOK, EscrowIsBacked, Accounts
<1>5. totalEscrowed' = SumOver(Pots')
  <2> HIDE DEF n
  <2>1. n = Pot(requests[r]) + delta
    BY DEF n
  <2>2. QED BY <2>1, <1>1, <1>3, <1>4
<1>6. cargo'[Escrow] >= totalEscrowed'
  BY <1>4
<1>7. totalEscrowed' \in Nat
  <2>1. Pot(requests[r]) <= totalEscrowed
    BY PoolCoversPot
  <2> HIDE DEF n
  <2>2. n = Pot(requests[r]) + delta
    BY DEF n
  <2>3. QED BY <2>1, <2>2, <1>1, <1>4
<1>8. /\ lockedEscrow \in [Users -> [totalLocked : Nat, activeRequestCount : Int]]
      /\ \A w \in Users : lockedEscrow[w].totalLocked = SumOver(PotsOf(w))
  BY DEF PoolOK, LockedTotalsMatch
<1>9. lockedEscrow[u].totalLocked + delta \in Nat
  <2>1. Pot(requests[r]) <= lockedEscrow[u].totalLocked
    BY PoolCoversPot
  <2>2. lockedEscrow[u].totalLocked \in Nat
    BY <1>8
  <2> HIDE DEF u, n
  <2>3. n = Pot(requests[r]) + delta
    BY DEF n
  <2>4. QED BY <1>1, <2>1, <2>2, <2>3
<1>10. /\ lockedEscrow' \in [Users -> [totalLocked : Nat, activeRequestCount : Int]]
       /\ lockedEscrow'[u].totalLocked = lockedEscrow[u].totalLocked + delta
       /\ \A w \in Users : w # u => lockedEscrow'[w] = lockedEscrow[w]
  <2>1. ASSUME NEW w \in Users
        PROVE  lockedEscrow'[w] \in [totalLocked : Nat, activeRequestCount : Int]
    <3>1. CASE w = u
      <4>1. lockedEscrow'[w] \in [totalLocked : Int, activeRequestCount : Int]
        OBVIOUS
      <4>2. lockedEscrow'[w].totalLocked \in Nat
        BY <3>1, <1>9
      <4>3. QED BY <4>1, <4>2
    <3>2. CASE w # u
      BY <3>2, <1>8
    <3>3. QED BY <3>1, <3>2
  <2>2. QED BY <2>1
<1>11. ASSUME NEW w \in Users PROVE lockedEscrow'[w].totalLocked = SumOver(PotsOf(w)')
  <2>1. \A q \in RequestIds : q # r =>
          /\ requests'[q].shipper = requests[q].shipper
          /\ Pot(requests'[q]) = Pot(requests[q])
    OBVIOUS
  <2>2. CASE w = u
    <3>1. PotsOf(w)' = [PotsOf(w) EXCEPT ![r] = n]
      BY <2>1, <2>2 DEF PotsOf
    <3>2. SumOver([PotsOf(w) EXCEPT ![r] = n]) = SumOver(PotsOf(w)) - PotsOf(w)[r] + n
      <4> HIDE DEF n
      <4>1. PotsOf(w) \in [RequestIds -> Nat] /\ n \in Nat
        BY <1>1, PotsAreNat
      <4>2. QED BY <4>1, OnePotChanges
    <3>3. PotsOf(w)[r] = Pot(requests[r])
      BY <2>2 DEF PotsOf
    <3>4. SumOver(PotsOf(w)) = lockedEscrow[u].totalLocked /\ lockedEscrow[u].totalLocked \in Nat
      BY <1>8, <2>2
    <3> HIDE DEF u, n
    <3>5. n = Pot(requests[r]) + delta
      BY DEF n
    <3>6. SumOver(PotsOf(w)') = lockedEscrow[u].totalLocked - Pot(requests[r]) + n
      BY <3>1, <3>2, <3>3, <3>4
    <3>7. QED BY <3>4, <3>5, <3>6, <1>1, <1>10, <2>2
  <2>3. CASE w # u
    <3>1. PotsOf(w)' = PotsOf(w)
      BY <2>1, <2>3 DEF PotsOf
    <3>2. QED BY <3>1, <2>3, <1>8, <1>10
  <2>4. QED BY <2>2, <2>3
<1>12. QED BY <1>5, <1>6, <1>7, <1>10, <1>11 DEF PoolOK, EscrowIsBacked, LockedTotalsMatch

(* No pot changes and no total does.                                        *)
LEMMA PotsStay ==
  ASSUME PoolOK, UNCHANGED <<totalEscrowed, lockedEscrow>>,
         cargo' \in [Accounts -> Nat], cargo'[Escrow] = cargo[Escrow],
         \A q \in RequestIds :
           /\ Pot(requests'[q]) = Pot(requests[q])
           /\ Pot(requests[q]) # 0 => requests'[q].shipper = requests[q].shipper
  PROVE  PoolOK'
<1>1. Pots' = Pots
  BY DEF Pots
<1>2. ASSUME NEW u PROVE PotsOf(u)' = PotsOf(u)
  BY DEF PotsOf
<1>3. QED BY <1>1, <1>2 DEF PoolOK, EscrowIsBacked, LockedTotalsMatch

-----------------------------------------------------------------------------
(* The initial states.                                                      *)

LEMMA InitOK == Init => IInv
<1> SUFFICES ASSUME Init PROVE IInv
  OBVIOUS
<1> USE DEF Init
<1>1. ClockOK
  BY DEF ClockOK
<1>2. MarketOK
  <2>1. PlansOK
    BY DEF PlansOK
  <2>2. OpenListOK
    BY NumberAssumption DEF OpenListOK, OpenListMatches, RequestExists, RequestIds
  <2>3. nextRequestId \in 1 .. MaxRequests + 1
    BY NumberAssumption
  <2>4. QED BY <2>1, <2>2, <2>3 DEF MarketOK
<1>3. NoRequest \in Requests /\ Solvent(NoRequest) /\ Unfunded(NoRequest) /\ ~WasFunded(NoRequest)
  BY DEF NoRequest, Requests, RequestStatus, Solvent, Unfunded, WasFunded
<1>4. RequestsOK
  BY <1>3, NumberAssumption DEF RequestsOK, RequestIds
<1>5. WorkOK
  <2>1. NoMilestone \in Milestones
    BY DEF NoMilestone, Milestones, MilestoneStatus
  <2>2. ExecutionOrderIsComplete
    BY DEF ExecutionOrderIsComplete, MilestonesOf, MilestoneExists, MilestoneIds
  <2>3. QED BY <2>1, <2>2 DEF WorkOK
<1>6. PoolOK
  <2>1. cargo \in [Accounts -> Nat] /\ cargo[Escrow] = 0
    BY NumberAssumption, AccountAssumption DEF Accounts
  <2>2. Pot(NoRequest) = 0
    BY DEF Pot, EscrowOf, OperationalOf, NoRequest
  <2>3. Pots = [r \in RequestIds |-> 0] /\ \A u : PotsOf(u) = [r \in RequestIds |-> 0]
    BY <2>2 DEF Pots, PotsOf
  <2>4. QED BY <2>1, <2>3, SumOfZeros DEF PoolOK, EscrowIsBacked, LockedTotalsMatch
<1>7. QED BY <1>1, <1>2, <1>4, <1>5, <1>6 DEF IInv

-----------------------------------------------------------------------------
(* Steps that leave a part alone, and what the movements of CARGO do.       *)

LEMMA ClockStays == ClockOK /\ UNCHANGED <<now, tipAmounts>> => ClockOK'
BY DEF ClockOK

LEMMA WorkStays == WorkOK /\ UNCHANGED workVars => WorkOK'
BY DEF WorkOK, workVars, ExecutionOrderIsComplete, MilestonesOf, MilestoneExists

LEMMA RequestsStay ==
  RequestsOK /\ UNCHANGED <<requests, nextRequestId, nextMilestoneId>> => RequestsOK'
BY DEF RequestsOK

LEMMA PoolStays == PoolOK /\ UNCHANGED <<moneyVars, requests>> => PoolOK'
BY DEF PoolOK, moneyVars, EscrowIsBacked, LockedTotalsMatch, Pots, PotsOf

LEMMA MarketStays ==
  ASSUME MarketOK, UNCHANGED marketVars,
         \A r \in RequestIds : requests'[r].status = "Open" <=> requests[r].status = "Open"
  PROVE  MarketOK'
<1> USE DEF marketVars
<1>1. PlansOK'
  BY DEF MarketOK, PlansOK
<1>2. OpenListOK'
  BY DEF MarketOK, OpenListOK, OpenListMatches, RequestExists
<1>3. QED BY <1>1, <1>2 DEF MarketOK

LEMMA UsersHoldApart ==
  ASSUME NEW u \in Users
  PROVE  u \in Accounts /\ Escrow \in Accounts /\ Manager \in Accounts
         /\ u # Escrow /\ Manager # Escrow
BY AccountAssumption DEF Accounts

LEMMA TransferMoves ==
  ASSUME NEW balances \in [Accounts -> Nat], NEW from \in Accounts, NEW to \in Accounts,
         from # to, NEW amount \in Nat, amount <= balances[from]
  PROVE  /\ Transfer(balances, from, to, amount) \in [Accounts -> Nat]
         /\ Transfer(balances, from, to, amount)[from] = balances[from] - amount
         /\ Transfer(balances, from, to, amount)[to] = balances[to] + amount
         /\ \A a \in Accounts : a \notin {from, to} =>
              Transfer(balances, from, to, amount)[a] = balances[a]
BY DEF Transfer

LEMMA LockedMoves ==
  ASSUME NEW locked \in [Users -> [totalLocked : Nat, activeRequestCount : Int]],
         NEW u \in Users, NEW amount \in Nat, NEW flag \in BOOLEAN
  PROVE  /\ IncreaseLocked(locked, u, amount, flag) \in
              [Users -> [totalLocked : Int, activeRequestCount : Int]]
         /\ IncreaseLocked(locked, u, amount, flag)[u].totalLocked = locked[u].totalLocked + amount
         /\ \A w \in Users : w # u => IncreaseLocked(locked, u, amount, flag)[w] = locked[w]
         /\ DecreaseLocked(locked, u, amount, flag) \in
              [Users -> [totalLocked : Int, activeRequestCount : Int]]
         /\ DecreaseLocked(locked, u, amount, flag)[u].totalLocked = locked[u].totalLocked + (0 - amount)
         /\ \A w \in Users : w # u => DecreaseLocked(locked, u, amount, flag)[w] = locked[w]
<1>1. locked[u].totalLocked \in Int /\ locked[u].activeRequestCount \in Int
  OBVIOUS
<1>2. /\ IncreaseLocked(locked, u, amount, flag) \in
           [Users -> [totalLocked : Int, activeRequestCount : Int]]
      /\ IncreaseLocked(locked, u, amount, flag)[u].totalLocked = locked[u].totalLocked + amount
      /\ \A w \in Users : w # u => IncreaseLocked(locked, u, amount, flag)[w] = locked[w]
  BY <1>1 DEF IncreaseLocked
<1>3. /\ DecreaseLocked(locked, u, amount, flag) \in
           [Users -> [totalLocked : Int, activeRequestCount : Int]]
      /\ DecreaseLocked(locked, u, amount, flag)[u].totalLocked = locked[u].totalLocked + (0 - amount)
      /\ \A w \in Users : w # u => DecreaseLocked(locked, u, amount, flag)[w] = locked[w]
  BY <1>1 DEF DecreaseLocked
<1>4. QED BY <1>2, <1>3

(* CARGO enters the escrow for a request, whoever paid it in.               *)
LEMMA PotPaidIn ==
  ASSUME RequestsOK, PoolOK,
         NEW r \in RequestIds, requests[r].shipper \in Users,
         requests' \in [RequestIds -> Requests],
         \A q \in RequestIds : q # r => requests'[q] = requests[q],
         Solvent(requests'[r]), requests'[r].shipper = requests[r].shipper,
         NEW amount \in Nat, Pot(requests'[r]) = Pot(requests[r]) + amount,
         NEW opened \in BOOLEAN, EnterEscrow(requests[r].shipper, amount, opened),
         cargo' \in [Accounts -> Nat], cargo'[Escrow] = cargo[Escrow] + amount
  PROVE  PoolOK'
<1>1. lockedEscrow \in [Users -> [totalLocked : Nat, activeRequestCount : Int]]
  BY DEF PoolOK
<1>2. /\ lockedEscrow' \in [Users -> [totalLocked : Int, activeRequestCount : Int]]
      /\ lockedEscrow'[requests[r].shipper].totalLocked =
           lockedEscrow[requests[r].shipper].totalLocked + amount
      /\ \A w \in Users : w # requests[r].shipper => lockedEscrow'[w] = lockedEscrow[w]
  BY <1>1, LockedMoves DEF EnterEscrow
<1>3. totalEscrowed' = totalEscrowed + amount
  BY DEF EnterEscrow
<1>4. QED BY <1>2, <1>3, PotMoves

(* CARGO enters the escrow for a request.                                   *)
LEMMA PotGrows ==
  ASSUME RequestsOK, PoolOK,
         NEW r \in RequestIds, requests[r].shipper \in Users,
         requests' \in [RequestIds -> Requests],
         \A q \in RequestIds : q # r => requests'[q] = requests[q],
         Solvent(requests'[r]), requests'[r].shipper = requests[r].shipper,
         NEW amount \in Nat, Pot(requests'[r]) = Pot(requests[r]) + amount,
         NEW opened \in BOOLEAN, EnterEscrow(requests[r].shipper, amount, opened),
         NEW from \in Accounts \ {Escrow}, amount <= cargo[from],
         cargo' = Transfer(cargo, from, Escrow, amount)
  PROVE  PoolOK'
<1>1. cargo \in [Accounts -> Nat] /\ Escrow \in Accounts
  BY DEF PoolOK, Accounts
<1>2. cargo' \in [Accounts -> Nat] /\ cargo'[Escrow] = cargo[Escrow] + amount
  BY <1>1, TransferMoves
<1>3. QED BY <1>2, PotPaidIn

(* CARGO of a request leaves the escrow for whomever.                       *)
LEMMA PotShrinks ==
  ASSUME RequestsOK, PoolOK,
         NEW r \in RequestIds, requests[r].shipper \in Users,
         requests' \in [RequestIds -> Requests],
         \A q \in RequestIds : q # r => requests'[q] = requests[q],
         Solvent(requests'[r]), requests'[r].shipper = requests[r].shipper,
         NEW amount \in Nat, Pot(requests'[r]) = Pot(requests[r]) - amount,
         NEW settled \in BOOLEAN, LeaveEscrow(requests[r].shipper, amount, settled),
         cargo' \in [Accounts -> Nat], cargo'[Escrow] = cargo[Escrow] - amount
  PROVE  PoolOK'
<1> DEFINE delta == 0 - amount
<1>1. /\ cargo \in [Accounts -> Nat] /\ Escrow \in Accounts /\ totalEscrowed \in Nat
      /\ lockedEscrow \in [Users -> [totalLocked : Nat, activeRequestCount : Int]]
      /\ cargo[Escrow] \in Nat
  BY DEF PoolOK, Accounts
<1>2. /\ lockedEscrow' \in [Users -> [totalLocked : Int, activeRequestCount : Int]]
      /\ lockedEscrow'[requests[r].shipper].totalLocked =
           lockedEscrow[requests[r].shipper].totalLocked + delta
      /\ \A w \in Users : w # requests[r].shipper => lockedEscrow'[w] = lockedEscrow[w]
  BY <1>1, LockedMoves DEF LeaveEscrow
<1>3. Pot(requests[r]) \in Nat
  BY PotOfSolvent DEF RequestsOK
<1>4. /\ totalEscrowed' = totalEscrowed + delta
      /\ cargo'[Escrow] = cargo[Escrow] + delta
      /\ Pot(requests'[r]) = Pot(requests[r]) + delta
      /\ delta \in Int
  BY <1>1, <1>3 DEF LeaveEscrow
<1> HIDE DEF delta
<1>5. QED BY <1>2, <1>4, PotMoves

(* A funded request changes, without giving up what RequestsOK says of it.  *)
LEMMA FundedRequestChanges ==
  ASSUME RequestsOK, UNCHANGED nextRequestId, nextRequestId \in Nat,
         NEW r \in RequestIds, r < nextRequestId,
         \A q \in RequestIds : q # r => nextMilestoneId'[q] = nextMilestoneId[q],
         requests' \in [RequestIds -> Requests],
         \A q \in RequestIds : q # r => requests'[q] = requests[q],
         Solvent(requests'[r]), WasFunded(requests'[r]),
         requests'[r].shipper = requests[r].shipper, requests'[r].carrier \in Users
  PROVE  RequestsOK'
<1>1. r < nextRequestId' /\ ~(r >= nextRequestId')
  BY NumberAssumption DEF RequestIds
<1>2. QED BY <1>1 DEF RequestsOK

-----------------------------------------------------------------------------
(* The market.                                                              *)

(* Swap-and-pop keeps the list and its index inverse to each other.         *)
LEMMA RemoveKeepsOpenList ==
  ASSUME MarketOK, NEW r \in RequestIds, RequestExists(r), requests[r].status = "Open",
         RemoveOpenRequestId(r), nextRequestId' = nextRequestId,
         requests'[r].status # "Open",
         \A q \in RequestIds : q # r => requests'[q].status = requests[q].status
  PROVE  /\ openRequestIds' \in Seq(RequestIds)
         /\ openRequestIndexPlusOne' \in [RequestIds -> Nat]
         /\ OpenListOK'
<1> DEFINE place == openRequestIndexPlusOne[r]
           len == Len(openRequestIds)
           last == openRequestIds[len]
<1>1. /\ openRequestIds \in Seq(RequestIds) /\ len \in Nat
      /\ DOMAIN openRequestIds = 1 .. len
      /\ openRequestIds \in [1 .. len -> RequestIds]
      /\ openRequestIndexPlusOne \in [RequestIds -> Nat]
  BY DEF MarketOK
<1>2. place \in 1 .. len /\ openRequestIds[place] = r
  BY <1>1 DEF MarketOK, OpenListOK, OpenListMatches
<1>3. len \in 1 .. len /\ last \in RequestIds
  <2> HIDE DEF place
  <2>1. len \in 1 .. len
    BY <1>1, <1>2
  <2>2. QED BY <1>1, <2>1
<1>4. \A i \in 1 .. len : openRequestIndexPlusOne[openRequestIds[i]] = i
  BY <1>1 DEF MarketOK, OpenListOK
<1>5. /\ openRequestIds' = SubSeq([openRequestIds EXCEPT ![place] = last], 1, len - 1)
      /\ openRequestIndexPlusOne' = [openRequestIndexPlusOne EXCEPT ![last] = place, ![r] = 0]
  BY <1>1, <1>2 DEF RemoveOpenRequestId
<1>6. /\ openRequestIds' \in Seq(RequestIds) /\ Len(openRequestIds') = len - 1
      /\ DOMAIN openRequestIds' = 1 .. len - 1
      /\ \A i \in 1 .. len - 1 :
           openRequestIds'[i] = IF i = place THEN last ELSE openRequestIds[i]
  <2> HIDE DEF place, last, len
  <2> DEFINE swapped == [openRequestIds EXCEPT ![place] = last]
  <2>1. /\ swapped \in [1 .. len -> RequestIds]
        /\ \A i \in 1 .. len : swapped[i] = IF i = place THEN last ELSE openRequestIds[i]
    BY <1>1, <1>2, <1>3
  <2>2. openRequestIds' = SubSeq(swapped, 1, len - 1)
    BY <1>5
  <2> HIDE DEF swapped
  <2>3. QED BY <1>1, <1>3, <2>1, <2>2
<1>7. openRequestIndexPlusOne' \in [RequestIds -> Nat]
      /\ \A q \in RequestIds : openRequestIndexPlusOne'[q] =
           IF q = r THEN 0 ELSE IF q = last THEN place ELSE openRequestIndexPlusOne[q]
  <2> HIDE DEF place, last
  <2>1. place \in Nat
    BY <1>2
  <2>2. QED BY <1>1, <1>3, <1>5, <2>1
<1>8. ASSUME NEW q \in RequestIds
      PROVE  IF RequestExists(q) /\ requests[q].status = "Open"
             THEN /\ openRequestIndexPlusOne[q] \in 1 .. len
                  /\ openRequestIds[openRequestIndexPlusOne[q]] = q
             ELSE /\ openRequestIndexPlusOne[q] = 0
                  /\ \A i \in 1 .. len : openRequestIds[i] # q
  BY <1>1 DEF MarketOK, OpenListOK, OpenListMatches
<1>9. ASSUME NEW q \in RequestIds
      PROVE  /\ RequestExists(q)' <=> RequestExists(q)
             /\ q # r => requests'[q].status = requests[q].status
  BY DEF RequestExists
<1> HIDE DEF place, len, last
<1>10. last = openRequestIds[len]
  BY DEF last, len
<1>11. ASSUME NEW q \in RequestIds, RequestExists(q)', requests'[q].status = "Open"
       PROVE  /\ openRequestIndexPlusOne'[q] \in 1 .. len - 1
              /\ openRequestIds'[openRequestIndexPlusOne'[q]] = q
  <2>1. q # r /\ RequestExists(q) /\ requests[q].status = "Open"
    BY <1>9, <1>11
  <2>2. /\ openRequestIndexPlusOne[q] \in 1 .. len
        /\ openRequestIds[openRequestIndexPlusOne[q]] = q
        /\ openRequestIndexPlusOne[q] # place
    BY <1>2, <1>8, <2>1
  <2>3. CASE q = last
    <3>1. place # len
      BY <1>2, <1>10, <2>1, <2>3
    <3>2. place \in 1 .. len - 1
      BY <1>1, <1>2, <3>1
    <3>3. QED BY <3>2, <2>1, <2>3, <1>6, <1>7
  <2>4. CASE q # last
    <3>1. openRequestIndexPlusOne[q] # len
      BY <2>2, <2>4, <1>10
    <3>2. openRequestIndexPlusOne[q] \in 1 .. len - 1
      BY <1>1, <2>2, <3>1
    <3>3. openRequestIndexPlusOne'[q] = openRequestIndexPlusOne[q]
      BY <2>1, <2>4, <1>7
    <3>4. QED BY <3>2, <3>3, <2>2, <1>6
  <2>5. QED BY <2>3, <2>4
<1>12. ASSUME NEW q \in RequestIds, ~(RequestExists(q)' /\ requests'[q].status = "Open")
       PROVE  /\ openRequestIndexPlusOne'[q] = 0
              /\ \A i \in 1 .. len - 1 : openRequestIds'[i] # q
  <2>1. CASE q = r
    <3>1. openRequestIndexPlusOne'[q] = 0
      BY <2>1, <1>7
    <3>2. ASSUME NEW i \in 1 .. len - 1 PROVE openRequestIds'[i] # r
      <4>1. i \in 1 .. len
        BY <1>1
      <4>2. CASE i = place
        <5>1. last # r
          BY <4>2, <1>1, <1>2, <1>3, <1>4, <1>10
        <5>2. QED BY <5>1, <4>2, <1>6
      <4>3. CASE i # place
        <5>1. openRequestIds[i] # r
          BY <4>1, <4>3, <1>2, <1>4
        <5>2. QED BY <5>1, <4>3, <1>6
      <4>4. QED BY <4>2, <4>3
    <3>3. QED BY <3>1, <3>2, <2>1
  <2>2. CASE q # r
    <3>1. /\ openRequestIndexPlusOne[q] = 0
          /\ \A i \in 1 .. len : openRequestIds[i] # q
      BY <1>8, <1>9, <1>12, <2>2
    <3>2. q # last
      BY <3>1, <1>3, <1>10
    <3>3. \A i \in 1 .. len - 1 : i \in 1 .. len
      BY <1>1
    <3>4. QED BY <3>1, <3>2, <3>3, <2>2, <1>6, <1>7
  <2>3. QED BY <2>1, <2>2
<1>13. ASSUME NEW i \in 1 .. len - 1 PROVE openRequestIndexPlusOne'[openRequestIds'[i]] = i
  <2>1. i \in 1 .. len /\ i # len
    BY <1>1
  <2>2. CASE i = place
    <3>1. last # r
      BY <2>1, <2>2, <1>2, <1>3, <1>4, <1>10
    <3>2. QED BY <3>1, <2>2, <1>3, <1>6, <1>7
  <2>3. CASE i # place
    <3>1. openRequestIds[i] # r /\ openRequestIds[i] # last /\ openRequestIds[i] \in RequestIds
      BY <2>1, <2>3, <1>1, <1>2, <1>3, <1>4, <1>10
    <3>2. QED BY <3>1, <2>1, <2>3, <1>4, <1>6, <1>7
  <2>4. QED BY <2>2, <2>3
<1>14. OpenListOK'
  BY <1>6, <1>11, <1>12, <1>13 DEF OpenListOK, OpenListMatches
<1>15. QED BY <1>6, <1>7, <1>14

(* A new request goes to the end of the list.                               *)
LEMMA CreateRequestOK ==
  ASSUME IInv, NEW u \in Users, NEW deadline \in Deadlines, NEW amount \in Amounts,
         CreateRequest(u, deadline, amount)
  PROVE  IInv'
<1> DEFINE r == nextRequestId
           len == Len(openRequestIds)
           new == [NoRequest EXCEPT !.shipper = u, !.deadline = deadline,
                                    !.proposedAmount = amount]
<1> USE DEF IInv
<1>1. /\ r \in RequestIds /\ ~RequestExists(r) /\ requests[r] = NoRequest
      /\ nextRequestId \in Nat
  <2>1. nextRequestId \in 1 .. MaxRequests + 1 /\ nextRequestId <= MaxRequests
    BY DEF CreateRequest, MarketOK
  <2>2. r \in RequestIds /\ nextRequestId \in Nat /\ r >= nextRequestId
    BY <2>1, NumberAssumption DEF RequestIds
  <2>3. QED BY <2>2 DEF RequestsOK, RequestExists
<1>2. /\ new \in Requests /\ Solvent(new) /\ Unfunded(new) /\ ~WasFunded(new)
      /\ new.status = "Open" /\ new.shipper = u /\ Pot(new) = 0 /\ Pot(NoRequest) = 0
  <2>1. deadline \in Nat /\ amount \in Nat
    BY InputAssumption
  <2>2. NoRequest \in Requests
    BY DEF NoRequest, Requests, RequestStatus
  <2>3. new \in Requests
    BY <2>1, <2>2 DEF Requests
  <2>4. /\ new.shipper = u /\ new.status = NoRequest.status
        /\ new.totalAmount = NoRequest.totalAmount
        /\ new.releasedAmount = NoRequest.releasedAmount
        /\ new.refundedAmount = NoRequest.refundedAmount
        /\ new.operationalAllowance = NoRequest.operationalAllowance
        /\ new.operationalSpent = NoRequest.operationalSpent
    BY <2>2 DEF Requests
  <2> HIDE DEF new
  <2>5. QED
    BY <2>3, <2>4 DEF NoRequest, Solvent, Unfunded, WasFunded, Pot, EscrowOf, OperationalOf
<1>3. /\ requests' = [requests EXCEPT ![r] = new]
      /\ requests' \in [RequestIds -> Requests]
      /\ requests'[r] = new
      /\ \A q \in RequestIds : q # r => requests'[q] = requests[q]
  <2>1. requests' = [requests EXCEPT ![r] = new] /\ requests \in [RequestIds -> Requests]
    BY DEF CreateRequest, RequestsOK
  <2> HIDE DEF new
  <2>2. QED BY <2>1, <1>1, <1>2
<1> HIDE DEF new
<1>4. ClockOK'
  BY ClockStays DEF CreateRequest
<1>5. MarketOK'
  <2>1. PlansOK'
    BY DEF CreateRequest, MarketOK, PlansOK
  <2>2. /\ openRequestIds \in Seq(RequestIds) /\ len \in Nat
        /\ DOMAIN openRequestIds = 1 .. len
        /\ openRequestIndexPlusOne \in [RequestIds -> Nat]
    BY DEF MarketOK
  <2>3. /\ openRequestIds' \in Seq(RequestIds)
        /\ DOMAIN openRequestIds' = 1 .. len + 1
        /\ openRequestIds'[len + 1] = r
        /\ \A i \in 1 .. len : openRequestIds'[i] = openRequestIds[i]
    BY <2>2, <1>1 DEF CreateRequest
  <2>4. /\ openRequestIndexPlusOne' \in [RequestIds -> Nat]
        /\ openRequestIndexPlusOne'[r] = len + 1
        /\ \A q \in RequestIds : q # r => openRequestIndexPlusOne'[q] = openRequestIndexPlusOne[q]
    BY <2>2, <1>1 DEF CreateRequest
  <2>5. \A q \in RequestIds : RequestExists(q)' <=> RequestExists(q) \/ q = r
    BY <1>1 DEF CreateRequest, RequestExists, RequestIds
  <2>6. \A q \in RequestIds :
          IF RequestExists(q) /\ requests[q].status = "Open"
          THEN /\ openRequestIndexPlusOne[q] \in 1 .. len
               /\ openRequestIds[openRequestIndexPlusOne[q]] = q
          ELSE /\ openRequestIndexPlusOne[q] = 0
               /\ \A i \in 1 .. len : openRequestIds[i] # q
    BY <2>2 DEF MarketOK, OpenListOK, OpenListMatches
  <2>7. \A i \in 1 .. len : openRequestIndexPlusOne[openRequestIds[i]] = i
    BY <2>2 DEF MarketOK, OpenListOK
  <2> HIDE DEF len
  <2>8. ASSUME NEW q \in RequestIds
        PROVE  IF RequestExists(q)' /\ requests'[q].status = "Open"
               THEN /\ openRequestIndexPlusOne'[q] \in 1 .. len + 1
                    /\ openRequestIds'[openRequestIndexPlusOne'[q]] = q
               ELSE /\ openRequestIndexPlusOne'[q] = 0
                    /\ \A i \in 1 .. len + 1 : openRequestIds'[i] # q
    <3>1. CASE q = r
      <4>1. requests'[q].status = "Open" /\ RequestExists(q)'
        BY <3>1, <1>2, <1>3, <2>5
      <4>2. len + 1 \in 1 .. len + 1
        BY <2>2
      <4>3. QED BY <4>1, <4>2, <3>1, <2>3, <2>4
    <3>2. CASE q # r
      <4>1. /\ RequestExists(q)' <=> RequestExists(q)
            /\ requests'[q] = requests[q]
            /\ openRequestIndexPlusOne'[q] = openRequestIndexPlusOne[q]
        BY <3>2, <1>3, <2>4, <2>5
      <4>2. \A i \in 1 .. len + 1 : i \in 1 .. len \/ i = len + 1
        BY <2>2
      <4>3. \A i \in 1 .. len : i \in 1 .. len + 1
        BY <2>2
      <4>4. QED BY <4>1, <4>2, <4>3, <3>2, <2>3, <2>6
    <3>3. QED BY <3>1, <3>2
  <2>9. ASSUME NEW i \in 1 .. len + 1 PROVE openRequestIndexPlusOne'[openRequestIds'[i]] = i
    <3>1. CASE i = len + 1
      BY <3>1, <2>3, <2>4
    <3>2. CASE i # len + 1
      <4>1. i \in 1 .. len
        BY <3>2, <2>2
      <4>2. openRequestIds[i] # r /\ openRequestIds[i] \in RequestIds
        BY <4>1, <1>1, <2>2, <2>6
      <4>3. QED BY <4>1, <4>2, <2>3, <2>4, <2>7
    <3>3. QED BY <3>1, <3>2
  <2>10. OpenListOK'
    BY <2>3, <2>8, <2>9 DEF OpenListOK, OpenListMatches
  <2>11. nextRequestId' \in 1 .. MaxRequests + 1
    BY <1>1, NumberAssumption DEF CreateRequest, RequestIds
  <2>12. QED BY <2>1, <2>3, <2>4, <2>10, <2>11 DEF MarketOK, CreateRequest
<1>6. RequestsOK'
  <2>1. nextRequestId' = r + 1 /\ UNCHANGED nextMilestoneId
    BY DEF CreateRequest, workVars
  <2>2. nextMilestoneId[r] = 0
    BY <1>1 DEF RequestsOK, NoRequest, WasFunded
  <2>3. \A q \in RequestIds : q >= r + 1 => q >= r /\ q # r
    BY <1>1 DEF RequestIds
  <2>4. \A q \in RequestIds : q < r + 1 => q < r \/ q = r
    BY <1>1 DEF RequestIds
  <2>5. ~(r >= r + 1)
    BY <1>1
  <2>6. QED BY <1>1, <1>2, <1>3, <2>1, <2>2, <2>3, <2>4, <2>5 DEF RequestsOK
<1>7. WorkOK'
  BY WorkStays DEF CreateRequest
<1>8. PoolOK'
  <2>1. \A q \in RequestIds :
          /\ Pot(requests'[q]) = Pot(requests[q])
          /\ Pot(requests[q]) # 0 => requests'[q].shipper = requests[q].shipper
    BY <1>1, <1>2, <1>3
  <2>2. cargo' = cargo /\ UNCHANGED <<totalEscrowed, lockedEscrow>>
    BY DEF CreateRequest, moneyVars
  <2>3. QED BY <2>1, <2>2, PotsStay DEF PoolOK
<1>9. QED BY <1>4, <1>5, <1>6, <1>7, <1>8

LEMMA OpenListStays ==
  OpenListOK /\ UNCHANGED <<requests, nextRequestId, openRequestIds, openRequestIndexPlusOne>>
    => OpenListOK'
BY DEF OpenListOK, OpenListMatches, RequestExists

LEMMA ProposeMilestonesOK ==
  ASSUME IInv, NEW u \in Users, NEW r \in RequestIds, NEW plan \in Plans,
         ProposeMilestones(u, r, plan)
  PROVE  IInv'
<1> USE DEF IInv
<1> DEFINE new == [carrier |-> u, status |-> "Active", plan |-> plan]
<1>1. ClockOK' /\ RequestsOK' /\ WorkOK' /\ PoolOK'
  BY ClockStays, RequestsStay, WorkStays, PoolStays DEF ProposeMilestones, workVars
<1>2. /\ proposals \in [RequestIds -> Seq(Proposals)]
      /\ proposals' = [proposals EXCEPT ![r] = Append(proposals[r], new)]
  BY DEF MarketOK, ProposeMilestones
<1>3. new \in Proposals /\ ValidPlan(new.plan)
  BY DEF Proposals, ProposalStatus, ProposeMilestones
<1> HIDE DEF new
<1>4. /\ Append(proposals[r], new) \in Seq(Proposals)
      /\ \A p \in DOMAIN Append(proposals[r], new) :
           \/ p \in DOMAIN proposals[r] /\ Append(proposals[r], new)[p] = proposals[r][p]
           \/ Append(proposals[r], new)[p] = new
  BY <1>2, <1>3
<1>5. proposals' \in [RequestIds -> Seq(Proposals)]
  BY <1>2, <1>4
<1>6. PlansOK'
  <2>1. ASSUME NEW q \in RequestIds, NEW p \in DOMAIN proposals'[q]
        PROVE  ValidPlan(proposals'[q][p].plan)
    <3>1. CASE q = r
      BY <3>1, <1>2, <1>3, <1>4 DEF MarketOK, PlansOK
    <3>2. CASE q # r
      BY <3>2, <1>2 DEF MarketOK, PlansOK
    <3>3. QED BY <3>1, <3>2
  <2>2. QED BY <2>1 DEF PlansOK
<1>7. activeProposal' \in [RequestIds -> [Users -> Nat]]
  <2>1. Len(proposals[r]) + 1 \in Nat
    BY <1>2
  <2>2. activeProposal \in [RequestIds -> [Users -> Nat]]
    BY DEF MarketOK
  <2>3. QED BY <2>1, <2>2 DEF ProposeMilestones
<1>8. OpenListOK'
  BY OpenListStays DEF MarketOK, ProposeMilestones
<1>9. MarketOK'
  BY <1>5, <1>6, <1>7, <1>8 DEF MarketOK, ProposeMilestones
<1>10. QED BY <1>1, <1>9

(* A proposal that is closed keeps its carrier and its plan.                *)
LEMMA CloseProposalKeepsPlans ==
  ASSUME MarketOK, NEW r \in RequestIds, NEW p, NEW outcome \in ProposalStatus,
         CloseProposal(r, p, outcome)
  PROVE  /\ proposals' \in [RequestIds -> Seq(Proposals)]
         /\ activeProposal' \in [RequestIds -> [Users -> Nat]]
         /\ PlansOK'
<1> DEFINE old == proposals[r]
           new == [old EXCEPT ![p].status = outcome]
<1>1. /\ proposals \in [RequestIds -> Seq(Proposals)]
      /\ activeProposal \in [RequestIds -> [Users -> Nat]]
      /\ old \in Seq(Proposals)
  BY DEF MarketOK
<1>2. DOMAIN new = DOMAIN old /\ DOMAIN old = 1 .. Len(old) /\ Len(old) \in Nat
  BY <1>1
<1>3. ASSUME NEW k \in DOMAIN old
      PROVE  new[k] \in Proposals /\ new[k].plan = old[k].plan
  <2>1. old[k] \in Proposals
    BY <1>1
  <2>2. CASE k = p
    <3>1. new[k] = [old[k] EXCEPT !.status = outcome]
      BY <2>2
    <3>2. QED BY <3>1, <2>1 DEF Proposals
  <2>3. CASE k # p
    BY <2>1, <2>3
  <2>4. QED BY <2>2, <2>3
<1>4. new \in Seq(Proposals)
  <2>1. new = [k \in 1 .. Len(old) |-> new[k]]
    BY <1>2
  <2> HIDE DEF new
  <2>2. new \in [1 .. Len(old) -> Proposals]
    BY <2>1, <1>2, <1>3
  <2>3. QED BY <2>2, <1>2
<1>5. proposals' = [proposals EXCEPT ![r] = new]
  BY DEF CloseProposal
<1> HIDE DEF new
<1>6. proposals' \in [RequestIds -> Seq(Proposals)]
  BY <1>1, <1>4, <1>5
<1>7. PlansOK'
  <2>1. ASSUME NEW q \in RequestIds, NEW k \in DOMAIN proposals'[q]
        PROVE  ValidPlan(proposals'[q][k].plan)
    <3>1. CASE q = r
      BY <3>1, <1>1, <1>2, <1>3, <1>5 DEF MarketOK, PlansOK
    <3>2. CASE q # r
      BY <3>2, <1>1, <1>5 DEF MarketOK, PlansOK
    <3>3. QED BY <3>1, <3>2
  <2>2. QED BY <2>1 DEF PlansOK
<1>8. activeProposal' \in [RequestIds -> [Users -> Nat]]
  <2> DEFINE c == proposals[r][p].carrier
  <2>1. activeProposal' = [activeProposal EXCEPT ![r] = [activeProposal[r] EXCEPT ![c] = 0]]
    BY DEF CloseProposal
  <2> HIDE DEF c
  <2>2. [activeProposal[r] EXCEPT ![c] = 0] \in [Users -> Nat]
    BY <1>1
  <2>3. QED BY <2>1, <2>2, <1>1
<1>9. QED BY <1>6, <1>7, <1>8

LEMMA RevokeMilestoneProposalOK ==
  ASSUME IInv, NEW u \in Users, NEW r \in RequestIds, RevokeMilestoneProposal(u, r)
  PROVE  IInv'
<1> USE DEF IInv
<1>1. ClockOK' /\ RequestsOK' /\ WorkOK' /\ PoolOK'
  BY ClockStays, RequestsStay, WorkStays, PoolStays DEF RevokeMilestoneProposal, workVars
<1>2. /\ proposals' \in [RequestIds -> Seq(Proposals)]
      /\ activeProposal' \in [RequestIds -> [Users -> Nat]]
      /\ PlansOK'
  BY CloseProposalKeepsPlans DEF RevokeMilestoneProposal, ProposalStatus
<1>3. OpenListOK'
  BY OpenListStays DEF MarketOK, RevokeMilestoneProposal
<1>4. MarketOK'
  BY <1>2, <1>3 DEF MarketOK, RevokeMilestoneProposal
<1>5. QED BY <1>1, <1>4

LEMMA RejectMilestoneProposalOK ==
  ASSUME IInv, NEW r \in RequestIds, NEW p \in 1 .. MaxProposals, RejectMilestoneProposal(r, p)
  PROVE  IInv'
<1> USE DEF IInv
<1>1. ClockOK' /\ RequestsOK' /\ WorkOK' /\ PoolOK'
  BY ClockStays, RequestsStay, WorkStays, PoolStays DEF RejectMilestoneProposal, workVars
<1>2. /\ proposals' \in [RequestIds -> Seq(Proposals)]
      /\ activeProposal' \in [RequestIds -> [Users -> Nat]]
      /\ PlansOK'
  BY CloseProposalKeepsPlans DEF RejectMilestoneProposal, ProposalStatus
<1>3. OpenListOK'
  BY OpenListStays DEF MarketOK, RejectMilestoneProposal
<1>4. MarketOK'
  BY <1>2, <1>3 DEF MarketOK, RejectMilestoneProposal
<1>5. QED BY <1>1, <1>4

LEMMA CancelRequestOK ==
  ASSUME IInv, NEW r \in RequestIds, CancelRequest(r)
  PROVE  IInv'
<1> USE DEF IInv
<1> DEFINE new == [requests[r] EXCEPT !.status = "Cancelled"]
<1>1. /\ requests[r] \in Requests /\ requests \in [RequestIds -> Requests]
      /\ Solvent(requests[r]) /\ ~WasFunded(requests[r]) /\ requests[r].status = "Open"
      /\ RequestExists(r)
  <2>1. requests[r] \in Requests /\ Solvent(requests[r])
    BY DEF RequestsOK
  <2>2. requests[r].status = "Open"
    BY <2>1 DEF CancelRequest, Requests, RequestStatus
  <2>3. QED BY <2>1, <2>2 DEF CancelRequest, RequestsOK, WasFunded
<1>2. /\ new \in Requests /\ Solvent(new) /\ ~WasFunded(new) /\ new.status # "Open"
      /\ new.shipper = requests[r].shipper /\ Pot(new) = Pot(requests[r])
      /\ Unfunded(requests[r]) => Unfunded(new)
  <2>1. new \in Requests
    BY <1>1 DEF Requests, RequestStatus
  <2>2. QED BY <2>1, <1>1 DEF Requests, Solvent, WasFunded, Pot, EscrowOf, OperationalOf, Unfunded
<1>3. /\ requests' \in [RequestIds -> Requests]
      /\ requests'[r] = new
      /\ \A q \in RequestIds : q # r => requests'[q] = requests[q]
  BY <1>1, <1>2 DEF CancelRequest
<1> HIDE DEF new
<1>4. ClockOK' /\ WorkOK'
  BY ClockStays, WorkStays DEF CancelRequest
<1>5. RequestsOK'
  <2>1. UNCHANGED <<nextRequestId, nextMilestoneId>> /\ r < nextRequestId
    BY <1>1 DEF CancelRequest, workVars, RequestExists
  <2>2. nextRequestId \in Nat /\ ~(r >= nextRequestId)
    BY <2>1, NumberAssumption DEF MarketOK, RequestIds
  <2>3. QED BY <1>1, <1>2, <1>3, <2>1, <2>2 DEF RequestsOK
<1>6. PoolOK'
  <2>1. \A q \in RequestIds :
          /\ Pot(requests'[q]) = Pot(requests[q])
          /\ Pot(requests[q]) # 0 => requests'[q].shipper = requests[q].shipper
    BY <1>2, <1>3
  <2>2. cargo' = cargo /\ UNCHANGED <<totalEscrowed, lockedEscrow>>
    BY DEF CancelRequest, moneyVars
  <2>3. QED BY <2>1, <2>2, PotsStay DEF PoolOK
<1>7. MarketOK'
  <2>1. /\ openRequestIds' \in Seq(RequestIds)
        /\ openRequestIndexPlusOne' \in [RequestIds -> Nat]
        /\ OpenListOK'
    <3>1. RemoveOpenRequestId(r) /\ nextRequestId' = nextRequestId
      BY <1>1 DEF CancelRequest
    <3>2. QED BY <3>1, <1>1, <1>2, <1>3, RemoveKeepsOpenList
  <2>2. PlansOK'
    BY DEF MarketOK, PlansOK, CancelRequest
  <2>3. QED BY <2>1, <2>2 DEF MarketOK, CancelRequest
<1>8. QED BY <1>4, <1>5, <1>6, <1>7

-----------------------------------------------------------------------------
(* Funding.                                                                 *)

LEMMA OrderChanges ==
  ASSUME WorkOK, NEW r \in RequestIds,
         NEW ms \in [MilestoneIds -> Milestones], milestones' = [milestones EXCEPT ![r] = ms],
         NEW order \in Seq(MilestoneIds), executionOrder' = [executionOrder EXCEPT ![r] = order],
         NEW next \in Nat, nextMilestoneId' = [nextMilestoneId EXCEPT ![r] = next],
         next = Len(order),
         \A m \in MilestoneIds : m < next => \E i \in DOMAIN order : order[i] = m,
         milestoneStateVersion' \in [RequestIds -> Nat]
  PROVE  WorkOK'
<1>1. /\ milestones \in [RequestIds -> [MilestoneIds -> Milestones]]
      /\ nextMilestoneId \in [RequestIds -> Nat]
      /\ executionOrder \in [RequestIds -> Seq(MilestoneIds)]
  BY DEF WorkOK
<1>2. /\ milestones' \in [RequestIds -> [MilestoneIds -> Milestones]]
      /\ nextMilestoneId' \in [RequestIds -> Nat]
      /\ executionOrder' \in [RequestIds -> Seq(MilestoneIds)]
  BY <1>1
<1>3. ASSUME NEW q \in RequestIds
      PROVE  /\ Len(executionOrder'[q]) = nextMilestoneId'[q]
             /\ \A m \in MilestoneIds : m < nextMilestoneId'[q] =>
                  \E i \in DOMAIN executionOrder'[q] : executionOrder'[q][i] = m
  <2>1. CASE q = r
    BY <2>1, <1>1
  <2>2. CASE q # r
    BY <2>2, <1>1 DEF WorkOK, ExecutionOrderIsComplete, MilestonesOf, MilestoneExists
  <2>3. QED BY <2>1, <2>2
<1>4. ExecutionOrderIsComplete'
  BY <1>3 DEF ExecutionOrderIsComplete, MilestonesOf, MilestoneExists
<1>5. QED BY <1>2, <1>4 DEF WorkOK

LEMMA MinimumIsNat ==
  ASSUME MarketOK, NEW r \in RequestIds, NEW p \in DOMAIN proposals[r], NEW price \in Nat
  PROVE  /\ proposals[r][p].carrier \in Users
         /\ proposals[r][p].plan \in Seq(Nat) /\ ValidPlan(proposals[r][p].plan)
         /\ MinimumOperationalAllowance(r, p, price) \in Nat
<1> DEFINE plan == proposals[r][p].plan
<1>1. proposals[r][p] \in Proposals
  BY DEF MarketOK
<1>2. proposals[r][p].carrier \in Users /\ plan \in Seq(Nat)
  BY <1>1, InputAssumption DEF Proposals
<1>3. ValidPlan(plan)
  BY DEF MarketOK, PlansOK
<1>4. Len(plan) * ProofReserve(price) \in Nat
  <2>1. Len(plan) \in Nat /\ ProofReserve(price) \in Nat
    BY <1>2, ProofReserveIsNat
  <2>2. \A a, b \in Nat : a * b \in Nat
    OBVIOUS
  <2>3. QED BY <2>1, <2>2
<1>5. QED BY <1>2, <1>3, <1>4 DEF MinimumOperationalAllowance

LEMMA ApproveAndFundOK ==
  ASSUME IInv, NEW r \in RequestIds, NEW p \in DOMAIN proposals[r],
         NEW price \in ReferenceGasPrices, NEW allowance \in Nat,
         ApproveAndFund(r, p, price, allowance)
  PROVE  IInv'
<1> USE DEF IInv
<1> DEFINE old == requests[r]
           amount == old.proposedAmount
           carrier == proposals[r][p].carrier
           plan == proposals[r][p].plan
           n == Len(plan)
           cap == allowance \div (n * ProofReserve(1))
           new == [old EXCEPT !.carrier = carrier, !.totalAmount = amount, !.status = "Funded",
                              !.operationalAllowance = allowance, !.gasPriceCap = cap]
           ms == [m \in MilestoneIds |->
                    IF m \in 0 .. n - 1
                    THEN [NoMilestone EXCEPT !.status = "PendingProof",
                                             !.payoutAmount = PayoutAmount(amount, plan, m + 1)]
                    ELSE milestones[r][m]]
           order == [i \in 1 .. n |-> i - 1]
<1>1. /\ old \in Requests /\ requests \in [RequestIds -> Requests] /\ amount \in Nat
      /\ old.status = "Open" /\ Unfunded(old) /\ nextMilestoneId[r] = 0
      /\ RequestExists(r) /\ r < nextRequestId /\ old.shipper \in Users
  <2>1. RequestExists(r) /\ old.status = "Open"
    BY DEF ApproveAndFund
  <2>2. old \in Requests /\ ~WasFunded(old) /\ r < nextRequestId
    BY <2>1 DEF RequestsOK, WasFunded, RequestExists
  <2>3. Unfunded(old) /\ nextMilestoneId[r] = 0 /\ old.shipper \in Users
    BY <2>2 DEF RequestsOK
  <2>4. QED BY <2>1, <2>2, <2>3 DEF RequestsOK, Requests
<1>2. /\ carrier \in Users /\ plan \in Seq(Nat) /\ ValidPlan(plan)
      /\ n \in Nat /\ n >= 1 /\ n <= MaxInitialMilestones
  <2>1. price \in Nat
    BY InputAssumption
  <2>2. carrier \in Users /\ plan \in Seq(Nat) /\ ValidPlan(plan)
    BY <2>1, MinimumIsNat
  <2>3. QED BY <2>2, NumberAssumption DEF ValidPlan
<1>3. cap \in Nat
  <2>1. ProofReserve(1) \in Nat /\ ProofReserve(1) > 0
    BY ProofReserveIsNat
  <2>2. \A a, b \in Nat : a > 0 /\ b > 0 => a * b \in Nat /\ a * b > 0
    OBVIOUS
  <2>3. n * ProofReserve(1) \in Nat /\ n * ProofReserve(1) > 0
    <3> HIDE DEF n
    <3>1. QED BY <2>1, <2>2, <1>2
  <2>4. \A d \in Nat : d > 0 => allowance \div d \in Nat
    OBVIOUS
  <2>5. QED BY <2>3, <2>4
<1> HIDE DEF amount, carrier, plan, n, cap
<1>4. /\ new \in Requests /\ Solvent(new) /\ WasFunded(new) /\ new.status # "Open"
      /\ new.shipper = old.shipper /\ new.carrier = carrier
      /\ Pot(old) = 0 /\ Pot(new) = amount + allowance
  <2>1. new \in Requests
    BY <1>1, <1>2, <1>3 DEF Requests, RequestStatus
  <2>2. /\ new.shipper = old.shipper /\ new.carrier = carrier /\ new.status = "Funded"
        /\ new.totalAmount = amount /\ new.operationalAllowance = allowance
        /\ new.releasedAmount = old.releasedAmount /\ new.refundedAmount = old.refundedAmount
        /\ new.operationalSpent = old.operationalSpent
    BY <1>1 DEF Requests
  <2> HIDE DEF new
  <2>3. QED
    BY <2>1, <2>2, <1>1, <1>2 DEF Unfunded, Solvent, WasFunded, Pot, EscrowOf, OperationalOf
<1>5. /\ requests' \in [RequestIds -> Requests]
      /\ requests'[r] = new
      /\ \A q \in RequestIds : q # r => requests'[q] = requests[q]
  <2>1. requests' = [requests EXCEPT ![r] = new]
    BY <1>1 DEF ApproveAndFund, amount, carrier, plan, n, cap
  <2> HIDE DEF new
  <2>2. QED BY <2>1, <1>1, <1>4
<1> HIDE DEF new
<1>6. ClockOK'
  BY ClockStays DEF ApproveAndFund
<1>7. WorkOK'
  <2>1. ASSUME NEW m \in MilestoneIds PROVE ms[m] \in Milestones
    <3>1. CASE m \in 0 .. n - 1
      <4>1. m + 1 \in 1 .. n
        BY <3>1, <1>2
      <4>2. PayoutAmount(amount, plan, m + 1) \in Nat
        BY <4>1, <1>1, <1>2, PayoutIsNat DEF n, amount
      <4>3. NoMilestone \in Milestones
        BY DEF NoMilestone, Milestones, MilestoneStatus
      <4>4. QED BY <3>1, <4>2, <4>3 DEF Milestones, MilestoneStatus
    <3>2. CASE m \notin 0 .. n - 1
      BY <3>2 DEF WorkOK
    <3>3. QED BY <3>1, <3>2
  <2>2. ms \in [MilestoneIds -> Milestones]
    BY <2>1
  <2>3. order \in Seq(MilestoneIds) /\ Len(order) = n
    <3>1. \A i \in 1 .. n : i - 1 \in MilestoneIds
      BY <1>2, NumberAssumption DEF MilestoneIds
    <3>2. QED BY <3>1, <1>2
  <2>4. \A m \in MilestoneIds : m < n => \E i \in DOMAIN order : order[i] = m
    <3>1. ASSUME NEW m \in MilestoneIds, m < n PROVE m + 1 \in 1 .. n /\ order[m + 1] = m
      BY <3>1, <1>2, NumberAssumption DEF MilestoneIds
    <3>2. QED BY <3>1
  <2>5. /\ milestones' = [milestones EXCEPT ![r] = ms]
        /\ executionOrder' = [executionOrder EXCEPT ![r] = order]
        /\ nextMilestoneId' = [nextMilestoneId EXCEPT ![r] = n]
    <3>1. 0 + n - 1 = n - 1 /\ 0 + n = n
      BY <1>2
    <3>2. \A m \in MilestoneIds : m - 0 + 1 = m + 1
      BY DEF MilestoneIds
    <3>3. \A i \in 1 .. n : 0 + i - 1 = i - 1
      OBVIOUS
    <3>4. milestones' = [milestones EXCEPT ![r] = ms]
      BY <1>1, <3>1, <3>2 DEF ApproveAndFund, amount, plan, n
    <3>5. executionOrder' = [executionOrder EXCEPT ![r] = order]
      BY <1>1, <3>3 DEF ApproveAndFund, plan, n
    <3>6. nextMilestoneId' = [nextMilestoneId EXCEPT ![r] = n]
      BY <1>1, <3>1 DEF ApproveAndFund, plan, n
    <3>7. QED BY <3>4, <3>5, <3>6
  <2>6. milestoneStateVersion' \in [RequestIds -> Nat]
    BY DEF ApproveAndFund, WorkOK
  <2> HIDE DEF ms, order
  <2>7. QED BY <2>2, <2>3, <2>4, <2>5, <2>6, <1>2, OrderChanges
<1>8. RequestsOK'
  <2>1. /\ nextRequestId' = nextRequestId /\ nextRequestId \in Nat
        /\ \A q \in RequestIds : q # r => nextMilestoneId'[q] = nextMilestoneId[q]
    <3>1. nextMilestoneId \in [RequestIds -> Nat]
      BY DEF WorkOK
    <3>2. \E k : nextMilestoneId' = [nextMilestoneId EXCEPT ![r] = k]
      BY DEF ApproveAndFund
    <3>3. nextRequestId' = nextRequestId /\ nextRequestId \in Nat
      <4>1. nextRequestId \in 1 .. MaxRequests + 1
        BY DEF MarketOK
      <4>2. nextRequestId' = nextRequestId
        BY DEF ApproveAndFund
      <4>3. QED BY <4>1, <4>2
    <3>4. QED BY <3>1, <3>2, <3>3
  <2>2. QED BY <2>1, <1>1, <1>2, <1>4, <1>5, FundedRequestChanges
<1>9. PoolOK'
  <2>1. /\ EnterEscrow(old.shipper, amount + allowance, TRUE)
        /\ cargo' = Transfer(cargo, old.shipper, Escrow, amount + allowance)
        /\ cargo[old.shipper] >= amount + allowance
    BY DEF ApproveAndFund, amount
  <2>2. amount + allowance \in Nat /\ Pot(requests'[r]) = Pot(old) + (amount + allowance)
    BY <1>1, <1>4, <1>5 DEF amount
  <2>3. old.shipper \in Accounts \ {Escrow}
    BY <1>1, UsersHoldApart
  <2>4. cargo[old.shipper] \in Nat
    BY <2>3 DEF PoolOK
  <2> DEFINE put == amount + allowance
  <2> HIDE DEF put
  <2>5. /\ put \in Nat /\ Pot(requests'[r]) = Pot(requests[r]) + put
        /\ EnterEscrow(requests[r].shipper, put, TRUE)
        /\ cargo' = Transfer(cargo, old.shipper, Escrow, put) /\ put <= cargo[old.shipper]
    BY <2>1, <2>2, <2>4 DEF put
  <2>6. QED BY <2>3, <2>5, <1>1, <1>4, <1>5, PotGrows
<1>10. MarketOK'
  <2>1. /\ openRequestIds' \in Seq(RequestIds)
        /\ openRequestIndexPlusOne' \in [RequestIds -> Nat]
        /\ OpenListOK'
    <3>1. RemoveOpenRequestId(r) /\ nextRequestId' = nextRequestId
      BY DEF ApproveAndFund
    <3>2. QED BY <3>1, <1>1, <1>4, <1>5, RemoveKeepsOpenList
  <2>2. /\ proposals' \in [RequestIds -> Seq(Proposals)]
        /\ activeProposal' \in [RequestIds -> [Users -> Nat]]
        /\ PlansOK'
    <3>1. CloseProposal(r, p, "Accepted")
      BY DEF ApproveAndFund
    <3>2. QED BY <3>1, CloseProposalKeepsPlans DEF ProposalStatus
  <2>3. acceptedProposal' \in [RequestIds -> Nat]
    <3>1. p \in Nat
      BY DEF MarketOK
    <3>2. QED BY <3>1 DEF ApproveAndFund, MarketOK
  <2>4. nextRequestId' \in 1 .. MaxRequests + 1
    BY DEF ApproveAndFund, MarketOK
  <2>5. QED BY <2>1, <2>2, <2>3, <2>4 DEF MarketOK
<1>11. QED BY <1>6, <1>7, <1>8, <1>9, <1>10

-----------------------------------------------------------------------------
(* Proofs and reviews.                                                      *)

(* A milestone gets a new record; the order stays.                          *)
LEMMA MilestoneChanges ==
  ASSUME WorkOK, NEW r \in RequestIds,
         NEW ms \in [MilestoneIds -> Milestones], milestones' = [milestones EXCEPT ![r] = ms],
         UNCHANGED <<nextMilestoneId, executionOrder>>, MarkMilestoneStateChanged(r)
  PROVE  WorkOK'
<1>1. milestones' \in [RequestIds -> [MilestoneIds -> Milestones]]
  BY DEF WorkOK
<1>2. milestoneStateVersion' \in [RequestIds -> Nat]
  BY DEF WorkOK, MarkMilestoneStateChanged
<1>3. ExecutionOrderIsComplete'
  BY DEF WorkOK, ExecutionOrderIsComplete, MilestonesOf, MilestoneExists
<1>4. QED BY <1>1, <1>2, <1>3 DEF WorkOK

(* An existing request that is in progress, or that still has escrow, was   *)
(* funded.                                                                  *)
LEMMA FundedFacts ==
  ASSUME IInv, NEW r \in RequestIds, RequestExists(r), Active(r) \/ EscrowBalance(r) > 0
  PROVE  /\ requests[r] \in Requests /\ Solvent(requests[r]) /\ WasFunded(requests[r])
         /\ requests[r].shipper \in Users /\ requests[r].carrier \in Users
         /\ r < nextRequestId /\ nextRequestId \in Nat
<1> USE DEF IInv
<1>1. requests[r] \in Requests /\ Solvent(requests[r]) /\ r < nextRequestId
  BY DEF RequestsOK, RequestExists
<1>2. WasFunded(requests[r])
  <2>1. CASE Active(r)
    BY <2>1 DEF Active, WasFunded
  <2>2. CASE EscrowBalance(r) > 0
    <3>1. Unfunded(requests[r]) => EscrowBalance(r) = 0
      BY DEF Unfunded, EscrowBalance, EscrowOf
    <3>2. QED BY <2>2, <3>1 DEF RequestsOK
  <2>3. QED BY <2>1, <2>2
<1>3. requests[r].shipper \in Users /\ requests[r].carrier \in Users
  BY <1>1, <1>2 DEF RequestsOK
<1>4. nextRequestId \in Nat
  <2>1. nextRequestId \in 1 .. MaxRequests + 1
    BY DEF MarketOK
  <2>2. QED BY <2>1
<1>5. QED BY <1>1, <1>2, <1>3, <1>4

LEMMA SmallerIsNat ==
  ASSUME NEW a \in Nat, NEW b \in Nat
  PROVE  Smaller(a, b) \in Nat /\ Smaller(a, b) <= a /\ Smaller(a, b) <= b
BY DEF Smaller

LEMMA RemainingIsNat ==
  ASSUME WorkOK, NEW r \in RequestIds, NEW ms
  PROVE  RemainingProofActions(executionOrder[r], ms) \in Nat
<1> DEFINE order == executionOrder[r]
           open == {i \in DOMAIN order : /\ ~ms[order[i]].proofSubmissionReimbursed
                                         /\ ms[order[i]].status # "Paid"}
<1>1. order \in Seq(MilestoneIds)
  BY DEF WorkOK
<1>2. DOMAIN order = 1 .. Len(order) /\ Len(order) \in Nat
  BY <1>1
<1>3. IsFiniteSet(DOMAIN order)
  BY <1>2, FS_Interval
<1>4. open \in SUBSET DOMAIN order
  OBVIOUS
<1>5. IsFiniteSet(open) /\ Cardinality(open) \in Nat
  <2> HIDE DEF open
  <2>1. IsFiniteSet(open)
    BY <1>3, <1>4, FS_Subset
  <2>2. QED BY <2>1, FS_CardinalityType
<1>6. QED BY <1>5 DEF RemainingProofActions

(* A reimbursement never takes more than the reserve has left.              *)
LEMMA ReimbursementIsNat ==
  ASSUME IInv, NEW r \in RequestIds, NEW ms, NEW gas \in Nat, NEW price \in Nat
  PROVE  /\ Reimbursement(r, ms, gas, price) \in Nat
         /\ Reimbursement(r, ms, gas, price) <= OperationalRemaining(r)
<1> USE DEF IInv
<1> DEFINE cap == requests[r].gasPriceCap
           calculated == CoveredGas(gas) * Smaller(price, cap) * CargoPerEth
           actions == RemainingProofActions(executionOrder[r], ms)
           future == actions * ProofReserve(cap)
           spendable == IF OperationalRemaining(r) > future
                        THEN OperationalRemaining(r) - future ELSE 0
<1>1. cap \in Nat /\ OperationalRemaining(r) \in Nat
  BY PotOfSolvent DEF RequestsOK, Requests, OperationalRemaining
<1>2. \A a, b \in Nat : a * b \in Nat
  OBVIOUS
<1>3. calculated \in Nat
  <2>1. gas + ReimbursementOverhead \in Nat /\ ProofGasUnitCap \in Nat /\ CargoPerEth \in Nat
    BY NumberAssumption
  <2>2. CoveredGas(gas) \in Nat
    BY <2>1, SmallerIsNat DEF CoveredGas
  <2>3. Smaller(price, cap) \in Nat
    BY <1>1, SmallerIsNat
  <2>4. CoveredGas(gas) * Smaller(price, cap) \in Nat
    BY <2>2, <2>3, <1>2
  <2>5. QED BY <2>1, <2>4, <1>2
<1>4. future \in Nat
  <2>1. actions \in Nat
    BY RemainingIsNat
  <2>2. ProofReserve(cap) \in Nat
    BY <1>1, ProofReserveIsNat
  <2> HIDE DEF actions
  <2>3. QED BY <2>1, <2>2, <1>2
<1> HIDE DEF calculated, future
<1>5. spendable \in Nat /\ spendable <= OperationalRemaining(r)
  BY <1>1, <1>4
<1>6. Reimbursement(r, ms, gas, price)
        = Smaller(Smaller(calculated, MaxProofReimbursement), spendable)
  BY DEF Reimbursement, calculated, future
<1> HIDE DEF spendable
<1>7. Smaller(calculated, MaxProofReimbursement) \in Nat
  BY <1>3, NumberAssumption, SmallerIsNat
<1>8. QED BY <1>1, <1>5, <1>6, <1>7, SmallerIsNat

LEMMA SubmittedIsMilestone ==
  ASSUME NEW milestone \in Milestones, NEW uri \in ProofUris
  PROVE  Submitted(milestone, uri) \in Milestones
<1> DEFINE corrects == milestone.status = "Rejected"
           number == milestone.proofSubmissionNumber + 1
<1>1. corrects \in BOOLEAN /\ number \in Nat
  BY DEF Milestones
<1>2. Submitted(milestone, uri) =
        [milestone EXCEPT !.proofUri = uri, !.submittedAfterRejection = corrects,
                          !.proofSubmissionNumber = number, !.status = "Submitted",
                          !.proofSubmissionReimbursed = TRUE]
  BY DEF Submitted, Milestones
<1> HIDE DEF corrects, number
<1>3. QED BY <1>1, <1>2 DEF Milestones, MilestoneStatus

LEMMA WithdrawnIsMilestone ==
  ASSUME NEW milestone \in Milestones
  PROVE  Withdrawn(milestone) \in Milestones
<1> DEFINE back == IF milestone.submittedAfterRejection THEN "Rejected" ELSE "PendingProof"
           count == milestone.proofWithdrawalsThisRound + 1
<1>1. back \in MilestoneStatus /\ count \in Nat
  BY DEF Milestones, MilestoneStatus
<1>2. Withdrawn(milestone) =
        [milestone EXCEPT !.proofUri = NoProof, !.status = back,
                          !.submittedAfterRejection = FALSE, !.proofWithdrawalsThisRound = count]
  BY DEF Withdrawn, Milestones
<1> HIDE DEF back, count
<1>3. QED BY <1>1, <1>2 DEF Milestones

LEMMA SubmitProofOK ==
  ASSUME IInv, NEW r \in RequestIds, NEW m \in MilestoneIds, NEW uri \in ProofUris,
         NEW gas \in GasReadings, NEW price \in TxGasPrices, SubmitProof(r, m, uri, gas, price)
  PROVE  IInv'
<1> USE DEF IInv
<1> DEFINE old == requests[r]
           ms == [milestones[r] EXCEPT ![m] = Submitted(milestones[r][m], uri)]
           paid == IF milestones[r][m].proofSubmissionReimbursed THEN 0
                   ELSE Reimbursement(r, ms, gas, price)
           new == [old EXCEPT !.status = "InProgress", !.operationalSpent = @ + paid]
<1>1. /\ old \in Requests /\ requests \in [RequestIds -> Requests] /\ Solvent(old)
      /\ WasFunded(old) /\ old.status # "Open"
      /\ old.shipper \in Users /\ old.carrier \in Users /\ r < nextRequestId /\ nextRequestId \in Nat
  <2>1. RequestExists(r) /\ Active(r)
    BY DEF SubmitProof
  <2>2. QED BY <2>1, FundedFacts DEF RequestsOK, WasFunded
<1>2. paid \in Nat /\ paid <= OperationalRemaining(r)
  <2>1. gas \in Nat /\ price \in Nat
    BY InputAssumption
  <2>2. OperationalRemaining(r) \in Nat
    BY <1>1, PotOfSolvent DEF OperationalRemaining
  <2>3. /\ Reimbursement(r, ms, gas, price) \in Nat
        /\ Reimbursement(r, ms, gas, price) <= OperationalRemaining(r)
    <3> HIDE DEF ms
    <3>1. QED BY <2>1, ReimbursementIsNat
  <2> HIDE DEF ms
  <2>4. QED BY <2>2, <2>3
<1>3. ms \in [MilestoneIds -> Milestones]
  <2>1. milestones[r] \in [MilestoneIds -> Milestones]
    BY DEF WorkOK
  <2>2. Submitted(milestones[r][m], uri) \in Milestones
    BY <2>1, SubmittedIsMilestone
  <2>3. QED BY <2>1, <2>2
<1>4. /\ milestones' = [milestones EXCEPT ![r] = ms]
      /\ requests' = [requests EXCEPT ![r] = new]
      /\ LeaveEscrow(old.shipper, paid, FALSE)
      /\ cargo' = Transfer(cargo, Escrow, old.carrier, paid)
      /\ MarkMilestoneStateChanged(r)
      /\ UNCHANGED <<now, tipAmounts, marketVars, nextMilestoneId, executionOrder>>
  BY DEF SubmitProof
<1> HIDE DEF ms, paid
<1>5. /\ new \in Requests /\ Solvent(new) /\ WasFunded(new) /\ new.status # "Open"
      /\ new.shipper = old.shipper /\ new.carrier = old.carrier
      /\ Pot(new) = Pot(old) - paid
  <2>1. new \in Requests
    <3> DEFINE spent == old.operationalSpent + paid
    <3>1. spent \in Nat
      BY <1>1, <1>2 DEF Requests
    <3>2. new = [old EXCEPT !.status = "InProgress", !.operationalSpent = spent]
      BY <1>1 DEF Requests
    <3> HIDE DEF spent, new
    <3>3. QED BY <3>1, <3>2, <1>1 DEF Requests, RequestStatus
  <2>2. /\ new.shipper = old.shipper /\ new.carrier = old.carrier /\ new.status = "InProgress"
        /\ new.totalAmount = old.totalAmount /\ new.releasedAmount = old.releasedAmount
        /\ new.refundedAmount = old.refundedAmount
        /\ new.operationalAllowance = old.operationalAllowance
        /\ new.operationalSpent = old.operationalSpent + paid
    BY <1>1 DEF Requests
  <2> HIDE DEF new
  <2>3. Solvent(new)
    <3>1. paid <= old.operationalAllowance - old.operationalSpent
      BY <1>1, <1>2, PotOfSolvent DEF OperationalRemaining
    <3>2. QED BY <2>2, <3>1, <1>1, <1>2 DEF Solvent, Requests
  <2>4. Pot(new) = Pot(old) - paid
    <3>1. /\ EscrowOf(new) = EscrowOf(old) /\ EscrowOf(old) \in Nat
          /\ OperationalOf(new) = OperationalOf(old) - paid /\ OperationalOf(old) \in Nat
      BY <2>1, <2>2, <2>3, <1>1, <1>2, PotOfSolvent DEF Requests
    <3>2. QED BY <3>1, <1>2 DEF Pot
  <2>5. QED BY <2>1, <2>2, <2>3, <2>4 DEF WasFunded
<1>6. /\ requests' \in [RequestIds -> Requests]
      /\ requests'[r] = new
      /\ \A q \in RequestIds : q # r => requests'[q] = requests[q]
  <2> HIDE DEF new
  <2>1. QED BY <1>1, <1>4, <1>5
<1> HIDE DEF new
<1>7. ClockOK' /\ WorkOK'
  BY <1>3, <1>4, ClockStays, MilestoneChanges
<1>8. MarketOK'
  BY <1>1, <1>4, <1>5, <1>6, MarketStays
<1>9. RequestsOK'
  BY <1>1, <1>4, <1>5, <1>6, FundedRequestChanges DEF marketVars
<1>10. PoolOK'
  <2>1. /\ old.carrier \in Accounts /\ Escrow \in Accounts /\ Escrow # old.carrier
    BY <1>1, UsersHoldApart
  <2>2. paid <= cargo[Escrow] /\ cargo \in [Accounts -> Nat]
    <3>1. Pot(old) <= cargo[Escrow] /\ cargo[Escrow] \in Nat /\ cargo \in [Accounts -> Nat]
      BY <1>1, <2>1, PoolCoversPot DEF PoolOK
    <3>2. Pot(old) = EscrowOf(old) + OperationalOf(old) /\ EscrowOf(old) \in Nat
          /\ OperationalOf(old) \in Nat /\ OperationalRemaining(r) = OperationalOf(old)
      BY <1>1, PotOfSolvent DEF OperationalRemaining
    <3>3. QED BY <3>1, <3>2, <1>2
  <2>3. cargo' \in [Accounts -> Nat] /\ cargo'[Escrow] = cargo[Escrow] - paid
    BY <2>1, <2>2, <1>2, <1>4, TransferMoves
  <2>4. QED BY <2>3, <1>1, <1>2, <1>4, <1>5, <1>6, PotShrinks
<1>11. QED BY <1>7, <1>8, <1>9, <1>10

LEMMA WithdrawProofOK ==
  ASSUME IInv, NEW r \in RequestIds, NEW m \in MilestoneIds, WithdrawProof(r, m)
  PROVE  IInv'
<1> USE DEF IInv
<1> DEFINE ms == [milestones[r] EXCEPT ![m] = Withdrawn(milestones[r][m])]
<1>1. ms \in [MilestoneIds -> Milestones]
  <2>1. milestones[r] \in [MilestoneIds -> Milestones]
    BY DEF WorkOK
  <2>2. Withdrawn(milestones[r][m]) \in Milestones
    BY <2>1, WithdrawnIsMilestone
  <2>3. QED BY <2>1, <2>2
<1>2. milestones' = [milestones EXCEPT ![r] = ms]
  BY DEF WithdrawProof
<1> HIDE DEF ms
<1>3. /\ UNCHANGED <<now, requests, tipAmounts, marketVars, moneyVars,
                     nextMilestoneId, executionOrder>>
      /\ MarkMilestoneStateChanged(r)
  BY DEF WithdrawProof
<1>4. ClockOK' /\ WorkOK'
  BY <1>1, <1>2, <1>3, ClockStays, MilestoneChanges
<1>5. MarketOK' /\ RequestsOK' /\ PoolOK'
  BY <1>3, MarketStays, RequestsStay, PoolStays DEF marketVars
<1>6. QED BY <1>4, <1>5

LEMMA RejectMilestoneOK ==
  ASSUME IInv, NEW r \in RequestIds, NEW m \in MilestoneIds, NEW n, RejectMilestone(r, m, n)
  PROVE  IInv'
<1> USE DEF IInv
<1> DEFINE rejected == [milestones[r][m] EXCEPT !.status = "Rejected",
                                                !.proofWithdrawalsThisRound = 0,
                                                !.submittedAfterRejection = FALSE]
           ms == [milestones[r] EXCEPT ![m] = rejected]
<1>1. ms \in [MilestoneIds -> Milestones]
  <2>1. milestones[r] \in [MilestoneIds -> Milestones]
    BY DEF WorkOK
  <2>2. rejected \in Milestones
    BY <2>1 DEF Milestones, MilestoneStatus
  <2> HIDE DEF rejected
  <2>3. QED BY <2>1, <2>2
<1>2. milestones' = [milestones EXCEPT ![r] = ms]
  BY DEF RejectMilestone
<1> HIDE DEF ms
<1>3. /\ UNCHANGED <<now, requests, tipAmounts, marketVars, moneyVars,
                     nextMilestoneId, executionOrder>>
      /\ MarkMilestoneStateChanged(r)
  BY DEF RejectMilestone
<1>4. ClockOK' /\ WorkOK'
  BY <1>1, <1>2, <1>3, ClockStays, MilestoneChanges
<1>5. MarketOK' /\ RequestsOK' /\ PoolOK'
  BY <1>3, MarketStays, RequestsStay, PoolStays DEF marketVars
<1>6. QED BY <1>4, <1>5

LEMMA ApproveMilestoneOK ==
  ASSUME IInv, NEW r \in RequestIds, NEW m \in MilestoneIds, NEW n, ApproveMilestone(r, m, n)
  PROVE  IInv'
<1> USE DEF IInv
<1> DEFINE old == requests[r]
           amount == milestones[r][m].payoutAmount + milestones[r][m].additionalPayoutAmount
           ms == [milestones[r] EXCEPT ![m].status = "Paid"]
           completed == AllPaid(executionOrder[r], ms)
           returned == IF completed THEN OperationalRemaining(r) ELSE 0
           new == [old EXCEPT !.releasedAmount = @ + amount,
                              !.status = IF completed THEN "Completed" ELSE @,
                              !.operationalSpent = @ + returned]
           settled == EscrowBalance(r) = amount
<1>1. /\ amount \in Nat /\ amount > 0 /\ EscrowBalance(r) >= amount
      /\ ms \in [MilestoneIds -> Milestones]
  <2>1. milestones[r] \in [MilestoneIds -> Milestones]
    BY DEF WorkOK
  <2>2. amount \in Nat
    BY <2>1 DEF Milestones
  <2>3. ms \in [MilestoneIds -> Milestones]
    <3>1. [milestones[r][m] EXCEPT !.status = "Paid"] \in Milestones
      BY <2>1 DEF Milestones, MilestoneStatus
    <3>2. ms = [milestones[r] EXCEPT ![m] = [milestones[r][m] EXCEPT !.status = "Paid"]]
      OBVIOUS
    <3>3. QED BY <2>1, <3>1, <3>2
  <2>4. QED BY <2>2, <2>3 DEF ApproveMilestone
<1>2. /\ old \in Requests /\ requests \in [RequestIds -> Requests] /\ Solvent(old)
      /\ WasFunded(old) /\ old.status # "Open"
      /\ old.shipper \in Users /\ old.carrier \in Users /\ r < nextRequestId /\ nextRequestId \in Nat
  <2>1. RequestExists(r)
    BY DEF ApproveMilestone, MayReview
  <2>2. EscrowBalance(r) \in Nat
    BY PotOfSolvent DEF RequestsOK, EscrowBalance
  <2>3. EscrowBalance(r) > 0
    <3> HIDE DEF amount
    <3>1. QED BY <1>1, <2>2
  <2>4. QED BY <2>1, <2>3, FundedFacts DEF RequestsOK, WasFunded
<1>3. /\ milestones' = [milestones EXCEPT ![r] = ms]
      /\ requests' = [requests EXCEPT ![r] = new]
      /\ LeaveEscrow(old.shipper, amount + returned, settled)
      /\ cargo' = Transfer(Transfer(cargo, Escrow, old.carrier, amount),
                           Escrow, old.shipper, returned)
      /\ MarkMilestoneStateChanged(r)
      /\ UNCHANGED <<now, tipAmounts, marketVars, nextMilestoneId, executionOrder>>
  BY DEF ApproveMilestone
<1>4. returned \in Nat /\ returned <= OperationalRemaining(r) /\ OperationalRemaining(r) \in Nat
      /\ settled \in BOOLEAN
  <2>1. OperationalRemaining(r) \in Nat
    BY <1>2, PotOfSolvent DEF OperationalRemaining
  <2>2. QED BY <2>1
<1> HIDE DEF ms, amount, completed, returned, settled
<1>5. /\ new \in Requests /\ Solvent(new) /\ WasFunded(new) /\ new.status # "Open"
      /\ new.shipper = old.shipper /\ new.carrier = old.carrier
      /\ Pot(new) = Pot(old) - (amount + returned)
      /\ amount + returned <= Pot(old)
  <2>1. new \in Requests
    <3> DEFINE released == old.releasedAmount + amount
               spent == old.operationalSpent + returned
               status == IF completed THEN "Completed" ELSE old.status
    <3>1. released \in Nat /\ spent \in Nat /\ status \in RequestStatus
      BY <1>1, <1>2, <1>4 DEF Requests, RequestStatus
    <3>2. new = [old EXCEPT !.releasedAmount = released, !.status = status,
                            !.operationalSpent = spent]
      BY <1>2 DEF Requests
    <3> HIDE DEF released, spent, status, new
    <3>3. QED BY <3>1, <3>2, <1>2 DEF Requests
  <2>2. /\ new.shipper = old.shipper /\ new.carrier = old.carrier
        /\ new.status \in {"Completed", old.status}
        /\ new.totalAmount = old.totalAmount /\ new.releasedAmount = old.releasedAmount + amount
        /\ new.refundedAmount = old.refundedAmount
        /\ new.operationalAllowance = old.operationalAllowance
        /\ new.operationalSpent = old.operationalSpent + returned
    BY <1>2 DEF Requests
  <2> HIDE DEF new
  <2>3. /\ amount <= EscrowOf(old) /\ returned <= OperationalOf(old)
        /\ EscrowOf(old) = old.totalAmount - old.releasedAmount - old.refundedAmount
        /\ OperationalOf(old) = old.operationalAllowance - old.operationalSpent
        /\ EscrowOf(old) \in Nat /\ OperationalOf(old) \in Nat
        /\ Pot(old) = EscrowOf(old) + OperationalOf(old)
    BY <1>1, <1>2, <1>4, PotOfSolvent DEF OperationalRemaining, EscrowBalance
  <2>4. Solvent(new)
    BY <2>2, <2>3, <1>1, <1>2, <1>4 DEF Solvent, Requests
  <2>5. Pot(new) = Pot(old) - (amount + returned)
    <3>1. EscrowOf(new) = EscrowOf(old) - amount /\ OperationalOf(new) = OperationalOf(old) - returned
      BY <2>1, <2>2, <2>3, <2>4, <1>1, <1>2, <1>4, PotOfSolvent DEF Requests
    <3>2. QED BY <3>1, <2>3, <1>1, <1>4 DEF Pot
  <2>6. WasFunded(new) /\ new.status # "Open"
    BY <2>2, <1>2 DEF WasFunded
  <2>7. amount + returned <= Pot(old)
    BY <2>3, <1>1, <1>4
  <2>8. QED BY <2>1, <2>2, <2>4, <2>5, <2>6, <2>7
<1>6. /\ requests' \in [RequestIds -> Requests]
      /\ requests'[r] = new
      /\ \A q \in RequestIds : q # r => requests'[q] = requests[q]
  <2> HIDE DEF new
  <2>1. QED BY <1>2, <1>3, <1>5
<1> HIDE DEF new
<1>7. ClockOK' /\ WorkOK'
  BY <1>1, <1>3, ClockStays, MilestoneChanges
<1>8. MarketOK'
  BY <1>2, <1>3, <1>5, <1>6, MarketStays
<1>9. RequestsOK'
  BY <1>2, <1>3, <1>5, <1>6, FundedRequestChanges DEF marketVars
<1>10. PoolOK'
  <2> DEFINE out == amount + returned
             middle == Transfer(cargo, Escrow, old.carrier, amount)
  <2>1. /\ old.carrier \in Accounts /\ Escrow \in Accounts /\ Escrow # old.carrier
        /\ old.shipper \in Accounts /\ Escrow # old.shipper
    BY <1>2, UsersHoldApart
  <2>2. amount + returned <= cargo[Escrow] /\ cargo \in [Accounts -> Nat] /\ cargo[Escrow] \in Nat
    <3>1. Pot(old) <= cargo[Escrow] /\ cargo[Escrow] \in Nat /\ cargo \in [Accounts -> Nat]
      BY <1>2, <2>1, PoolCoversPot DEF PoolOK
    <3>2. Pot(old) \in Nat
      BY <1>2, PotOfSolvent
    <3>3. QED BY <3>1, <3>2, <1>1, <1>4, <1>5
  <2>3. middle \in [Accounts -> Nat] /\ middle[Escrow] = cargo[Escrow] - amount
    <3>1. amount <= cargo[Escrow]
      BY <2>2, <1>1, <1>4
    <3>2. QED BY <3>1, <2>1, <2>2, <1>1, TransferMoves
  <2> HIDE DEF middle
  <2>4. cargo' = Transfer(middle, Escrow, old.shipper, returned)
    BY <1>3 DEF middle
  <2>5. returned <= middle[Escrow]
    BY <2>2, <2>3, <1>1, <1>4
  <2>6. cargo' \in [Accounts -> Nat] /\ cargo'[Escrow] = middle[Escrow] - returned
    BY <2>1, <2>3, <2>4, <2>5, <1>4, TransferMoves
  <2>7. cargo'[Escrow] = cargo[Escrow] - out /\ out \in Nat
    BY <2>2, <2>3, <2>6, <1>1, <1>4
  <2>8. Pot(requests'[r]) = Pot(requests[r]) - out /\ LeaveEscrow(requests[r].shipper, out, settled)
    BY <1>3, <1>5, <1>6
  <2> HIDE DEF out
  <2>9. QED BY <2>6, <2>7, <2>8, <1>2, <1>4, <1>5, <1>6, PotShrinks
<1>11. QED BY <1>7, <1>8, <1>9, <1>10

-----------------------------------------------------------------------------
(* Settlement, tips and top-ups.                                            *)

LEMMA RefundOK ==
  ASSUME IInv, NEW r \in RequestIds, RequestExists(r), Refund(r)
  PROVE  IInv'
<1> USE DEF IInv
<1> DEFINE old == requests[r]
           remaining == EscrowBalance(r)
           operational == OperationalRemaining(r)
           new == [old EXCEPT !.refundedAmount = @ + remaining,
                              !.operationalSpent = @ + operational,
                              !.status = "Refunded"]
<1>1. remaining > 0
  BY DEF Refund
<1>2. /\ old \in Requests /\ requests \in [RequestIds -> Requests] /\ Solvent(old)
      /\ WasFunded(old) /\ old.status # "Open"
      /\ old.shipper \in Users /\ old.carrier \in Users /\ r < nextRequestId /\ nextRequestId \in Nat
  BY <1>1, FundedFacts DEF RequestsOK, WasFunded
<1>3. /\ requests' = [requests EXCEPT ![r] = new]
      /\ LeaveEscrow(old.shipper, remaining + operational, TRUE)
      /\ cargo' = Transfer(cargo, Escrow, old.shipper, remaining + operational)
      /\ UNCHANGED <<now, tipAmounts, marketVars, workVars>>
  BY DEF Refund
<1>4. /\ remaining = old.totalAmount - old.releasedAmount - old.refundedAmount
      /\ operational = old.operationalAllowance - old.operationalSpent
      /\ remaining \in Nat /\ operational \in Nat /\ Pot(old) = remaining + operational
  BY <1>2, PotOfSolvent DEF EscrowBalance, OperationalRemaining
<1> HIDE DEF remaining, operational
<1>5. /\ new \in Requests /\ Solvent(new) /\ WasFunded(new) /\ new.status # "Open"
      /\ new.shipper = old.shipper /\ new.carrier = old.carrier
      /\ Pot(new) = Pot(old) - (remaining + operational)
  <2>1. new \in Requests
    <3> DEFINE refunded == old.refundedAmount + remaining
               spent == old.operationalSpent + operational
    <3>1. refunded \in Nat /\ spent \in Nat
      BY <1>2, <1>4 DEF Requests
    <3>2. new = [old EXCEPT !.refundedAmount = refunded, !.operationalSpent = spent,
                            !.status = "Refunded"]
      BY <1>2 DEF Requests
    <3> HIDE DEF refunded, spent, new
    <3>3. QED BY <3>1, <3>2, <1>2 DEF Requests, RequestStatus
  <2>2. /\ new.shipper = old.shipper /\ new.carrier = old.carrier /\ new.status = "Refunded"
        /\ new.totalAmount = old.totalAmount /\ new.releasedAmount = old.releasedAmount
        /\ new.refundedAmount = old.refundedAmount + remaining
        /\ new.operationalAllowance = old.operationalAllowance
        /\ new.operationalSpent = old.operationalSpent + operational
    BY <1>2 DEF Requests
  <2> HIDE DEF new
  <2>3. Solvent(new)
    BY <2>2, <1>2, <1>4 DEF Solvent, Requests
  <2>4. Pot(new) = 0
    BY <2>1, <2>2, <2>3, <1>2, <1>4, PotOfSolvent DEF Requests
  <2>5. QED BY <2>1, <2>2, <2>3, <2>4, <1>4 DEF WasFunded
<1>6. /\ requests' \in [RequestIds -> Requests]
      /\ requests'[r] = new
      /\ \A q \in RequestIds : q # r => requests'[q] = requests[q]
  <2> HIDE DEF new
  <2>1. QED BY <1>2, <1>3, <1>5
<1> HIDE DEF new
<1>7. ClockOK' /\ WorkOK'
  BY <1>3, ClockStays, WorkStays
<1>8. MarketOK'
  BY <1>2, <1>3, <1>5, <1>6, MarketStays
<1>9. RequestsOK'
  BY <1>2, <1>3, <1>5, <1>6, FundedRequestChanges DEF marketVars, workVars
<1>10. PoolOK'
  <2> DEFINE out == remaining + operational
  <2>1. /\ old.shipper \in Accounts /\ Escrow \in Accounts /\ Escrow # old.shipper
    BY <1>2, UsersHoldApart
  <2>2. out <= cargo[Escrow] /\ cargo \in [Accounts -> Nat] /\ out \in Nat
    BY <1>2, <1>4, PoolCoversPot DEF PoolOK
  <2>3. /\ LeaveEscrow(requests[r].shipper, out, TRUE)
        /\ Pot(requests'[r]) = Pot(requests[r]) - out
        /\ cargo' = Transfer(cargo, Escrow, old.shipper, out)
    BY <1>3, <1>5, <1>6
  <2> HIDE DEF out
  <2>4. cargo' \in [Accounts -> Nat] /\ cargo'[Escrow] = cargo[Escrow] - out
    BY <2>1, <2>2, <2>3, TransferMoves
  <2>5. QED BY <2>2, <2>3, <2>4, <1>2, <1>5, <1>6, PotShrinks
<1>11. QED BY <1>7, <1>8, <1>9, <1>10

LEMMA TipCarrierOK ==
  ASSUME IInv, NEW r \in RequestIds, NEW amount \in FundingAmounts, TipCarrier(r, amount)
  PROVE  IInv'
<1> USE DEF IInv
<1>1. requests[r].status = "Completed" /\ RequestExists(r)
  BY DEF TipCarrier
<1>2. requests[r].shipper \in Users /\ requests[r].carrier \in Users
  BY <1>1 DEF RequestsOK, WasFunded, RequestExists
<1>3. amount \in Nat
  BY InputAssumption
<1>4. ClockOK'
  BY <1>3 DEF TipCarrier, ClockOK
<1>5. WorkOK' /\ MarketOK' /\ RequestsOK'
  BY WorkStays, MarketStays, RequestsStay DEF TipCarrier, marketVars, workVars
<1>6. PoolOK'
  <2> DEFINE from == requests[r].shipper
             to == requests[r].carrier
  <2>1. /\ from \in Accounts /\ to \in Accounts /\ Escrow \in Accounts
        /\ from # Escrow /\ to # Escrow
    BY <1>2, UsersHoldApart
  <2>2. cargo \in [Accounts -> Nat] /\ amount <= cargo[from]
    <3>1. cargo \in [Accounts -> Nat] /\ cargo[from] \in Nat
      BY <2>1 DEF PoolOK
    <3>2. cargo[from] >= amount
      BY DEF TipCarrier
    <3>3. QED BY <3>1, <3>2, <1>3
  <2>3. cargo' = Transfer(cargo, from, to, amount)
    BY DEF TipCarrier
  <2> HIDE DEF from, to
  <2>4. cargo' \in [Accounts -> Nat] /\ cargo'[Escrow] = cargo[Escrow]
    BY <2>1, <2>2, <2>3, <1>3 DEF Transfer
  <2>5. QED BY <2>4, PotsStay DEF TipCarrier
<1>7. QED BY <1>4, <1>5, <1>6

LEMMA TopUpOK ==
  ASSUME IInv, NEW r \in RequestIds, NEW amount \in FundingAmounts,
         TopUpOperationalAllowance(r, amount)
  PROVE  IInv'
<1> USE DEF IInv
<1> DEFINE old == requests[r]
           topped == [old EXCEPT !.operationalAllowance = @ + amount]
           actions == RemainingProofActions(executionOrder[r], milestones[r])
           cap == FundedCap(topped, actions)
           raised == actions > 0 /\ cap > topped.gasPriceCap
           new == IF raised THEN [topped EXCEPT !.gasPriceCap = cap] ELSE topped
<1>1. /\ old \in Requests /\ requests \in [RequestIds -> Requests] /\ Solvent(old)
      /\ WasFunded(old) /\ old.status # "Open"
      /\ old.shipper \in Users /\ old.carrier \in Users /\ r < nextRequestId /\ nextRequestId \in Nat
      /\ amount \in Nat
  <2>1. RequestExists(r) /\ Active(r)
    BY DEF TopUpOperationalAllowance
  <2>2. QED BY <2>1, FundedFacts, InputAssumption DEF RequestsOK, WasFunded
<1>2. /\ requests' = [requests EXCEPT ![r] = new]
      /\ cargo[old.shipper] >= amount
      /\ cargo' = Transfer(cargo, old.shipper, Escrow, amount)
      /\ EnterEscrow(old.shipper, amount, FALSE)
      /\ UNCHANGED <<now, tipAmounts, marketVars, milestones, nextMilestoneId, executionOrder>>
  BY DEF TopUpOperationalAllowance
<1>3. milestoneStateVersion' \in [RequestIds -> Nat]
  <2>1. MarkMilestoneStateChanged(r) \/ UNCHANGED milestoneStateVersion
    BY DEF TopUpOperationalAllowance
  <2>2. milestoneStateVersion \in [RequestIds -> Nat]
    BY DEF WorkOK
  <2>3. QED BY <2>1, <2>2 DEF MarkMilestoneStateChanged
<1>4. /\ topped \in Requests
      /\ topped.operationalAllowance = old.operationalAllowance + amount
      /\ topped.operationalSpent = old.operationalSpent
      /\ topped.totalAmount = old.totalAmount /\ topped.releasedAmount = old.releasedAmount
      /\ topped.refundedAmount = old.refundedAmount /\ topped.status = old.status
      /\ topped.shipper = old.shipper /\ topped.carrier = old.carrier
  BY <1>1 DEF Requests
<1> HIDE DEF topped
<1>5. actions > 0 => cap \in Nat
  <2>1. actions \in Nat
    BY RemainingIsNat
  <2>2. ProofReserve(1) \in Nat /\ ProofReserve(1) > 0
    BY ProofReserveIsNat
  <2>3. \A a, b \in Nat : a > 0 /\ b > 0 => a * b \in Nat /\ a * b > 0
    OBVIOUS
  <2> HIDE DEF actions
  <2>4. topped.operationalAllowance - topped.operationalSpent \in Nat
    BY <1>1, <1>4 DEF Requests, Solvent
  <2>5. \A d \in Nat, e \in Nat : d > 0 => e \div d \in Nat
    OBVIOUS
  <2>6. actions > 0 => actions * ProofReserve(1) \in Nat /\ actions * ProofReserve(1) > 0
    BY <2>1, <2>2, <2>3
  <2>7. QED BY <2>4, <2>5, <2>6 DEF FundedCap
<1> HIDE DEF cap, actions
<1>6. /\ new \in Requests /\ Solvent(new) /\ WasFunded(new) /\ new.status # "Open"
      /\ new.shipper = old.shipper /\ new.carrier = old.carrier
      /\ Pot(new) = Pot(old) + amount
  <2>1. new \in Requests
    BY <1>4, <1>5 DEF Requests
  <2>2. /\ new.operationalAllowance = old.operationalAllowance + amount
        /\ new.operationalSpent = old.operationalSpent
        /\ new.totalAmount = old.totalAmount /\ new.releasedAmount = old.releasedAmount
        /\ new.refundedAmount = old.refundedAmount /\ new.status = old.status
        /\ new.shipper = old.shipper /\ new.carrier = old.carrier
    BY <1>4 DEF Requests
  <2> HIDE DEF new
  <2>3. Solvent(new)
    BY <2>2, <1>1 DEF Solvent, Requests
  <2>4. Pot(new) = Pot(old) + amount
    BY <2>1, <2>2, <2>3, <1>1, PotOfSolvent DEF Requests
  <2>5. QED BY <2>1, <2>2, <2>3, <2>4, <1>1 DEF WasFunded
<1>7. /\ requests' \in [RequestIds -> Requests]
      /\ requests'[r] = new
      /\ \A q \in RequestIds : q # r => requests'[q] = requests[q]
  <2> HIDE DEF new
  <2>1. QED BY <1>1, <1>2, <1>6
<1> HIDE DEF new
<1>8. ClockOK'
  BY <1>2, ClockStays
<1>9. WorkOK'
  BY <1>2, <1>3 DEF WorkOK, ExecutionOrderIsComplete, MilestonesOf, MilestoneExists
<1>10. MarketOK'
  BY <1>1, <1>2, <1>6, <1>7, MarketStays
<1>11. RequestsOK'
  BY <1>1, <1>2, <1>6, <1>7, FundedRequestChanges DEF marketVars
<1>12. PoolOK'
  <2>1. old.shipper \in Accounts \ {Escrow}
    BY <1>1, UsersHoldApart
  <2>2. cargo[old.shipper] \in Nat
    BY <2>1 DEF PoolOK
  <2>3. amount <= cargo[old.shipper]
    BY <2>2, <1>1, <1>2
  <2>4. QED BY <2>1, <2>3, <1>1, <1>2, <1>6, <1>7, PotGrows
<1>13. QED BY <1>8, <1>9, <1>10, <1>11, <1>12

-----------------------------------------------------------------------------
(* Amendments.                                                              *)

LEMMA AmendmentInputs ==
  ASSUME NEW r \in RequestIds, NEW existing \in Fundings(r), NEW additions \in Additions(r)
  PROVE  /\ SumOver(existing) \in Nat
         /\ \A m \in DOMAIN existing : existing[m] \in Nat
         /\ existing \in [DOMAIN existing -> Nat]
         /\ additions \in Seq(Addition(r)) /\ Len(additions) \in Nat
         /\ \A j \in 1 .. Len(additions) : additions[j].amount \in Nat
         /\ AdditionTargets(additions) \in Seq(Int)
         /\ Len(AdditionTargets(additions)) = Len(additions)
         /\ SumOver(AdditionAmounts(additions)) \in Nat
<1>1. IsFiniteSet(DOMAIN existing) /\ existing \in [DOMAIN existing -> Nat]
  <2>1. CASE existing = <<>>
    BY <2>1, FS_EmptySet
  <2>2. CASE existing # <<>>
    <3>1. PICK m \in MilestoneIds : existing \in [{m} -> FundingAmounts]
      BY <2>2 DEF Fundings
    <3>2. DOMAIN existing = {m}
      BY <3>1
    <3>3. IsFiniteSet(DOMAIN existing)
      BY <3>2, FS_Singleton
    <3>4. FundingAmounts \subseteq Nat
      BY InputAssumption
    <3>5. existing \in [DOMAIN existing -> Nat]
      BY <3>1, <3>2, <3>4
    <3>6. QED BY <3>3, <3>5
  <2>3. QED BY <2>1, <2>2
<1>2. additions \in Seq(Addition(r)) /\ Len(additions) \in Nat
  <2>1. <<>> \in Seq(Addition(r))
    OBVIOUS
  <2>2. \A n \in Nat : [1 .. n -> Addition(r)] \subseteq Seq(Addition(r))
    OBVIOUS
  <2>3. additions \in Seq(Addition(r))
    BY <2>1, <2>2 DEF Additions
  <2>4. QED BY <2>3
<1>3. \A j \in 1 .. Len(additions) :
        additions[j].amount \in Nat /\ additions[j].insertBefore \in Int
  <2>1. \A a \in Addition(r) : a.amount \in Nat /\ a.insertBefore \in Int
    <3>1. FundingAmounts \subseteq Nat
      BY InputAssumption
    <3>2. {AppendMilestoneId} \cup {m \in MilestoneIds : m < nextMilestoneId[r]} \subseteq Int
      BY DEF AppendMilestoneId, MilestoneIds
    <3>3. QED BY <3>1, <3>2 DEF Addition
  <2>2. QED BY <1>2, <2>1
<1>4. /\ AdditionTargets(additions) = [j \in 1 .. Len(additions) |-> additions[j].insertBefore]
      /\ AdditionAmounts(additions) = [j \in 1 .. Len(additions) |-> additions[j].amount]
  BY <1>2 DEF AdditionTargets, AdditionAmounts
<1>5. AdditionTargets(additions) \in Seq(Int) /\ Len(AdditionTargets(additions)) = Len(additions)
  BY <1>2, <1>3, <1>4
<1>6. SumOver(AdditionAmounts(additions)) \in Nat
  <2>1. AdditionAmounts(additions) \in [1 .. Len(additions) -> Nat]
    BY <1>3, <1>4
  <2>2. IsFiniteSet(1 .. Len(additions))
    BY <1>2, FS_Interval
  <2>3. QED BY <2>1, <2>2, SumIsNat
<1>7. QED BY <1>1, <1>2, <1>3, <1>5, <1>6, SumIsNat

(* An amendment as the escrow sees it, whoever holds the CARGO it brings.   *)
Amends(r, newDeadline, existing, additions, operational) ==
  /\ ManagerValidated(r, existing, additions)
  /\ \E held : FinalizeAmendment(r, newDeadline, existing, additions, operational, held)

LEMMA ManagerAmendsIsAmends ==
  ASSUME NEW r, NEW newDeadline, NEW existing, NEW additions, NEW operational,
         ManagerAmends(r, newDeadline, existing, additions, operational)
  PROVE  Amends(r, newDeadline, existing, additions, operational)
BY DEF ManagerAmends, Amends

LEMMA AmendedWorkOK ==
  ASSUME IInv, NEW r \in RequestIds, NEW newDeadline \in Deadlines, NEW existing \in Fundings(r),
         NEW additions \in Additions(r), NEW operational \in Nat,
         Amends(r, newDeadline, existing, additions, operational)
  PROVE  WorkOK'
<1> DEFINE first == nextMilestoneId[r]
           n == Len(additions)
           order == executionOrder[r]
           targets == AdditionTargets(additions)
           new == WithInsertions(order, targets, first)
           ms == [m \in MilestoneIds |->
                    IF m \in first .. first + n - 1
                    THEN [NoMilestone EXCEPT !.status = "PendingProof",
                                             !.additionalPayoutAmount = additions[m - first + 1].amount]
                    ELSE IF m \in DOMAIN existing
                    THEN [milestones[r][m] EXCEPT !.additionalPayoutAmount = @ + existing[m]]
                    ELSE milestones[r][m]]
<1>1. /\ WorkOK /\ order \in Seq(MilestoneIds) /\ first \in Nat /\ Len(order) = first
      /\ \A m \in MilestoneIds : m < first => \E i \in DOMAIN order : order[i] = m
  BY DEF IInv, WorkOK, ExecutionOrderIsComplete, MilestonesOf, MilestoneExists
<1>2. /\ n \in Nat /\ targets \in Seq(Int) /\ Len(targets) = n
      /\ \A m \in DOMAIN existing : existing[m] \in Nat
      /\ \A j \in 1 .. n : additions[j].amount \in Nat
  BY AmendmentInputs
<1>3. first + n <= MaxTotalMilestones
  BY <1>1 DEF Amends, FinalizeAmendment
<1>4. \A j \in DOMAIN targets :
        targets[j] = AppendMilestoneId \/ \E i \in DOMAIN order : order[i] = targets[j]
  <2>1. DOMAIN targets = DOMAIN additions
    BY DEF AdditionTargets
  <2>2. ASSUME NEW j \in DOMAIN additions
        PROVE  targets[j] = AppendMilestoneId \/ MilestoneExists(r, targets[j])
    <3>1. targets[j] = additions[j].insertBefore
      BY DEF AdditionTargets
    <3> HIDE DEF targets
    <3>2. QED BY <3>1 DEF Amends, ManagerValidated
  <2> HIDE DEF targets
  <2>3. QED BY <2>1, <2>2, <1>1 DEF MilestoneExists
<1>5. /\ new \in Seq(MilestoneIds) /\ Len(new) = first + n
      /\ \A m \in first .. first + n - 1 : \E p \in DOMAIN new : new[p] = m
      /\ \A i \in DOMAIN order : \E p \in DOMAIN new : new[p] = order[i]
  <2> HIDE DEF targets, order, first, n
  <2>1. first + Len(targets) <= MaxTotalMilestones
    BY <1>2, <1>3
  <2>2. /\ new \in Seq(MilestoneIds) /\ Len(new) = Len(order) + Len(targets)
        /\ \A m \in first .. first + Len(targets) - 1 : \E p \in DOMAIN new : new[p] = m
        /\ \A i \in DOMAIN order : \E p \in DOMAIN new : new[p] = order[i]
    <3>1. order \in Seq(MilestoneIds) /\ targets \in Seq(Int) /\ first \in Nat
      BY <1>1, <1>2
    <3>2. \A j \in DOMAIN targets :
            targets[j] = AppendMilestoneId \/ \E i \in DOMAIN order : order[i] = targets[j]
      BY <1>4
    <3>3. QED BY ONLY <2>1, <3>1, <3>2, InsertionsKeepEverything DEF new
  <2> HIDE DEF new
  <2>3. QED BY <2>2, <1>1, <1>2
<1>6. ms \in [MilestoneIds -> Milestones]
  <2>1. ASSUME NEW m \in MilestoneIds PROVE ms[m] \in Milestones
    <3>1. milestones[r][m] \in Milestones
      BY <1>1 DEF WorkOK
    <3>2. CASE m \in first .. first + n - 1
      <4>1. m - first + 1 \in 1 .. n
        BY <3>2, <1>1, <1>2
      <4>2. additions[m - first + 1].amount \in Nat
        BY <4>1, <1>2
      <4>3. NoMilestone \in Milestones
        BY DEF NoMilestone, Milestones, MilestoneStatus
      <4>4. QED BY <3>2, <4>2, <4>3 DEF Milestones, MilestoneStatus
    <3>3. CASE m \notin first .. first + n - 1 /\ m \in DOMAIN existing
      <4>1. milestones[r][m].additionalPayoutAmount + existing[m] \in Nat
        BY <3>1, <3>3, <1>2 DEF Milestones
      <4>2. ms[m] = [milestones[r][m] EXCEPT
                       !.additionalPayoutAmount = milestones[r][m].additionalPayoutAmount + existing[m]]
        BY <3>1, <3>3 DEF Milestones
      <4>3. QED BY <3>1, <4>1, <4>2 DEF Milestones
    <3>4. CASE m \notin first .. first + n - 1 /\ m \notin DOMAIN existing
      BY <3>1, <3>4
    <3>5. QED BY <3>2, <3>3, <3>4
  <2>2. QED BY <2>1
<1>7. /\ milestones' = [milestones EXCEPT ![r] = ms]
      /\ executionOrder' = [executionOrder EXCEPT ![r] = new]
      /\ nextMilestoneId' = [nextMilestoneId EXCEPT ![r] = first + n]
      /\ MarkMilestoneStateChanged(r)
  BY DEF Amends, FinalizeAmendment
<1>8. milestoneStateVersion' \in [RequestIds -> Nat]
  <2>1. milestoneStateVersion \in [RequestIds -> Nat]
    BY <1>1 DEF WorkOK
  <2>2. MarkMilestoneStateChanged(r)
    BY <1>7
  <2>3. QED BY <2>1, <2>2 DEF MarkMilestoneStateChanged
<1>9. \A m \in MilestoneIds : m < first + n => \E p \in DOMAIN new : new[p] = m
  <2> HIDE DEF new
  <2>1. ASSUME NEW m \in MilestoneIds, m < first + n PROVE \E p \in DOMAIN new : new[p] = m
    <3>1. m \in Int
      BY DEF MilestoneIds
    <3>2. CASE m < first
      BY <3>2, <1>1, <1>5
    <3>3. CASE ~(m < first)
      <4>1. m \in first .. first + n - 1
        BY <2>1, <3>1, <3>3, <1>1, <1>2
      <4>2. QED BY <4>1, <1>5
    <3>4. QED BY <3>2, <3>3
  <2>2. QED BY <2>1
<1>10. first + n \in Nat /\ first + n = Len(new)
  BY <1>1, <1>2, <1>5
<1> HIDE DEF ms, new
<1>11. QED BY <1>1, <1>5, <1>6, <1>7, <1>8, <1>9, <1>10, OrderChanges

LEMMA AmendsOK ==
  ASSUME IInv, NEW r \in RequestIds, NEW newDeadline \in Deadlines, NEW existing \in Fundings(r),
         NEW additions \in Additions(r), NEW operational \in Nat,
         Amends(r, newDeadline, existing, additions, operational),
         cargo' \in [Accounts -> Nat],
         cargo'[Escrow] = cargo[Escrow] + (Allocated(existing, additions) + operational)
  PROVE  IInv'
<1> USE DEF IInv
<1> DEFINE old == requests[r]
           funding == Allocated(existing, additions)
           new == [old EXCEPT !.deadline = newDeadline,
                              !.totalAmount = old.totalAmount + funding,
                              !.operationalAllowance = old.operationalAllowance + operational]
<1>1. PICK held : FinalizeAmendment(r, newDeadline, existing, additions, operational, held)
  BY DEF Amends
<1>2. /\ old \in Requests /\ requests \in [RequestIds -> Requests] /\ Solvent(old)
      /\ WasFunded(old) /\ old.status # "Open"
      /\ old.shipper \in Users /\ old.carrier \in Users /\ r < nextRequestId /\ nextRequestId \in Nat
  <2>1. RequestExists(r) /\ Active(r)
    BY <1>1 DEF FinalizeAmendment
  <2>2. QED BY <2>1, FundedFacts DEF RequestsOK, WasFunded
<1>3. funding \in Nat /\ newDeadline \in Nat
  <2>1. SumOver(existing) \in Nat /\ SumOver(AdditionAmounts(additions)) \in Nat
    BY AmendmentInputs
  <2>2. newDeadline \in Nat
    BY InputAssumption
  <2>3. QED BY <2>1, <2>2 DEF Allocated
<1>4. /\ EnterEscrow(old.shipper, funding + operational, FALSE)
      /\ UNCHANGED <<now, tipAmounts, marketVars>>
      /\ \A q \in RequestIds : q # r => nextMilestoneId'[q] = nextMilestoneId[q]
  <2>1. nextMilestoneId \in [RequestIds -> Nat]
    BY DEF WorkOK
  <2>2. QED BY <1>1, <2>1 DEF FinalizeAmendment
<1>5. requests' = [requests EXCEPT ![r] = new]
  <2>1. requests' = [requests EXCEPT ![r].deadline = newDeadline,
                                     ![r].totalAmount = @ + funding,
                                     ![r].operationalAllowance = @ + operational]
    BY <1>1 DEF FinalizeAmendment
  <2> HIDE DEF funding
  <2>2. QED BY <2>1, <1>2 DEF Requests
<1> HIDE DEF funding
<1>6. /\ new \in Requests /\ Solvent(new) /\ WasFunded(new) /\ new.status # "Open"
      /\ new.shipper = old.shipper /\ new.carrier = old.carrier
      /\ Pot(new) = Pot(old) + (funding + operational)
  <2> DEFINE total == old.totalAmount + funding
             allowance == old.operationalAllowance + operational
  <2>1. new \in Requests
    <3>1. total \in Nat /\ allowance \in Nat
      BY <1>2, <1>3 DEF Requests
    <3>2. new = [old EXCEPT !.deadline = newDeadline, !.totalAmount = total,
                            !.operationalAllowance = allowance]
      BY DEF new
    <3> HIDE DEF total, allowance, new
    <3>3. QED BY <3>1, <3>2, <1>2, <1>3 DEF Requests
  <2>2. /\ new.shipper = old.shipper /\ new.carrier = old.carrier /\ new.status = old.status
        /\ new.totalAmount = old.totalAmount + funding
        /\ new.operationalAllowance = old.operationalAllowance + operational
        /\ new.releasedAmount = old.releasedAmount /\ new.refundedAmount = old.refundedAmount
        /\ new.operationalSpent = old.operationalSpent
    BY <1>2 DEF Requests
  <2> HIDE DEF new
  <2>3. Solvent(new)
    BY <2>2, <1>2, <1>3 DEF Solvent, Requests
  <2>4. Pot(new) = Pot(old) + (funding + operational)
    BY <2>1, <2>2, <2>3, <1>2, <1>3, PotOfSolvent DEF Requests
  <2>5. QED BY <2>1, <2>2, <2>3, <2>4, <1>2 DEF WasFunded
<1>7. /\ requests' \in [RequestIds -> Requests]
      /\ requests'[r] = new
      /\ \A q \in RequestIds : q # r => requests'[q] = requests[q]
  <2> HIDE DEF new
  <2>1. QED BY <1>2, <1>5, <1>6
<1> HIDE DEF new
<1>8. ClockOK'
  BY <1>4, ClockStays
<1>9. WorkOK'
  BY AmendedWorkOK
<1>10. MarketOK'
  BY <1>2, <1>4, <1>6, <1>7, MarketStays
<1>11. RequestsOK'
  BY <1>2, <1>4, <1>6, <1>7, FundedRequestChanges DEF marketVars
<1>12. PoolOK'
  <2> DEFINE paid == funding + operational
  <2>1. /\ EnterEscrow(requests[r].shipper, paid, FALSE)
        /\ Pot(requests'[r]) = Pot(requests[r]) + paid
    BY <1>4, <1>6, <1>7
  <2>2. cargo'[Escrow] = cargo[Escrow] + paid
    BY DEF funding
  <2>3. paid \in Nat
    BY <1>3
  <2> HIDE DEF paid
  <2>4. QED BY <2>1, <2>2, <2>3, <1>2, <1>6, <1>7, PotPaidIn
<1>13. QED BY <1>8, <1>9, <1>10, <1>11, <1>12

(* What an amendment brings is a number of CARGO.                           *)
LEMMA AllocatedIsNat ==
  ASSUME NEW r \in RequestIds, NEW existing \in Fundings(r), NEW additions \in Additions(r)
  PROVE  Allocated(existing, additions) \in Nat
<1>1. SumOver(existing) \in Nat /\ SumOver(AdditionAmounts(additions)) \in Nat
  BY AmendmentInputs
<1>2. QED BY <1>1 DEF Allocated

LEMMA ManagerAmendsOK ==
  ASSUME IInv, NEW r \in RequestIds, NEW newDeadline \in Deadlines, NEW existing \in Fundings(r),
         NEW additions \in Additions(r), NEW operational \in Nat,
         ManagerAmends(r, newDeadline, existing, additions, operational)
  PROVE  IInv'
<1> DEFINE paid == Allocated(existing, additions) + operational
<1>1. /\ Manager \in Accounts /\ Escrow \in Accounts /\ Manager # Escrow
      /\ cargo \in [Accounts -> Nat] /\ cargo[Manager] \in Nat /\ paid \in Nat
  <2>1. cargo \in [Accounts -> Nat]
    BY DEF IInv, PoolOK
  <2>2. Manager \in Accounts /\ Escrow \in Accounts /\ Manager # Escrow
    BY AccountAssumption DEF Accounts
  <2>3. QED BY <2>1, <2>2, AllocatedIsNat
<1>2. paid <= cargo[Manager] /\ cargo' = Transfer(cargo, Manager, Escrow, paid)
  BY <1>1 DEF ManagerAmends
<1> HIDE DEF paid
<1>3. cargo' \in [Accounts -> Nat] /\ cargo'[Escrow] = cargo[Escrow] + paid
  BY <1>1, <1>2, TransferMoves
<1>4. QED BY <1>3, ManagerAmendsIsAmends, AmendsOK DEF paid

-----------------------------------------------------------------------------
(* Every step keeps the invariant.                                          *)

LEMMA TickOK ==
  ASSUME IInv, Tick
  PROVE  IInv'
<1> USE DEF IInv
<1>1. UNCHANGED <<requests, tipAmounts, marketVars, moneyVars, workVars>> /\ now' = now + 1
  BY DEF Tick
<1>2. ClockOK'
  BY <1>1 DEF ClockOK
<1>3. WorkOK' /\ PoolOK'
  BY <1>1, WorkStays, PoolStays
<1>4. MarketOK' /\ RequestsOK'
  BY <1>1, MarketStays, RequestsStay DEF marketVars, workVars
<1>5. QED BY <1>2, <1>3, <1>4

LEMMA StutterOK ==
  ASSUME IInv, UNCHANGED vars
  PROVE  IInv'
<1> USE DEF IInv, vars
<1>1. ClockOK' /\ WorkOK' /\ PoolOK'
  BY ClockStays, WorkStays, PoolStays
<1>2. MarketOK' /\ RequestsOK'
  BY MarketStays, RequestsStay DEF marketVars, workVars
<1>3. QED BY <1>1, <1>2

LEMMA StepOK == IInv /\ [Next]_vars => IInv'
<1> SUFFICES ASSUME IInv, [Next]_vars PROVE IInv'
  OBVIOUS
<1>1. CASE UNCHANGED vars
  BY <1>1, StutterOK
<1>2. CASE Tick
  BY <1>2, TickOK
<1>3. ASSUME NEW u \in Users, NEW deadline \in Deadlines, NEW amount \in Amounts,
             CreateRequest(u, deadline, amount)
      PROVE  IInv'
  BY <1>3, CreateRequestOK
<1>4. ASSUME NEW r \in RequestIds, MarketStep(r) PROVE IInv'
  <2>1. ASSUME NEW u \in Users, NEW plan \in Plans, ProposeMilestones(u, r, plan) PROVE IInv'
    BY <2>1, ProposeMilestonesOK
  <2>2. ASSUME NEW u \in Users, RevokeMilestoneProposal(u, r) PROVE IInv'
    BY <2>2, RevokeMilestoneProposalOK
  <2>3. ASSUME NEW p \in 1 .. MaxProposals, RejectMilestoneProposal(r, p) PROVE IInv'
    BY <2>3, RejectMilestoneProposalOK
  <2>4. CASE CancelRequest(r)
    BY <2>4, CancelRequestOK
  <2>5. ASSUME NEW p \in DOMAIN proposals[r], NEW price \in ReferenceGasPrices,
               NEW extra \in ExtraAllowances,
               ApproveAndFund(r, p, price, MinimumOperationalAllowance(r, p, price) + extra)
        PROVE  IInv'
    <3>1. price \in Nat /\ extra \in Nat
      BY InputAssumption
    <3>2. MinimumOperationalAllowance(r, p, price) \in Nat
      BY <3>1, MinimumIsNat DEF IInv
    <3>3. MinimumOperationalAllowance(r, p, price) + extra \in Nat
      BY <3>1, <3>2
    <3>4. QED BY <2>5, <3>3, ApproveAndFundOK
  <2>6. QED BY <1>4, <2>1, <2>2, <2>3, <2>4, <2>5 DEF MarketStep
<1>5. ASSUME NEW r \in RequestIds, CarrierStep(r) PROVE IInv'
  <2>1. ASSUME NEW m \in MilestoneIds, NEW uri \in ProofUris, NEW gas \in GasReadings,
               NEW price \in TxGasPrices, SubmitProof(r, m, uri, gas, price)
        PROVE  IInv'
    BY <2>1, SubmitProofOK
  <2>2. ASSUME NEW m \in MilestoneIds, WithdrawProof(r, m) PROVE IInv'
    BY <2>2, WithdrawProofOK
  <2>3. QED BY <1>5, <2>1, <2>2 DEF CarrierStep
<1>6. ASSUME NEW r \in RequestIds, ReviewStep(r) PROVE IInv'
  <2>1. ASSUME NEW m \in MilestoneIds, NEW n \in 1 .. MaxVersion, RejectMilestone(r, m, n)
        PROVE  IInv'
    BY <2>1, RejectMilestoneOK
  <2>2. ASSUME NEW m \in MilestoneIds, NEW n \in 1 .. MaxVersion, ApproveMilestone(r, m, n)
        PROVE  IInv'
    BY <2>2, ApproveMilestoneOK
  <2>3. QED BY <1>6, <2>1, <2>2 DEF ReviewStep
<1>7. ASSUME NEW r \in RequestIds, SettlementStep(r) PROVE IInv'
  <2>1. CASE RefundRemaining(r)
    BY <2>1, RefundOK DEF RefundRemaining
  <2>2. ASSUME NEW amount \in FundingAmounts, TipCarrier(r, amount) PROVE IInv'
    BY <2>2, TipCarrierOK
  <2>3. ASSUME NEW amount \in FundingAmounts, TopUpOperationalAllowance(r, amount) PROVE IInv'
    BY <2>3, TopUpOK
  <2>4. QED BY <1>7, <2>1, <2>2, <2>3 DEF SettlementStep
<1>8. ASSUME NEW r \in RequestIds, ManagerStep(r) PROVE IInv'
  <2>1. CASE ManagerCancels(r)
    BY <2>1, RefundOK DEF ManagerCancels, FinalizeMutualCancellation
  <2>2. ASSUME NEW newDeadline \in Deadlines, NEW existing \in Fundings(r),
               NEW additions \in Additions(r),
               ManagerAmends(r, newDeadline, existing, additions,
                             Len(additions) * ProofReserve(requests[r].gasPriceCap))
        PROVE  IInv'
    <3>1. Len(additions) \in Nat
      BY AmendmentInputs
    <3>2. ProofReserve(requests[r].gasPriceCap) \in Nat
      <4>1. requests[r].gasPriceCap \in Nat
        BY DEF IInv, RequestsOK, Requests
      <4>2. QED BY <4>1, ProofReserveIsNat
    <3>3. \A a, b \in Nat : a * b \in Nat
      OBVIOUS
    <3>4. Len(additions) * ProofReserve(requests[r].gasPriceCap) \in Nat
      BY <3>1, <3>2, <3>3
    <3>5. QED BY <2>2, <3>4, ManagerAmendsOK
  <2>3. QED BY <1>8, <2>1, <2>2 DEF ManagerStep
<1>9. QED BY <1>1, <1>2, <1>3, <1>4, <1>5, <1>6, <1>7, <1>8 DEF Next

-----------------------------------------------------------------------------
(* The theorems.                                                            *)

(* The five parts together hold of every reachable state: each is needed to *)
(* show that some transaction keeps another one.                            *)
THEOREM IInvariant == Spec => []IInv
<1>1. QED BY InitOK, StepOK, PTL DEF Spec

(* Every variable keeps its type.  Amounts are natural numbers, so none of  *)
(* the contract's checked subtractions can revert and no ERC-20 transfer of *)
(* the escrow is short of CARGO: not in a payout, a reimbursement, a refund.*)
THEOREM TypeCorrect == Spec => []TypeOK
<1>1. IInv => TypeOK
  BY DEF IInv, ClockOK, MarketOK, RequestsOK, WorkOK, PoolOK, TypeOK, Proposals
<1>2. QED BY <1>1, IInvariant, PTL

(* The pooled CARGO is enough for all requests at once, and totalEscrowed   *)
(* is exactly what they have left, for any number of requests, users and    *)
(* amounts: no sequence of payouts for one request eats into another one's. *)
THEOREM EscrowAlwaysBacked == Spec => []EscrowIsBacked
<1>1. IInv => EscrowIsBacked
  BY DEF IInv, PoolOK
<1>2. QED BY <1>1, IInvariant, PTL

(* getLockedEscrow's totalLocked of a shipper is what the shipper's own     *)
(* requests have left in the contract.                                      *)
THEOREM LockedTotalsAlwaysMatch == Spec => []LockedTotalsMatch
<1>1. IInv => LockedTotalsMatch
  BY DEF IInv, PoolOK
<1>2. QED BY <1>1, IInvariant, PTL

(* Swap-and-pop removal, in whatever order requests are cancelled and       *)
(* funded, leaves getOpenRequests with exactly the open ones.               *)
THEOREM OpenListAlwaysMatches == Spec => []OpenListMatches
<1>1. IInv => OpenListMatches
  BY DEF IInv, MarketOK, OpenListOK
<1>2. QED BY <1>1, IInvariant, PTL

(* No amendment, however its additions fall among the existing milestones,  *)
(* loses a milestone from the execution order or lists one twice.           *)
THEOREM OrderAlwaysComplete == Spec => []ExecutionOrderIsComplete
<1>1. IInv => ExecutionOrderIsComplete
  BY DEF IInv, WorkOK
<1>2. QED BY <1>1, IInvariant, PTL

=============================================================================
