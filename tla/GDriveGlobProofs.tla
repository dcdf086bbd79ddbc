-------------------------- MODULE GDriveGlobProofs --------------------------
(***************************************************************************)
(* Proofs about GDriveGlob and the modules it extends: for every pattern   *)
(* and name the loop answers what the pattern means; every address means   *)
(* what its text says; and for every Drive and pattern Glob keeps its      *)
(* types and caches a path only for the one entry it leads to.             *)
(*                                                                         *)
(* A loop that the model writes as a recursive function is unrolled by a   *)
(* lemma of its own, named ...IsLoop: it has a value after each round, of  *)
(* the loop's type, and the round gives it from the one before.            *)
(***************************************************************************)
EXTENDS GDriveGlob, FiniteSetTheorems, SequenceTheorems, WellFoundedInduction, TLAPS

Chars == DOMAIN Code

LessOnNat == {p \in Nat \X Nat : p[1] < p[2]}

\* A set of natural numbers has a least one.
LEMMA LeastNatural ==
    ASSUME NEW S \in SUBSET Nat, S # {}
    PROVE  \E m \in S : \A n \in S : m <= n
<1>1. IsWellFoundedOn(LessOnNat, Nat)
  BY NatLessThanWellFounded DEF OpToRel, LessOnNat
<1>2. PICK m \in S : \A n \in S : <<n, m>> \notin LessOnNat  BY <1>1, WFMin
<1>3. \A n \in S : ~(n < m)
  <2> TAKE n \in S
  <2>1. n \in Nat /\ m \in Nat  OBVIOUS
  <2> QED  BY <1>2, <2>1 DEF LessOnNat
<1> QED  BY <1>3
-----------------------------------------------------------------------------
(***************************************************************************)
(* Classes.                                                                *)
(***************************************************************************)

\* One round of TryMatchClass, at i, where g has what it finds further on.
ClassRound(p, c, start, g, i) ==
    IF ~Has(p, i) THEN NoClass
    ELSE IF p[i] = "]" /\ i # start THEN [end |-> i + 1, found |-> FALSE]
    ELSE LET matched == IF IsRange(p, i) THEN Code[c] \in Code[p[i]]..Code[p[i + 2]]
                        ELSE p[i] = c
             rest == g[IF IsRange(p, i) THEN i + 3 ELSE i + 1] IN
         IF rest = NoClass THEN NoClass ELSE [rest EXCEPT !.found = @ \/ matched]
ClassLoop(p, c, start) ==
    CHOOSE g : g = [i \in 1..(Len(p) + 1) |-> ClassRound(p, c, start, g, i)]

LEMMA ClassIsLoop ==
    ASSUME NEW p, NEW c, NEW start
    PROVE  TryMatchClass(p, c, start) = ClassLoop(p, c, start)[start]
BY DEF TryMatchClass, ClassLoop, ClassRound

\* The loop ends: what it finds from each place on is well defined.
LEMMA ClassLoopExists ==
    ASSUME NEW p \in Seq(Chars), NEW c, NEW start
    PROVE  \E g : g = [i \in 1..(Len(p) + 1) |-> ClassRound(p, c, start, g, i)]
<1>1. PICK n : n = Len(p) /\ n \in Nat  BY LenProperties
<1> DEFINE Defined(k) ==
        \E g : g = [i \in (n + 2 - k)..(n + 1) |-> ClassRound(p, c, start, g, i)]
<1>2. Defined(0)
  <2>1. (n + 2 - 0)..(n + 1) = {}  BY <1>1
  <2>2. PICK g : g = [i \in {} |-> 0]  OBVIOUS
  <2>3. g = [i \in {} |-> ClassRound(p, c, start, g, i)]  BY <2>2
  <2> QED  BY <2>1, <2>3
<1>3. ASSUME NEW k \in 0..n, Defined(k) PROVE Defined(k + 1)
  <2>1. PICK lo : lo = n + 2 - k /\ lo \in 2..(n + 2) /\ n + 2 - (k + 1) = lo - 1  BY <1>1
  <2>2. PICK g : g = [i \in lo..(n + 1) |-> ClassRound(p, c, start, g, i)]  BY <1>3, <2>1
  <2>3. PICK h : h = [i \in (lo - 1)..(n + 1) |->
                        IF i >= lo THEN g[i] ELSE ClassRound(p, c, start, g, i)]
    OBVIOUS
  <2>4. ASSUME NEW i \in (lo - 1)..(n + 1)
        PROVE  h[i] = ClassRound(p, c, start, h, i)
    <3>1. h[i] = ClassRound(p, c, start, g, i)
      <4>1. CASE i >= lo
        <5>1. i \in lo..(n + 1)  BY <1>1, <2>1, <4>1
        <5> QED  BY <2>2, <2>3, <4>1, <5>1
      <4>2. CASE ~(i >= lo)  BY <2>3, <4>2
      <4> QED  BY <4>1, <4>2
    <3>2. Has(p, i) => h[i + 1] = g[i + 1]
      <4>1. Has(p, i) => i + 1 \in lo..(n + 1)  BY <1>1, <2>1 DEF Has
      <4> QED  BY <1>1, <2>1, <2>3, <4>1
    <3>3. IsRange(p, i) => h[i + 3] = g[i + 3]
      <4>1. IsRange(p, i) => i + 3 \in lo..(n + 1)  BY <1>1, <2>1 DEF Has, IsRange
      <4> QED  BY <1>1, <2>1, <2>3, <4>1
    <3>4. ClassRound(p, c, start, h, i) = ClassRound(p, c, start, g, i)
      <4>1. CASE ~Has(p, i)  BY <4>1 DEF ClassRound
      <4>2. CASE Has(p, i)  BY <3>2, <3>3, <4>2 DEF ClassRound
      <4> QED  BY <4>1, <4>2
    <3> QED  BY <3>1, <3>4
  <2>5. h = [i \in (lo - 1)..(n + 1) |-> ClassRound(p, c, start, h, i)]  BY <2>3, <2>4
  <2> QED  BY <2>1, <2>5
<1> HIDE DEF Defined
<1>4. \A k \in 0..(n + 1) : Defined(k)
  <2>1. SUFFICES ASSUME NEW k \in 0..(n + 1), ~Defined(k) PROVE FALSE  OBVIOUS
  <2>2. PICK S : S = {x \in Nat : x \in 0..(n + 1) /\ ~Defined(x)}  OBVIOUS
  <2>3. S \in SUBSET Nat /\ S # {}  BY <2>1, <2>2
  <2>4. PICK m \in S : \A x \in S : m <= x  BY <2>3, LeastNatural
  <2>5. m \in 1..(n + 1)  BY <1>1, <1>2, <2>2
  <2>6. m - 1 \in 0..n /\ m - 1 \in 0..(n + 1) /\ m - 1 \in Nat /\ m = (m - 1) + 1
        /\ ~(m <= m - 1)
    BY <1>1, <2>5
  <2>7. Defined(m - 1)  BY <2>2, <2>4, <2>6
  <2>8. Defined(m)  BY <1>3, <2>6, <2>7
  <2> QED  BY <2>2, <2>8
<1>5. Defined(n + 1)  BY <1>1, <1>4
<1>6. n + 2 - (n + 1) = 1  BY <1>1
<1> QED  BY <1>1, <1>5, <1>6 DEF Defined

\* So it may be unrolled anywhere.
LEMMA ClassUnrolls ==
    ASSUME NEW p \in Seq(Chars), NEW c, NEW start, NEW i \in 1..(Len(p) + 1)
    PROVE  ClassLoop(p, c, start)[i] = ClassRound(p, c, start, ClassLoop(p, c, start), i)
<1>1. PICK g : g = ClassLoop(p, c, start)  OBVIOUS
<1>2. g = [x \in 1..(Len(p) + 1) |-> ClassRound(p, c, start, g, x)]
  BY <1>1, ClassLoopExists DEF ClassLoop
<1>3. g[i] = ClassRound(p, c, start, g, i)  BY <1>2
<1> QED  BY <1>1, <1>3

\* What a class has from a member on: that one, and what it has after it.
LEMMA StartsFrom ==
    ASSUME NEW p \in Seq(Chars), NEW k \in Nat, NEW x \in Nat, x < k,
           NEW y \in Nat, y = MemberEnd(p, x) + 1, x < y, y <= k,
           \A z \in y..(k - 1) : MemberEnd(p, z) \in z..(k - 1)
    PROVE  Starts(p, x, k) = {x} \cup Starts(p, y, k)
<1> DEFINE Closed(S) == \A z \in S \ {k} : MemberEnd(p, z) + 1 \in S
<1>1. ASSUME NEW z \in Starts(p, x, k) PROVE z \in {x} \cup Starts(p, y, k)
  <2>1. SUFFICES ASSUME z # x PROVE z \in Starts(p, y, k)  OBVIOUS
  <2>2. PICK T : T = {x} \cup Starts(p, y, k) \cup {k}  OBVIOUS
  <2>3. T \in SUBSET (x..k)  BY <2>2 DEF Starts
  <2>4. y \in T
    <3>1. CASE y = k  BY <2>2, <3>1
    <3>2. CASE y # k
      <4>1. y \in y..(k - 1)  BY <3>2
      <4> QED  BY <2>2, <4>1 DEF Starts
    <3> QED  BY <3>1, <3>2
  <2>5. ASSUME NEW w \in T \ {k} PROVE MemberEnd(p, w) + 1 \in T
    <3>1. CASE w = x  BY <2>4, <3>1
    <3>2. CASE w # x
      <4>1. w \in Starts(p, y, k)  BY <2>2, <2>5, <3>2
      <4>2. w \in y..(k - 1)  BY <4>1 DEF Starts
      <4>3. PICK v : v = MemberEnd(p, w) + 1  OBVIOUS
      <4>4. v \in y..k  BY <4>2, <4>3
      <4>5. CASE v = k  BY <2>2, <4>3, <4>5
      <4>6. CASE v # k
        <5>1. v \in y..(k - 1)  BY <4>4, <4>6
        <5>2. ASSUME NEW S \in SUBSET (y..k), y \in S, Closed(S) PROVE v \in S
          <6>1. w \in S  BY <4>1, <5>2 DEF Starts
          <6>2. w # k  BY <4>2
          <6> QED  BY <4>3, <5>2, <6>1, <6>2
        <5>3. v \in Starts(p, y, k)  BY <5>1, <5>2 DEF Starts
        <5> QED  BY <2>2, <4>3, <5>3
      <4> QED  BY <4>5, <4>6
    <3> QED  BY <3>1, <3>2
  <2>6. z \in T
    <3>1. x \in T /\ Closed(T)  BY <2>2, <2>5
    <3> QED  BY <1>1, <2>3, <3>1 DEF Starts
  <2>7. z # k  BY <1>1 DEF Starts
  <2> QED  BY <2>1, <2>2, <2>6, <2>7
<1>2. x \in Starts(p, x, k)
  <2>1. x \in x..(k - 1)  OBVIOUS
  <2> QED  BY <2>1 DEF Starts
<1>3. ASSUME NEW z \in Starts(p, y, k) PROVE z \in Starts(p, x, k)
  <2>1. z \in y..(k - 1) /\ z \in x..(k - 1)  BY <1>3 DEF Starts
  <2>2. SUFFICES ASSUME NEW S \in SUBSET (x..k), x \in S, Closed(S) PROVE z \in S
    BY <2>1 DEF Starts
  <2>3. PICK T : T = S \cap (y..k)  OBVIOUS
  <2>4. y \in T
    <3>1. y \in S  BY <2>2
    <3> QED  BY <2>3, <3>1
  <2>5. ASSUME NEW w \in T \ {k} PROVE MemberEnd(p, w) + 1 \in T
    <3>1. w \in y..(k - 1) /\ w \in S  BY <2>3, <2>5
    <3>2. MemberEnd(p, w) + 1 \in S  BY <2>2, <2>5, <3>1
    <3>3. MemberEnd(p, w) + 1 \in y..k  BY <3>1
    <3> QED  BY <2>3, <3>2, <3>3
  <2>6. T \in SUBSET (y..k)  BY <2>3
  <2>7. z \in T  BY <1>3, <2>4, <2>5, <2>6 DEF Starts
  <2> QED  BY <2>3, <2>7
<1> QED  BY <1>1, <1>2, <1>3

\* A member of a class lies before its closing bracket.
LEMMA MemberWithin ==
    ASSUME NEW p \in Seq(Chars), NEW i \in 1..Len(p), NEW k, Closes(p, i, k),
           NEW x \in First(p, i)..(k - 1)
    PROVE  /\ MemberEnd(p, x) \in x..(k - 1)
           /\ x \in 1..Len(p) /\ k \in 1..Len(p) /\ k + 1 \in 1..(Len(p) + 1)
           /\ p[x] = "]" => x = First(p, i)
<1>1. PICK n, f : n = Len(p) /\ n \in Nat /\ f = First(p, i) /\ f \in Nat /\ i < f
  BY LenProperties DEF First
<1>2. /\ k \in (f + 1)..n /\ p[k] = "]" /\ \A j \in (f + 1)..(k - 1) : p[j] # "]"
  BY <1>1 DEF Closes
<1>3. x \in f..(k - 1) /\ x \in Nat /\ k \in Nat  BY <1>1, <1>2
<1>4. IsRange(p, x) => x + 2 \in x..(k - 1)
  <2>1. SUFFICES ASSUME IsRange(p, x) PROVE x + 2 \in x..(k - 1)  OBVIOUS
  <2>2. x + 1 # k /\ x + 2 # k  BY <1>2, <2>1 DEF IsRange
  <2> QED  BY <1>2, <1>3, <2>2
<1>5. MemberEnd(p, x) \in x..(k - 1)  BY <1>3, <1>4 DEF MemberEnd
<1>6. p[x] = "]" => x = f
  <2>1. x # f => x \in (f + 1)..(k - 1)  BY <1>1, <1>3
  <2> QED  BY <1>2, <2>1
<1> QED  BY <1>1, <1>2, <1>3, <1>5, <1>6

\* A class that closes is found to, with the members it has.
LEMMA ClassFound ==
    ASSUME NEW p \in Seq(Chars), NEW i \in 1..Len(p), NEW k, Closes(p, i, k), NEW c
    PROVE  \E b \in BOOLEAN :
             /\ TryMatchClass(p, c, First(p, i)) = [end |-> k + 1, found |-> b]
             /\ b <=> \E y \in Starts(p, First(p, i), k) :
                        IF IsRange(p, y) THEN Code[c] \in Code[p[y]]..Code[p[y + 2]]
                        ELSE p[y] = c
<1>1. PICK n, f : n = Len(p) /\ n \in Nat /\ f = First(p, i) /\ f \in Nat /\ i < f
  BY LenProperties DEF First
<1>2. k \in (f + 1)..n /\ p[k] = "]" /\ k \in Nat  BY <1>1 DEF Closes
<1>10. ASSUME NEW x \in f..(k - 1), NEW y, y = MemberEnd(p, x) + 1
      PROVE  Starts(p, x, k) = {x} \cup Starts(p, y, k)
  <2>1. x \in Nat /\ x < k /\ y \in Nat /\ x < y /\ y <= k
    <3>1. MemberEnd(p, x) \in x..(k - 1)  BY <1>1, MemberWithin
    <3> QED  BY <1>1, <1>2, <1>10, <3>1
  <2>2. \A z \in y..(k - 1) : MemberEnd(p, z) \in z..(k - 1)
    <3> TAKE z \in y..(k - 1)
    <3>1. z \in f..(k - 1)  BY <1>1, <1>2, <2>1
    <3> QED  BY <1>1, <3>1, MemberWithin
  <2> QED  BY <1>2, <1>10, <2>1, <2>2, StartsFrom
<1> DEFINE Matched(y) == IF IsRange(p, y) THEN Code[c] \in Code[p[y]]..Code[p[y + 2]]
                         ELSE p[y] = c
           Right(x, v) == \E b \in BOOLEAN :
                             /\ v = [end |-> k + 1, found |-> b]
                             /\ b <=> \E y \in Starts(p, x, k) : Matched(y)
<1>3. PICK g : g = ClassLoop(p, c, f)  OBVIOUS
<1>4. \A x \in 1..(n + 1) : g[x] = ClassRound(p, c, f, g, x)
  BY <1>1, <1>3, ClassUnrolls
<1>5. Right(k, g[k])
  <2>1. g[k] = [end |-> k + 1, found |-> FALSE]
    <3>1. Has(p, k) /\ k # f /\ k \in 1..(n + 1)  BY <1>1, <1>2 DEF Has
    <3> QED  BY <1>2, <1>4, <3>1 DEF ClassRound
  <2>2. Starts(p, k, k) = {}  BY <1>2 DEF Starts
  <2> QED  BY <2>1, <2>2
<1>6. ASSUME NEW x \in f..(k - 1), NEW y, y = MemberEnd(p, x) + 1, Right(y, g[y])
      PROVE  Right(x, g[x])
  <2>1. PICK b \in BOOLEAN : /\ g[y] = [end |-> k + 1, found |-> b]
                             /\ b <=> \E z \in Starts(p, y, k) : Matched(z)
    BY <1>6
  <2>2. x \in 1..n /\ x \in 1..(n + 1) /\ Has(p, x) /\ (p[x] = "]" => x = f)
    BY <1>1, <1>6, MemberWithin DEF Has
  <2>3. y = IF IsRange(p, x) THEN x + 3 ELSE x + 1
    BY <1>6, <2>2 DEF MemberEnd
  <2>4. g[y] # NoClass  BY <1>2, <2>1 DEF NoClass
  <2>5. g[x] = [g[y] EXCEPT !.found = @ \/ Matched(x)]
    BY <1>4, <2>2, <2>3, <2>4 DEF ClassRound
  <2>6. g[x] = [end |-> k + 1, found |-> b \/ Matched(x)]
    <3> HIDE DEF Matched
    <3> QED  BY <2>1, <2>5
  <2>7. Starts(p, x, k) = {x} \cup Starts(p, y, k)  BY <1>6, <1>10
  <2>8. b \/ Matched(x) <=> \E z \in Starts(p, x, k) : Matched(z)
    <3> HIDE DEF Matched
    <3> QED  BY <2>1, <2>7
  <2>9. (b \/ Matched(x)) \in BOOLEAN  OBVIOUS
  <2> HIDE DEF Matched
  <2> QED  BY <2>6, <2>8, <2>9
<1> HIDE DEF Right
<1>7. ASSUME NEW d \in Nat, d <= k - f PROVE Right(k - d, g[k - d])
  <2>1. SUFFICES ASSUME ~Right(k - d, g[k - d]) PROVE FALSE  OBVIOUS
  <2>2. PICK S : S = {e \in Nat : e <= k - f /\ ~Right(k - e, g[k - e])}  OBVIOUS
  <2>3. S \in SUBSET Nat /\ S # {}  BY <1>7, <2>1, <2>2
  <2>4. PICK m \in S : \A e \in S : m <= e  BY <2>3, LeastNatural
  <2>5. m \in Nat /\ m <= k - f /\ ~Right(k - m, g[k - m])  BY <2>2
  <2>6. m # 0
    <3>1. k - 0 = k  BY <1>2
    <3> QED  BY <1>5, <2>5, <3>1
  <2>7. PICK x : x = k - m /\ x \in f..(k - 1)  BY <1>1, <1>2, <2>5, <2>6
  <2>8. PICK y : y = MemberEnd(p, x) + 1  OBVIOUS
  <2>9. y \in (x + 1)..k
    <3>1. MemberEnd(p, x) \in x..(k - 1)  BY <1>1, <2>7, MemberWithin
    <3> QED  BY <1>1, <1>2, <2>7, <2>8, <3>1
  <2>10. PICK e : e = k - y /\ e \in Nat /\ e <= k - f /\ e < m /\ y = k - e
    BY <1>1, <1>2, <2>5, <2>7, <2>9
  <2>11. Right(y, g[y])  BY <2>2, <2>4, <2>5, <2>10
  <2>12. Right(x, g[x])  BY <1>6, <2>7, <2>8, <2>11
  <2> QED  BY <2>5, <2>7, <2>12
<1>8. Right(f, g[f])
  <2>1. PICK d : d = k - f /\ d \in Nat /\ d <= k - f /\ k - d = f  BY <1>1, <1>2
  <2> QED  BY <1>7, <2>1
<1>9. TryMatchClass(p, c, f) = g[f]  BY <1>3, ClassIsLoop
<1> QED  BY <1>1, <1>8, <1>9 DEF Right

\* One that does not close is found not to.
LEMMA ClassOpen ==
    ASSUME NEW p \in Seq(Chars), NEW i \in 1..Len(p), p[i] = "[", ~IsClass(p, i), NEW c
    PROVE  TryMatchClass(p, c, First(p, i)) = NoClass
<1>1. PICK n, f : n = Len(p) /\ n \in Nat /\ f = First(p, i) /\ f \in 1..(n + 1) /\ i < f
  BY LenProperties DEF First, Negated, Has
<1>2. ASSUME NEW k \in (f + 1)..n PROVE p[k] # "]"
  <2>1. SUFFICES ASSUME p[k] = "]" PROVE FALSE  OBVIOUS
  <2>2. PICK S : S = {j \in Nat : j \in (f + 1)..n /\ p[j] = "]"}  OBVIOUS
  <2>3. S \in SUBSET Nat /\ S # {}
    <3>1. k \in Nat  BY <1>1, <1>2
    <3> QED  BY <1>2, <2>1, <2>2, <3>1
  <2>4. PICK m \in S : \A j \in S : m <= j  BY <2>3, LeastNatural
  <2>5. \A j \in (f + 1)..(m - 1) : p[j] # "]"
    <3> TAKE j \in (f + 1)..(m - 1)
    <3>1. j \in Nat /\ j \in (f + 1)..n /\ ~(m <= j)  BY <1>1, <2>2
    <3> QED  BY <2>2, <2>4, <3>1
  <2>6. Closes(p, i, m)  BY <1>1, <2>2, <2>5 DEF Closes
  <2>7. m \in 1..Len(p)  BY <1>1, <2>2
  <2> QED  BY <2>6, <2>7 DEF IsClass
<1>3. PICK g : g = ClassLoop(p, c, f)  OBVIOUS
<1>4. \A x \in 1..(n + 1) : g[x] = ClassRound(p, c, f, g, x)
  BY <1>1, <1>3, ClassUnrolls
<1>5. ASSUME NEW x \in f..(n + 1), \A y \in (x + 1)..(n + 1) : g[y] = NoClass
      PROVE  g[x] = NoClass
  <2>1. x \in 1..(n + 1)  BY <1>1
  <2>2. CASE ~Has(p, x)  BY <1>4, <2>1, <2>2 DEF ClassRound
  <2>3. CASE Has(p, x)
    <3>1. PICK y : y = IF IsRange(p, x) THEN x + 3 ELSE x + 1  OBVIOUS
    <3>2. y \in (x + 1)..(n + 1)  BY <1>1, <2>1, <2>3, <3>1 DEF Has, IsRange
    <3>3. g[y] = NoClass  BY <1>5, <3>2
    <3>4. ~(p[x] = "]" /\ x # f)
      <4>1. x # f => x \in (f + 1)..n  BY <1>1, <1>5, <2>3 DEF Has
      <4> QED  BY <1>2, <4>1
    <3>5. g[IF IsRange(p, x) THEN x + 3 ELSE x + 1] = NoClass  BY <3>1, <3>3
    <3> QED  BY <1>4, <2>1, <2>3, <3>4, <3>5 DEF ClassRound
  <2> QED  BY <2>2, <2>3
<1>6. ASSUME NEW x \in f..(n + 1), g[x] # NoClass PROVE FALSE
  <2>1. PICK S : S = {d \in Nat : n + 1 - d \in f..(n + 1) /\ g[n + 1 - d] # NoClass}  OBVIOUS
  <2>2. n + 1 - x \in S
    <3>1. n + 1 - x \in Nat /\ n + 1 - (n + 1 - x) = x  BY <1>1, <1>6
    <3> QED  BY <1>6, <2>1, <3>1
  <2>3. S \in SUBSET Nat /\ S # {}  BY <2>1, <2>2
  <2>4. PICK m \in S : \A d \in S : m <= d  BY <2>3, LeastNatural
  <2>5. PICK w : w = n + 1 - m  OBVIOUS
  <2>6. m \in Nat /\ w \in f..(n + 1) /\ g[w] # NoClass  BY <2>1, <2>5
  <2>7. \A y \in (w + 1)..(n + 1) : g[y] = NoClass
    <3>1. SUFFICES ASSUME NEW y \in (w + 1)..(n + 1), g[y] # NoClass PROVE FALSE  OBVIOUS
    <3>2. PICK d : d = n + 1 - y /\ d \in Nat /\ d < m /\ n + 1 - d = y /\ y \in f..(n + 1)
      BY <1>1, <2>5, <2>6, <3>1
    <3>3. d \in S  BY <2>1, <3>1, <3>2
    <3> QED  BY <2>4, <2>6, <3>2, <3>3
  <2> QED  BY <1>5, <2>6, <2>7
<1>7. f \in f..(n + 1)  BY <1>1
<1> QED  BY <1>1, <1>3, <1>6, <1>7, ClassIsLoop

LEMMA ClosingIs ==
    ASSUME NEW p \in Seq(Chars), NEW i \in 1..Len(p), IsClass(p, i)
    PROVE  /\ Closes(p, i, Closing(p, i)) /\ p[i] = "["
           /\ Closing(p, i) \in (i + 1)..Len(p)
<1>1. PICK k \in 1..Len(p) : Closes(p, i, k)  BY DEF IsClass
<1>2. Closing(p, i) \in 1..Len(p) /\ Closes(p, i, Closing(p, i))  BY <1>1 DEF Closing
<1>3. First(p, i) \in Nat /\ i < First(p, i)  BY DEF First
<1> QED  BY <1>2, <1>3 DEF Closes

\* What the loop makes of a place that is no star is what the place means.
LEMMA AgainstIs ==
    ASSUME SegmentAssumption, NEW p \in Seq(Chars), NEW i \in 1..Len(p), p[i] # "*",
           NEW c \in Chars
    PROVE  /\ Against(p, i, c).ok <=> Takes(p, i, c)
           /\ Against(p, i, c).next = NextPlace(p, i)
           /\ NextPlace(p, i) \in (i + 1)..(Len(p) + 1)
<1>1. PICK n : n = Len(p) /\ n \in Nat /\ i \in 1..n  BY LenProperties
<1>2. (IF Has(p, i + 1) /\ p[i + 1] \in {"!", "^"} THEN i + 2 ELSE i + 1) = First(p, i)
  BY DEF First, Negated
<1>3. PICK class : class = TryMatchClass(p, c, First(p, i))  OBVIOUS
<1>4. Against(p, i, c) =
        CASE p[i] = "?" -> [ok |-> TRUE, next |-> i + 1]
          [] p[i] = "[" /\ class # NoClass ->
               [ok |-> class.found # Negated(p, i), next |-> class.end]
          [] OTHER -> [ok |-> p[i] = c, next |-> i + 1]
  BY <1>2, <1>3 DEF Against, Negated
<1>5. CASE p[i] = "?"
  <2>1. Against(p, i, c) = [ok |-> TRUE, next |-> i + 1]  BY <1>4, <1>5
  <2>2. ~IsClass(p, i)  BY <1>5 DEF IsClass, Closes
  <2> QED  BY <1>1, <1>5, <2>1, <2>2 DEF Takes, NextPlace
<1>6. CASE IsClass(p, i)
  <2>1. PICK k : k = Closing(p, i) /\ Closes(p, i, k) /\ k \in (i + 1)..n /\ p[i] = "["
    BY <1>1, <1>6, ClosingIs
  <2>2. PICK b \in BOOLEAN :
          /\ class = [end |-> k + 1, found |-> b]
          /\ b <=> \E y \in Starts(p, First(p, i), k) :
                     IF IsRange(p, y) THEN Code[c] \in Code[p[y]]..Code[p[y + 2]]
                     ELSE p[y] = c
    BY <1>3, <2>1, ClassFound
  <2>3. class # NoClass  BY <1>1, <2>1, <2>2 DEF NoClass
  <2>4. Against(p, i, c) = [ok |-> b # Negated(p, i), next |-> k + 1]
    BY <1>4, <2>1, <2>2, <2>3
  <2>5. ASSUME NEW y \in Starts(p, First(p, i), k)
        PROVE  IsMember(p, y, c) <=> IF IsRange(p, y)
                                     THEN Code[c] \in Code[p[y]]..Code[p[y + 2]]
                                     ELSE p[y] = c
    <3>1. y \in First(p, i)..(k - 1)  BY DEF Starts
    <3>2. y \in 1..n  BY <1>1, <2>1, <3>1, MemberWithin
    <3>3. IsRange(p, y) => y + 2 \in 1..n  BY <1>1, <3>2 DEF IsRange, Has
    <3>4. \A z \in 1..n : p[z] \in Chars  BY <1>1, ElementOfSeq
    <3>5. IsRange(p, y) => Code[c] \in Int /\ Code[p[y]] \in Int /\ Code[p[y + 2]] \in Int
      BY <3>2, <3>3, <3>4 DEF SegmentAssumption, Chars
    <3> QED  BY <3>5 DEF IsMember
  <2>6. b <=> c \in Members(p, i)  BY <2>1, <2>2, <2>5 DEF Members, Chars
  <2>7. Negated(p, i) \in BOOLEAN  BY DEF Negated
  <2>8. (b # Negated(p, i)) <=> Takes(p, i, c)
    BY <1>6, <2>1, <2>6, <2>7 DEF Takes
  <2>9. NextPlace(p, i) = k + 1 /\ k + 1 \in (i + 1)..(Len(p) + 1)
    BY <1>1, <1>6, <2>1 DEF NextPlace
  <2>10. Against(p, i, c).ok = (b # Negated(p, i)) /\ Against(p, i, c).next = k + 1
    BY <2>4
  <2> QED  BY <2>8, <2>9, <2>10
<1>7. CASE p[i] # "?" /\ ~IsClass(p, i)
  <2>1. p[i] = "[" => class = NoClass  BY <1>3, <1>7, ClassOpen
  <2>2. Against(p, i, c) = [ok |-> p[i] = c, next |-> i + 1]  BY <1>4, <1>7, <2>1
  <2>3. Takes(p, i, c) <=> p[i] = c  BY <1>7 DEF Takes
  <2>4. NextPlace(p, i) = i + 1 /\ i + 1 \in (i + 1)..(Len(p) + 1)  BY <1>1, <1>7 DEF NextPlace
  <2>5. Against(p, i, c).ok = (p[i] = c) /\ Against(p, i, c).next = i + 1  BY <2>2
  <2> QED  BY <2>3, <2>4, <2>5
<1> QED  BY <1>5, <1>6, <1>7

LEMMA AfterStarsIs ==
    ASSUME NEW p \in Seq(Chars), NEW i \in 1..(Len(p) + 1)
    PROVE  LET k == AfterStars(p, i) IN
           /\ k \in i..(Len(p) + 1) /\ \A x \in i..(k - 1) : p[x] = "*"
           /\ Has(p, k) => p[k] # "*"
<1>1. PICK n : n = Len(p) /\ n \in Nat  BY LenProperties
<1>2. PICK S : S = {j \in Nat : j \in i..(n + 1) /\ (j = n + 1 \/ p[j] # "*")}  OBVIOUS
<1>3. n + 1 \in S /\ S \in SUBSET Nat  BY <1>1, <1>2
<1>4. PICK k \in S : \A j \in S : k <= j  BY <1>3, LeastNatural
<1>5. k \in i..(n + 1) /\ (Has(p, k) => p[k] # "*")  BY <1>1, <1>2 DEF Has
<1>6. \A x \in i..(k - 1) : p[x] = "*"
  <2> TAKE x \in i..(k - 1)
  <2>1. x \in Nat /\ x \in i..(n + 1) /\ ~(k <= x)  BY <1>1, <1>5
  <2> QED  BY <1>2, <1>4, <2>1
<1>7. \E j \in i..(Len(p) + 1) :
        (\A x \in i..(j - 1) : p[x] = "*") /\ (Has(p, j) => p[j] # "*")
  BY <1>1, <1>5, <1>6
<1> QED  BY <1>7 DEF AfterStars

-----------------------------------------------------------------------------
(***************************************************************************)
(* What the rest of a pattern means.                                       *)
(***************************************************************************)

Takers(p, s) == [1..(Len(s) + 1) -> 1..(Len(p) + 1)]

\* The places from the i-th on read the name from its j-th character on.
ReadsFrom(p, s, i, j, taker) ==
    /\ taker[Len(s) + 1] = Len(p) + 1 /\ Skips(p, i, taker[j])
    /\ \A x \in j..Len(s) : /\ taker[x] <= Len(p) /\ Takes(p, taker[x], s[x])
                            /\ Skips(p, NextPlace(p, taker[x]), taker[x + 1])
MeansFrom(p, s, i, j) == \E taker \in Takers(p, s) : ReadsFrom(p, s, i, j, taker)

LEMMA MeansIsFrom ==
    ASSUME NEW p \in Seq(Chars), NEW s \in Seq(Chars)
    PROVE  Means(p, s) <=> MeansFrom(p, s, 1, 1)
<1>1. PICK n, m : n = Len(p) /\ n \in Nat /\ m = Len(s) /\ m \in Nat  BY LenProperties
<1>2. ASSUME NEW t \in [1..m -> 1..n], NEW taker, taker = Append(t, n + 1)
      PROVE  taker \in Takers(p, s) /\ taker[m + 1] = n + 1 /\ \A x \in 1..m : taker[x] = t[x]
  <2>1. t \in Seq(1..(n + 1)) /\ Len(t) = m
    <3>1. t \in Seq(1..n)  BY <1>1
    <3>2. 1..n \subseteq 1..(n + 1)  BY <1>1
    <3> QED  BY <1>1, <3>1, <3>2
  <2>2. /\ taker \in Seq(1..(n + 1)) /\ Len(taker) = m + 1 /\ taker[m + 1] = n + 1
        /\ \A x \in 1..m : taker[x] = t[x]
    BY <1>1, <1>2, <2>1, AppendProperties
  <2> QED  BY <1>1, <2>2, LenProperties DEF Takers
<1>3. ASSUME Means(p, s) PROVE MeansFrom(p, s, 1, 1)
  <2>1. PICK t \in [1..m -> 1..n] : Reads(p, s, Append(t, n + 1))  BY <1>1, <1>3 DEF Means
  <2>2. PICK taker : taker = Append(t, n + 1)  OBVIOUS
  <2>3. taker \in Takers(p, s) /\ taker[m + 1] = n + 1 /\ \A x \in 1..m : taker[x] \in 1..n
    BY <1>2, <2>2
  <2>4. ReadsFrom(p, s, 1, 1, taker)  BY <1>1, <2>1, <2>2, <2>3 DEF Reads, ReadsFrom
  <2> QED  BY <2>3, <2>4 DEF MeansFrom
<1>4. ASSUME MeansFrom(p, s, 1, 1) PROVE Means(p, s)
  <2>1. PICK taker \in Takers(p, s) : ReadsFrom(p, s, 1, 1, taker)  BY <1>4 DEF MeansFrom
  <2>2. PICK t : t = [x \in 1..m |-> taker[x]]  OBVIOUS
  <2>3. \A x \in 1..m : taker[x] \in 1..n  BY <1>1, <2>1 DEF ReadsFrom, Takers
  <2>4. t \in [1..m -> 1..n] /\ \A x \in 1..m : t[x] = taker[x]  BY <2>2, <2>3
  <2>5. PICK u : u = Append(t, n + 1)  OBVIOUS
  <2>6. u[m + 1] = n + 1 /\ \A x \in 1..m : u[x] = t[x]  BY <1>2, <2>4, <2>5
  <2>7. \A x \in 1..(m + 1) : u[x] = taker[x]
    <3> TAKE x \in 1..(m + 1)
    <3>1. CASE x = m + 1  BY <1>1, <2>1, <2>6, <3>1 DEF ReadsFrom
    <3>2. CASE x # m + 1
      <4>1. x \in 1..m  BY <1>1, <3>2
      <4> QED  BY <2>4, <2>6, <4>1
    <3> QED  BY <3>1, <3>2
  <2>8. \A x \in 1..m : u[x] = taker[x] /\ u[x + 1] = taker[x + 1]
    <3> TAKE x \in 1..m
    <3>1. x \in 1..(m + 1) /\ x + 1 \in 1..(m + 1)  BY <1>1
    <3> QED  BY <2>7, <3>1
  <2>9. u[1] = taker[1]
    <3>1. 1 \in 1..(m + 1)  BY <1>1
    <3> QED  BY <2>7, <3>1
  <2>10. Reads(p, s, u)
    <3>1. Skips(p, 1, u[1])  BY <2>1, <2>9 DEF ReadsFrom
    <3>2. \A x \in 1..m : Takes(p, u[x], s[x]) /\ Skips(p, NextPlace(p, u[x]), u[x + 1])
      BY <1>1, <2>1, <2>8 DEF ReadsFrom
    <3> QED  BY <1>1, <3>1, <3>2 DEF Reads
  <2> QED  BY <1>1, <2>4, <2>5, <2>10 DEF Means
<1> QED  BY <1>3, <1>4

\* At the end of the name only stars may be left.
LEMMA MeansAtEnd ==
    ASSUME NEW p \in Seq(Chars), NEW s \in Seq(Chars), NEW i \in 1..(Len(p) + 1)
    PROVE  MeansFrom(p, s, i, Len(s) + 1) <=> Skips(p, i, Len(p) + 1)
<1>1. PICK n, m : n = Len(p) /\ n \in Nat /\ m = Len(s) /\ m \in Nat  BY LenProperties
<1>2. MeansFrom(p, s, i, m + 1) => Skips(p, i, n + 1)  BY <1>1 DEF MeansFrom, ReadsFrom
<1>3. ASSUME Skips(p, i, n + 1) PROVE MeansFrom(p, s, i, m + 1)
  <2>1. PICK t : t = [x \in 1..(m + 1) |-> n + 1]  OBVIOUS
  <2>2. t \in Takers(p, s) /\ t[m + 1] = n + 1  BY <1>1, <2>1 DEF Takers
  <2>3. (m + 1)..m = {}  BY <1>1
  <2>4. ReadsFrom(p, s, i, m + 1, t)  BY <1>1, <1>3, <2>2, <2>3 DEF ReadsFrom
  <2> QED  BY <2>2, <2>4 DEF MeansFrom
<1> QED  BY <1>1, <1>2, <1>3

\* At the end of the pattern no character may be left.
LEMMA MeansNothing ==
    ASSUME NEW p \in Seq(Chars), NEW s \in Seq(Chars), NEW j \in 1..Len(s)
    PROVE  ~MeansFrom(p, s, Len(p) + 1, j)
<1>1. PICK n, m : n = Len(p) /\ n \in Nat /\ m = Len(s) /\ m \in Nat  BY LenProperties
<1>2. SUFFICES ASSUME NEW t \in Takers(p, s), ReadsFrom(p, s, n + 1, j, t) PROVE FALSE
  BY <1>1 DEF MeansFrom
<1>3. j \in j..m /\ t[j] \in 1..(n + 1)  BY <1>1, <1>2 DEF Takers
<1>4. t[j] <= n /\ n + 1 <= t[j]  BY <1>1, <1>2, <1>3 DEF ReadsFrom, Skips
<1> QED  BY <1>1, <1>3, <1>4

\* A place that is no star takes the next character, and the rest the others.
LEMMA MeansPlace ==
    ASSUME SegmentAssumption, NEW p \in Seq(Chars), NEW s \in Seq(Chars),
           NEW i \in 1..Len(p), p[i] # "*", NEW j \in 1..(Len(s) + 1)
    PROVE  MeansFrom(p, s, i, j) <=>
             j <= Len(s) /\ Takes(p, i, s[j]) /\ MeansFrom(p, s, NextPlace(p, i), j + 1)
<1>1. PICK n, m : n = Len(p) /\ n \in Nat /\ m = Len(s) /\ m \in Nat  BY LenProperties
<1>2. ASSUME NEW k \in 1..(n + 1), Skips(p, i, k) PROVE k = i
  <2>1. k # i => i \in i..(k - 1)  BY <1>1, <1>2 DEF Skips
  <2> QED  BY <1>2, <2>1 DEF Skips
<1>3. ASSUME MeansFrom(p, s, i, j)
      PROVE  j <= m /\ Takes(p, i, s[j]) /\ MeansFrom(p, s, NextPlace(p, i), j + 1)
  <2>1. PICK t \in Takers(p, s) : ReadsFrom(p, s, i, j, t)  BY <1>3 DEF MeansFrom
  <2>2. t[j] \in 1..(n + 1)  BY <1>1, <2>1 DEF Takers
  <2>3. t[j] = i  BY <1>2, <2>1, <2>2 DEF ReadsFrom
  <2>4. j <= m
    <3>1. j = m + 1 => t[j] = n + 1  BY <1>1, <2>1 DEF ReadsFrom
    <3> QED  BY <1>1, <2>3, <3>1
  <2>5. j \in j..m  BY <1>1, <2>4
  <2>6. Takes(p, i, s[j]) /\ Skips(p, NextPlace(p, i), t[j + 1])
    BY <1>1, <2>1, <2>3, <2>5 DEF ReadsFrom
  <2>7. \A x \in (j + 1)..m : x \in j..m  BY <1>1
  <2>8. ReadsFrom(p, s, NextPlace(p, i), j + 1, t)  BY <1>1, <2>1, <2>6, <2>7 DEF ReadsFrom
  <2> QED  BY <2>1, <2>4, <2>6, <2>8 DEF MeansFrom
<1>4. ASSUME j <= m, Takes(p, i, s[j]), MeansFrom(p, s, NextPlace(p, i), j + 1)
      PROVE  MeansFrom(p, s, i, j)
  <2>1. PICK t \in Takers(p, s) : ReadsFrom(p, s, NextPlace(p, i), j + 1, t)
    BY <1>4 DEF MeansFrom
  <2>2. PICK u : u = [t EXCEPT ![j] = i]  OBVIOUS
  <2>3. u \in Takers(p, s) /\ u[j] = i /\ \A x \in (j + 1)..(m + 1) : u[x] = t[x]
    BY <1>1, <2>1, <2>2 DEF Takers
  <2>4. m + 1 \in (j + 1)..(m + 1) /\ j + 1 \in (j + 1)..(m + 1)  BY <1>1, <1>4
  <2>5. u[m + 1] = n + 1 /\ Skips(p, NextPlace(p, i), u[j + 1])
    BY <1>1, <2>1, <2>3, <2>4 DEF ReadsFrom
  <2>6. Skips(p, i, i)
    <3>1. i..(i - 1) = {} /\ i <= i  BY <1>1
    <3> QED  BY <3>1 DEF Skips
  <2>7. ASSUME NEW x \in j..m
        PROVE  u[x] <= n /\ Takes(p, u[x], s[x]) /\ Skips(p, NextPlace(p, u[x]), u[x + 1])
    <3>1. CASE x = j  BY <1>1, <1>4, <2>3, <2>5, <3>1
    <3>2. CASE x # j
      <4>1. x \in (j + 1)..m /\ x \in (j + 1)..(m + 1) /\ x + 1 \in (j + 1)..(m + 1)
        BY <1>1, <3>2
      <4>2. u[x] = t[x] /\ u[x + 1] = t[x + 1]  BY <2>3, <4>1
      <4>3. t[x] <= n /\ Takes(p, t[x], s[x]) /\ Skips(p, NextPlace(p, t[x]), t[x + 1])
        BY <1>1, <2>1, <4>1 DEF ReadsFrom
      <4> QED  BY <4>2, <4>3
    <3> QED  BY <3>1, <3>2
  <2>8. ReadsFrom(p, s, i, j, u)  BY <1>1, <2>3, <2>5, <2>6, <2>7 DEF ReadsFrom
  <2> QED  BY <2>3, <2>8 DEF MeansFrom
<1> QED  BY <1>1, <1>3, <1>4

\* A place that follows is not before the one it follows.
LEMMA NextPlaceIs ==
    ASSUME NEW p \in Seq(Chars), NEW i \in 1..Len(p)
    PROVE  /\ NextPlace(p, i) \in i..(Len(p) + 1)
           /\ p[i] = "*" => NextPlace(p, i) = i
<1>1. PICK n : n = Len(p) /\ n \in Nat  BY LenProperties
<1>2. CASE p[i] = "*"  BY <1>1, <1>2 DEF NextPlace
<1>3. CASE p[i] # "*" /\ IsClass(p, i)
  <2>1. Closing(p, i) \in (i + 1)..n  BY <1>1, <1>3, ClosingIs
  <2> QED  BY <1>1, <1>3, <2>1 DEF NextPlace
<1>4. CASE p[i] # "*" /\ ~IsClass(p, i)  BY <1>1, <1>4 DEF NextPlace
<1> QED  BY <1>2, <1>3, <1>4

\* What reads from place i on reads with no place before it.
LEMMA NoneBefore ==
    ASSUME NEW p \in Seq(Chars), NEW s \in Seq(Chars), NEW i \in 1..(Len(p) + 1),
           NEW j \in 1..(Len(s) + 1), NEW t \in Takers(p, s), ReadsFrom(p, s, i, j, t)
    PROVE  \A x \in j..(Len(s) + 1) : i <= t[x]
<1>1. PICK n, m : n = Len(p) /\ n \in Nat /\ m = Len(s) /\ m \in Nat  BY LenProperties
<1>2. \A x \in j..(m + 1) : t[x] \in 1..(n + 1)  BY <1>1 DEF Takers
<1>3. SUFFICES ASSUME NEW z \in j..(m + 1), ~(i <= t[z]) PROVE FALSE  BY <1>1
<1>4. PICK S : S = {x \in Nat : x \in j..(m + 1) /\ ~(i <= t[x])}  OBVIOUS
<1>5. z \in S /\ S \in SUBSET Nat  BY <1>1, <1>3, <1>4
<1>6. PICK x \in S : \A y \in S : x <= y  BY <1>5, LeastNatural
<1>7. x \in j..(m + 1) /\ ~(i <= t[x])  BY <1>4
<1>8. x # j  BY <1>7 DEF ReadsFrom, Skips
<1>9. PICK y : y = x - 1 /\ y \in j..m /\ y \in j..(m + 1) /\ y \in Nat /\ ~(x <= y) /\ y + 1 = x
  BY <1>1, <1>7, <1>8
<1>10. i <= t[y]  BY <1>4, <1>6, <1>9
<1>11. t[y] \in 1..n /\ NextPlace(p, t[y]) <= t[x]
  <2>1. t[y] <= n /\ Skips(p, NextPlace(p, t[y]), t[x])  BY <1>1, <1>9 DEF ReadsFrom
  <2>2. t[y] \in 1..n  BY <1>1, <1>2, <1>9, <2>1
  <2> QED  BY <2>1, <2>2 DEF Skips
<1>12. t[y] <= NextPlace(p, t[y]) /\ NextPlace(p, t[y]) \in Nat  BY <1>1, <1>11, NextPlaceIs
<1> QED  BY <1>1, <1>2, <1>7, <1>9, <1>10, <1>11, <1>12

\* Stars take any number of characters; what follows reads the rest.
LEMMA MeansStars ==
    ASSUME NEW p \in Seq(Chars), NEW s \in Seq(Chars), NEW i \in 1..Len(p),
           p[i] = "*", NEW j \in 1..(Len(s) + 1)
    PROVE  MeansFrom(p, s, i, j) <=>
             \E y \in j..(Len(s) + 1) : MeansFrom(p, s, AfterStars(p, i), y)
<1>1. PICK n, m : n = Len(p) /\ n \in Nat /\ m = Len(s) /\ m \in Nat  BY LenProperties
<1>2. PICK k : /\ k = AfterStars(p, i) /\ k \in i..(n + 1)
               /\ \A x \in i..(k - 1) : p[x] = "*"
               /\ Has(p, k) => p[k] # "*"
  BY <1>1, AfterStarsIs
<1>3. k \in (i + 1)..(n + 1) /\ k - 1 \in i..n /\ k - 1 \in 1..n /\ p[k - 1] = "*"
      /\ k - 1 \in i..(k - 1)
  <2>1. k # i  BY <1>1, <1>2 DEF Has
  <2>2. k \in (i + 1)..(n + 1) /\ k - 1 \in i..n /\ k - 1 \in 1..n /\ k - 1 \in i..(k - 1)
    BY <1>1, <1>2, <2>1
  <2> QED  BY <1>2, <2>2
<1>4. ASSUME MeansFrom(p, s, i, j)
      PROVE  \E y \in j..(m + 1) : MeansFrom(p, s, k, y)
  <2>1. PICK t \in Takers(p, s) : ReadsFrom(p, s, i, j, t)  BY <1>4 DEF MeansFrom
  <2>2. \A x \in j..(m + 1) : t[x] \in i..(n + 1)
    <3>1. \A x \in j..(m + 1) : t[x] \in 1..(n + 1)  BY <1>1, <2>1 DEF Takers
    <3>2. \A x \in j..(m + 1) : i <= t[x]  BY <1>1, <2>1, NoneBefore
    <3> QED  BY <1>1, <3>1, <3>2
  <2>3. PICK S : S = {x \in Nat : x \in j..(m + 1) /\ k <= t[x]}  OBVIOUS
  <2>4. m + 1 \in S /\ S \in SUBSET Nat
    <3>1. t[m + 1] = n + 1 /\ m + 1 \in j..(m + 1)  BY <1>1, <2>1 DEF ReadsFrom
    <3> QED  BY <1>1, <1>3, <2>3, <3>1
  <2>5. PICK y \in S : \A x \in S : y <= x  BY <2>4, LeastNatural
  <2>6. y \in j..(m + 1) /\ k <= t[y] /\ t[y] \in i..(n + 1)  BY <2>2, <2>3
  <2>7. \A x \in k..(t[y] - 1) : p[x] = "*"
    <3>1. CASE y = j
      <4>1. \A x \in k..(t[y] - 1) : x \in i..(t[y] - 1)  BY <1>1, <1>3, <2>6
      <4> QED  BY <2>1, <3>1, <4>1 DEF ReadsFrom, Skips
    <3>2. CASE y # j
      <4>1. PICK x : /\ x = y - 1 /\ x \in j..m /\ x \in j..(m + 1) /\ x \in Nat
                     /\ ~(y <= x) /\ x + 1 = y
        BY <1>1, <2>6, <3>2
      <4>2. ~(k <= t[x])  BY <2>3, <2>5, <4>1
      <4>3. t[x] \in i..(k - 1) /\ t[x] \in 1..n  BY <1>1, <1>3, <2>2, <4>1, <4>2
      <4>4. NextPlace(p, t[x]) = t[x]  BY <1>1, <1>2, <4>3, NextPlaceIs
      <4>5. Skips(p, t[x], t[y])  BY <1>1, <2>1, <4>1, <4>4 DEF ReadsFrom
      <4>6. \A z \in k..(t[y] - 1) : z \in t[x]..(t[y] - 1)  BY <1>1, <1>3, <2>6, <4>3
      <4> QED  BY <4>5, <4>6 DEF Skips
    <3> QED  BY <3>1, <3>2
  <2>8. \A x \in y..m : x \in j..m  BY <1>1, <2>6
  <2>9. ReadsFrom(p, s, k, y, t)
    <3>1. Skips(p, k, t[y])  BY <2>6, <2>7 DEF Skips
    <3> QED  BY <1>1, <2>1, <2>8, <3>1 DEF ReadsFrom
  <2> QED  BY <2>1, <2>6, <2>9 DEF MeansFrom
<1>5. ASSUME NEW y \in j..(m + 1), MeansFrom(p, s, k, y)
      PROVE  MeansFrom(p, s, i, j)
  <2>1. PICK t \in Takers(p, s) : ReadsFrom(p, s, k, y, t)  BY <1>5 DEF MeansFrom
  <2>2. t[y] \in k..(n + 1)
    <3>1. t[y] \in 1..(n + 1)  BY <1>1, <1>5, <2>1 DEF Takers
    <3> QED  BY <1>1, <1>3, <2>1, <3>1 DEF ReadsFrom, Skips
  <2>3. ASSUME NEW x \in i..k PROVE Skips(p, x, t[y])
    <3>1. ASSUME NEW z \in x..(t[y] - 1) PROVE p[z] = "*"
      <4>1. CASE z < k
        <5>1. z \in i..(k - 1)  BY <1>1, <1>3, <2>2, <2>3, <3>1, <4>1
        <5> QED  BY <1>2, <5>1
      <4>2. CASE ~(z < k)
        <5>1. z \in k..(t[y] - 1)  BY <1>1, <1>3, <2>2, <2>3, <3>1, <4>2
        <5> QED  BY <2>1, <5>1 DEF ReadsFrom, Skips
      <4> QED  BY <4>1, <4>2
    <3>2. x <= t[y]  BY <1>1, <1>3, <2>2, <2>3
    <3> QED  BY <3>1, <3>2 DEF Skips
  <2>4. ASSUME NEW x \in i..(k - 1) PROVE Skips(p, x, k - 1)
    <3>1. \A z \in x..(k - 1 - 1) : z \in i..(k - 1)  BY <1>1, <1>3, <2>4
    <3>2. x <= k - 1  BY <1>1, <1>3, <2>4
    <3> QED  BY <1>2, <3>1, <3>2 DEF Skips
  <2>5. PICK u : u = [x \in 1..(m + 1) |-> IF x \in j..(y - 1) THEN k - 1 ELSE t[x]]  OBVIOUS
  <2>6. u \in Takers(p, s)
    <3>1. \A x \in 1..(m + 1) : t[x] \in 1..(n + 1)  BY <1>1, <2>1 DEF Takers
    <3>2. k - 1 \in 1..(n + 1)  BY <1>1, <1>3
    <3> QED  BY <1>1, <2>5, <3>1, <3>2 DEF Takers
  <2>7. (\A x \in j..(y - 1) : u[x] = k - 1) /\ (\A x \in y..(m + 1) : u[x] = t[x])
    BY <1>1, <1>5, <2>5
  <2>8. u[m + 1] = n + 1
    <3>1. m + 1 \in y..(m + 1)  BY <1>1, <1>5
    <3> QED  BY <1>1, <2>1, <2>7, <3>1 DEF ReadsFrom
  <2>9. u[y] = t[y]
    <3>1. y \in y..(m + 1)  BY <1>1, <1>5
    <3> QED  BY <2>7, <3>1
  <2>10. Skips(p, i, u[j])
    <3>1. CASE j = y
      <4>1. i \in i..k  BY <1>1, <1>3
      <4> QED  BY <2>3, <2>9, <3>1, <4>1
    <3>2. CASE j # y
      <4>1. j \in j..(y - 1) /\ i \in i..(k - 1)  BY <1>1, <1>3, <1>5, <3>2
      <4> QED  BY <2>4, <2>7, <4>1
    <3> QED  BY <3>1, <3>2
  <2>11. ASSUME NEW x \in j..m
         PROVE  u[x] <= n /\ Takes(p, u[x], s[x]) /\ Skips(p, NextPlace(p, u[x]), u[x + 1])
    <3>1. CASE x < y
      <4>1. x \in j..(y - 1)  BY <1>1, <1>5, <2>11, <3>1
      <4>2. u[x] = k - 1  BY <2>7, <4>1
      <4>3. k - 1 <= n /\ NextPlace(p, k - 1) = k - 1 /\ Takes(p, k - 1, s[x])
        BY <1>1, <1>3, NextPlaceIs DEF Takes
      <4>4. Skips(p, k - 1, u[x + 1])
        <5>1. CASE x + 1 = y
          <6>1. k - 1 \in i..k  BY <1>1, <1>3
          <6> QED  BY <2>3, <2>9, <5>1, <6>1
        <5>2. CASE x + 1 # y
          <6>1. x + 1 \in j..(y - 1)  BY <1>1, <1>5, <4>1, <5>2
          <6>2. u[x + 1] = k - 1  BY <2>7, <6>1
          <6> QED  BY <1>3, <2>4, <6>2
        <5> QED  BY <5>1, <5>2
      <4> QED  BY <4>2, <4>3, <4>4
    <3>2. CASE ~(x < y)
      <4>1. x \in y..m /\ x \in y..(m + 1) /\ x + 1 \in y..(m + 1)
        BY <1>1, <1>5, <2>11, <3>2
      <4>2. u[x] = t[x] /\ u[x + 1] = t[x + 1]  BY <2>7, <4>1
      <4>3. t[x] <= n /\ Takes(p, t[x], s[x]) /\ Skips(p, NextPlace(p, t[x]), t[x + 1])
        BY <1>1, <2>1, <4>1 DEF ReadsFrom
      <4> QED  BY <4>2, <4>3
    <3> QED  BY <3>1, <3>2
  <2>12. ReadsFrom(p, s, i, j, u)  BY <1>1, <2>8, <2>10, <2>11 DEF ReadsFrom
  <2> QED  BY <2>6, <2>12 DEF MeansFrom
<1> QED  BY <1>1, <1>2, <1>4, <1>5

-----------------------------------------------------------------------------
(***************************************************************************)
(* The loop, at place i and character j, with its last star before place a *)
(* (0 if there was none), which took what is before character b.           *)
(***************************************************************************)

\* A match continues from here, or after the last star takes more.
StillMeans(p, s, i, j, a, b) ==
    Means(p, s) <=> \/ MeansFrom(p, s, i, j)
                    \/ a # 0 /\ \E k \in (b + 1)..(Len(s) + 1) : MeansFrom(p, s, a, k)
\* Between a and i there is no star, so what reads from a reads from i, as many
\* characters on as the loop has read since.
SinceStar(p, s, i, j, a, b) ==
    a # 0 => \A k \in 1..(Len(s) + 1) : MeansFrom(p, s, a, k) =>
        k + (j - b) <= Len(s) + 1 /\ MeansFrom(p, s, i, k + (j - b))
\* The star took a character more whenever the places were gone through again.
Spent(p, b) == IF b = 0 THEN 0 ELSE (b - 1) * (Len(p) + 1)

Underway(p, s, i, j, a, b, r) ==
    /\ i \in 1..(Len(p) + 1) /\ j \in 1..(Len(s) + 1) /\ a \in 0..Len(p) /\ r \in Nat
    /\ IF a = 0 THEN b = 0 ELSE b \in 1..j
    /\ StillMeans(p, s, i, j, a, b)
    /\ SinceStar(p, s, i, j, a, b)
    /\ r <= Spent(p, b) + (i - 1)

LEMMA Begins ==
    ASSUME NEW p \in Seq(Chars), NEW s \in Seq(Chars)
    PROVE  Underway(p, s, 1, 1, 0, 0, 0)
<1>1. Len(p) \in Nat /\ Len(s) \in Nat  BY LenProperties
<1>2. StillMeans(p, s, 1, 1, 0, 0)  BY MeansIsFrom DEF StillMeans
<1> QED  BY <1>1, <1>2 DEF Underway, SinceStar, Spent

\* At a star, the one before it need not take more: this one may.
LEMMA MeetsStar ==
    ASSUME NEW p \in Seq(Chars), NEW s \in Seq(Chars), NEW i, NEW j, NEW a, NEW b, NEW r,
           Underway(p, s, i, j, a, b, r), i <= Len(p), p[i] = "*"
    PROVE  Means(p, s) <=> \E y \in j..(Len(s) + 1) : MeansFrom(p, s, AfterStars(p, i), y)
<1>1. PICK n, m : n = Len(p) /\ n \in Nat /\ m = Len(s) /\ m \in Nat  BY LenProperties
<1>2. i \in 1..n /\ j \in 1..(m + 1)  BY <1>1 DEF Underway
<1>3. MeansFrom(p, s, i, j) <=> \E y \in j..(m + 1) : MeansFrom(p, s, AfterStars(p, i), y)
  BY <1>1, <1>2, MeansStars
<1>4. ASSUME a # 0, NEW k \in (b + 1)..(m + 1), MeansFrom(p, s, a, k)
      PROVE  MeansFrom(p, s, i, j)
  <2>1. b \in 1..j /\ k \in 1..(m + 1)  BY <1>1, <1>2, <1>4 DEF Underway
  <2>2. PICK d : d = k + (j - b) /\ d \in (j + 1)..(m + 1) /\ MeansFrom(p, s, i, d)
    <3>1. k + (j - b) <= m + 1 /\ MeansFrom(p, s, i, k + (j - b))
      BY <1>1, <1>4, <2>1 DEF Underway, SinceStar
    <3> QED  BY <1>1, <1>2, <1>4, <2>1, <3>1
  <2>3. d \in 1..(m + 1) /\ d..(m + 1) \subseteq j..(m + 1)  BY <1>1, <1>2, <2>2
  <2>4. \E y \in d..(m + 1) : MeansFrom(p, s, AfterStars(p, i), y)
    BY <1>1, <1>2, <2>2, <2>3, MeansStars
  <2> QED  BY <1>3, <2>3, <2>4
<1> QED  BY <1>1, <1>3, <1>4 DEF Underway, StillMeans

LEMMA GoesPastStar ==
    ASSUME NEW p \in Seq(Chars), NEW s \in Seq(Chars), NEW i, NEW j, NEW a, NEW b, NEW r,
           Underway(p, s, i, j, a, b, r), j <= Len(s), i <= Len(p), p[i] = "*",
           NEW k, k = AfterStars(p, i), k <= Len(p)
    PROVE  Underway(p, s, k, j, k, j, r + 1)
<1>1. PICK n, m : n = Len(p) /\ n \in Nat /\ m = Len(s) /\ m \in Nat  BY LenProperties
<1>2. i \in 1..n /\ i \in 1..(n + 1) /\ j \in 1..m /\ r \in Nat  BY <1>1 DEF Underway
<1>3. k \in (i + 1)..n
  <2>1. k \in i..(n + 1) /\ (Has(p, k) => p[k] # "*")  BY <1>1, <1>2, AfterStarsIs
  <2> QED  BY <1>1, <1>2, <2>1 DEF Has
<1>4. Means(p, s) <=> \E y \in j..(m + 1) : MeansFrom(p, s, k, y)  BY <1>1, MeetsStar
<1>5. StillMeans(p, s, k, j, k, j)
  <2>1. \A y : y \in j..(m + 1) <=> y = j \/ y \in (j + 1)..(m + 1)  BY <1>1, <1>2
  <2>2. k # 0  BY <1>1, <1>2, <1>3
  <2> QED  BY <1>1, <1>4, <2>1, <2>2 DEF StillMeans
<1>6. SinceStar(p, s, k, j, k, j)
  <2>1. \A y \in 1..(m + 1) : y + (j - j) = y /\ y <= m + 1  BY <1>1, <1>2
  <2> QED  BY <1>1, <2>1 DEF SinceStar
<1>7. r + 1 <= Spent(p, j) + (k - 1)
  <2>1. Spent(p, b) <= Spent(p, j) /\ Spent(p, b) \in Nat /\ Spent(p, j) \in Nat
    <3>1. b \in 0..j  BY <1>1, <1>2 DEF Underway
    <3>2. CASE b = 0
      <4>1. j - 1 \in Nat /\ n + 1 \in Nat /\ (j - 1) * (n + 1) \in Nat  BY <1>1, <1>2
      <4> QED  BY <1>1, <1>2, <3>2, <4>1 DEF Spent
    <3>3. CASE b # 0
      <4>1. PICK x, y, z : /\ x = b - 1 /\ y = j - b /\ z = n + 1 /\ j - 1 = x + y
                           /\ x \in Nat /\ y \in Nat /\ z \in Nat
        BY <1>1, <1>2, <3>1, <3>3
      <4>2. (x + y) * z = x * z + y * z /\ x * z \in Nat /\ y * z \in Nat  BY <4>1
      <4> QED  BY <1>1, <1>2, <3>1, <3>3, <4>1, <4>2 DEF Spent
    <3> QED  BY <3>2, <3>3
  <2>2. r <= Spent(p, b) + (i - 1)  BY DEF Underway
  <2> QED  BY <1>2, <1>3, <1>1, <2>1, <2>2
<1>8. k \in 1..(n + 1) /\ k \in 0..n /\ k # 0 /\ j \in 1..(m + 1) /\ j \in 1..j /\ r + 1 \in Nat
  BY <1>1, <1>2, <1>3
<1> QED  BY <1>1, <1>5, <1>6, <1>7, <1>8 DEF Underway

\* A place that takes the character leads on.
LEMMA TakesOne ==
    ASSUME SegmentAssumption,
           NEW p \in Seq(Chars), NEW s \in Seq(Chars), NEW i, NEW j, NEW a, NEW b, NEW r,
           Underway(p, s, i, j, a, b, r), j <= Len(s), i <= Len(p), p[i] # "*",
           Takes(p, i, s[j]), NEW k, k = NextPlace(p, i), k \in (i + 1)..(Len(p) + 1)
    PROVE  Underway(p, s, k, j + 1, a, b, r + 1)
<1>1. PICK n, m : n = Len(p) /\ n \in Nat /\ m = Len(s) /\ m \in Nat  BY LenProperties
<1>2. i \in 1..n /\ j \in 1..m /\ r \in Nat /\ a \in 0..n /\ b \in 0..j
      /\ IF a = 0 THEN b = 0 ELSE b \in 1..j
  BY <1>1 DEF Underway
<1>3. \A y \in 1..(m + 1) : MeansFrom(p, s, i, y) =>
        y <= m /\ MeansFrom(p, s, k, y + 1)
  BY <1>1, <1>2, MeansPlace
<1>4. MeansFrom(p, s, k, j + 1) => MeansFrom(p, s, i, j)
  <2>1. j \in 1..(m + 1)  BY <1>1, <1>2
  <2> QED  BY <1>1, <1>2, <2>1, MeansPlace
<1>5. StillMeans(p, s, k, j + 1, a, b)
  <2>1. j \in 1..(m + 1)  BY <1>1, <1>2
  <2>2. MeansFrom(p, s, i, j) <=> MeansFrom(p, s, k, j + 1)  BY <1>3, <1>4, <2>1
  <2>3. StillMeans(p, s, i, j, a, b)  BY DEF Underway
  <2> QED  BY <2>2, <2>3 DEF StillMeans
<1>6. SinceStar(p, s, k, j + 1, a, b)
  <2>1. ASSUME a # 0, NEW y \in 1..(Len(s) + 1), MeansFrom(p, s, a, y)
        PROVE  y + ((j + 1) - b) <= Len(s) + 1 /\ MeansFrom(p, s, k, y + ((j + 1) - b))
    <3>1. PICK d : d = y + (j - b) /\ d <= m + 1 /\ MeansFrom(p, s, i, d)
      BY <1>1, <2>1 DEF Underway, SinceStar
    <3>2. d \in 1..(m + 1) /\ y + ((j + 1) - b) = d + 1  BY <1>1, <1>2, <2>1, <3>1
    <3>3. d <= m /\ MeansFrom(p, s, k, d + 1)  BY <1>3, <3>1, <3>2
    <3> QED  BY <1>1, <3>2, <3>3
  <2> QED  BY <2>1, Zenon DEF SinceStar
<1>7. r + 1 <= Spent(p, b) + (k - 1)
  <2>1. r <= Spent(p, b) + (i - 1)  BY DEF Underway
  <2>2. Spent(p, b) \in Nat
    <3>1. b # 0 => b - 1 \in Nat /\ n + 1 \in Nat /\ (b - 1) * (n + 1) \in Nat
      BY <1>1, <1>2
    <3> QED  BY <1>1, <3>1 DEF Spent
  <2> QED  BY <1>1, <1>2, <2>1, <2>2
<1>8. k \in 1..(n + 1) /\ j + 1 \in 1..(m + 1) /\ r + 1 \in Nat
      /\ IF a = 0 THEN b = 0 ELSE b \in 1..(j + 1)
  BY <1>1, <1>2
<1> QED  BY <1>1, <1>2, <1>5, <1>6, <1>7, <1>8 DEF Underway

\* Where the next character finds no place.
Stuck(p, s, i, j) == i <= Len(p) => p[i] # "*" /\ ~Takes(p, i, s[j])

LEMMA StuckMeansNothing ==
    ASSUME SegmentAssumption, NEW p \in Seq(Chars), NEW s \in Seq(Chars),
           NEW i \in 1..(Len(p) + 1), NEW j \in 1..Len(s), Stuck(p, s, i, j)
    PROVE  ~MeansFrom(p, s, i, j)
<1>1. PICK n, m : n = Len(p) /\ n \in Nat /\ m = Len(s) /\ m \in Nat  BY LenProperties
<1>2. CASE i <= n
  <2>1. i \in 1..n /\ j \in 1..(m + 1)  BY <1>1, <1>2
  <2> QED  BY <1>1, <1>2, <2>1, MeansPlace DEF Stuck
<1>3. CASE ~(i <= n)
  <2>1. i = n + 1  BY <1>1, <1>3
  <2> QED  BY <1>1, <2>1, MeansNothing
<1> QED  BY <1>2, <1>3

\* The last star takes one more character.
LEMMA GoesBack ==
    ASSUME SegmentAssumption,
           NEW p \in Seq(Chars), NEW s \in Seq(Chars), NEW i, NEW j, NEW a, NEW b, NEW r,
           Underway(p, s, i, j, a, b, r), j <= Len(s), Stuck(p, s, i, j), a # 0
    PROVE  Underway(p, s, a, b + 1, a, b + 1, r + 1)
<1>1. PICK n, m : n = Len(p) /\ n \in Nat /\ m = Len(s) /\ m \in Nat  BY LenProperties
<1>2. i \in 1..(n + 1) /\ j \in 1..m /\ r \in Nat /\ a \in 1..n /\ b \in 1..j
  BY <1>1 DEF Underway
<1>3. ~MeansFrom(p, s, i, j)  BY <1>1, <1>2, StuckMeansNothing
<1>4. StillMeans(p, s, a, b + 1, a, b + 1)
  <2>1. \A y : y \in (b + 1)..(m + 1) <=> y = b + 1 \/ y \in (b + 1 + 1)..(m + 1)
    BY <1>1, <1>2
  <2>2. Means(p, s) <=> \E y \in (b + 1)..(m + 1) : MeansFrom(p, s, a, y)
    BY <1>1, <1>3 DEF Underway, StillMeans
  <2> QED  BY <1>1, <2>1, <2>2 DEF StillMeans
<1>5. SinceStar(p, s, a, b + 1, a, b + 1)
  <2>1. ASSUME NEW y \in 1..(Len(s) + 1), MeansFrom(p, s, a, y)
        PROVE  /\ y + ((b + 1) - (b + 1)) <= Len(s) + 1
               /\ MeansFrom(p, s, a, y + ((b + 1) - (b + 1)))
    <3>1. y + ((b + 1) - (b + 1)) = y /\ y <= Len(s) + 1  BY <1>1, <1>2
    <3> QED  BY <2>1, <3>1
  <2> QED  BY <2>1, Zenon DEF SinceStar
<1>6. r + 1 <= Spent(p, b + 1) + (a - 1)
  <2>1. PICK x, z : /\ x = b - 1 /\ z = n + 1 /\ (b + 1) - 1 = x + 1 /\ x \in Nat /\ z \in Nat
                    /\ b # 0 /\ b + 1 # 0
    BY <1>1, <1>2
  <2>2. (x + 1) * z = x * z + z /\ x * z \in Nat  BY <2>1
  <2>3. Spent(p, b) = x * z /\ Spent(p, b + 1) = x * z + z
    <3>1. b # 0 /\ b + 1 # 0  BY <2>1
    <3>2. Spent(p, b) = (b - 1) * (Len(p) + 1)  BY <3>1, Zenon DEF Spent
    <3>3. Spent(p, b + 1) = ((b + 1) - 1) * (Len(p) + 1)  BY <3>1, Zenon DEF Spent
    <3>4. b - 1 = x /\ (b + 1) - 1 = x + 1 /\ Len(p) + 1 = z  BY <1>1, <2>1
    <3> QED  BY <2>2, <3>2, <3>3, <3>4
  <2>4. r <= x * z + (i - 1)  BY <2>3 DEF Underway
  <2> QED  BY <1>1, <1>2, <2>1, <2>2, <2>3, <2>4
<1>7. /\ a \in 1..(n + 1) /\ a \in 0..n /\ b + 1 \in 1..(m + 1) /\ b + 1 \in 1..(b + 1)
      /\ r + 1 \in Nat
  BY <1>1, <1>2
<1> QED  BY <1>1, <1>4, <1>5, <1>6, <1>7 DEF Underway

\* At the end of the name the last star cannot have taken less.
LEMMA EndsWithName ==
    ASSUME NEW p \in Seq(Chars), NEW s \in Seq(Chars), NEW i, NEW j, NEW a, NEW b, NEW r,
           Underway(p, s, i, j, a, b, r), ~(j <= Len(s))
    PROVE  Means(p, s) <=> AfterStars(p, i) > Len(p)
<1>1. PICK n, m : n = Len(p) /\ n \in Nat /\ m = Len(s) /\ m \in Nat  BY LenProperties
<1>2. i \in 1..(n + 1) /\ j = m + 1  BY <1>1 DEF Underway
<1>3. ~(a # 0 /\ \E k \in (b + 1)..(m + 1) : MeansFrom(p, s, a, k))
  <2>1. SUFFICES ASSUME a # 0, NEW k \in (b + 1)..(m + 1), MeansFrom(p, s, a, k) PROVE FALSE
    OBVIOUS
  <2>2. b \in 1..j /\ k \in 1..(m + 1)  BY <1>1, <1>2, <2>1 DEF Underway
  <2>3. k + (j - b) <= m + 1  BY <1>1, <2>1, <2>2 DEF Underway, SinceStar
  <2> QED  BY <1>1, <1>2, <2>1, <2>2, <2>3
<1>4. Means(p, s) <=> Skips(p, i, n + 1)
  <2>1. Means(p, s) <=> MeansFrom(p, s, i, m + 1)
    BY <1>1, <1>2, <1>3 DEF Underway, StillMeans
  <2> QED  BY <1>1, <1>2, <2>1, MeansAtEnd
<1>5. PICK k : k = AfterStars(p, i)  OBVIOUS
<1>6. k \in i..(n + 1) /\ (\A x \in i..(k - 1) : p[x] = "*") /\ (Has(p, k) => p[k] # "*")
  BY <1>1, <1>2, <1>5, AfterStarsIs
<1>7. ASSUME k > n PROVE Skips(p, i, n + 1)
  <2>1. k = n + 1  BY <1>1, <1>2, <1>6, <1>7
  <2> QED  BY <1>2, <1>6, <2>1 DEF Skips
<1>8. ASSUME ~(k > n) PROVE ~Skips(p, i, n + 1)
  <2>1. k \in i..((n + 1) - 1) /\ p[k] # "*"  BY <1>1, <1>2, <1>6, <1>8 DEF Has
  <2>2. SUFFICES ASSUME Skips(p, i, n + 1) PROVE FALSE  OBVIOUS
  <2>3. \A x \in i..((n + 1) - 1) : p[x] = "*"  BY <2>2, Zenon DEF Skips
  <2> QED  BY <2>1, <2>3
<1> QED  BY <1>1, <1>4, <1>5, <1>7, <1>8

\* A round more is within the bound.
LEMMA WithinBound ==
    ASSUME NEW p \in Seq(Chars), NEW s \in Seq(Chars), NEW i, NEW j, NEW a, NEW b, NEW r,
           Underway(p, s, i, j, a, b, r)
    PROVE  r + 1 <= (Len(p) + 1) * (Len(s) + 1)
<1>1. PICK n, m : n = Len(p) /\ n \in Nat /\ m = Len(s) /\ m \in Nat  BY LenProperties
<1>2. i \in 1..(n + 1) /\ j \in 1..(m + 1) /\ r \in Nat /\ b \in 0..(m + 1)
  BY <1>1 DEF Underway
<1>3. PICK c : c = (IF b = 0 THEN 0 ELSE b - 1) /\ c \in 0..m  BY <1>1, <1>2
<1>4. PICK d, z : d = m - c /\ d \in Nat /\ z = n + 1 /\ z \in Nat /\ m + 1 = c + d + 1
  BY <1>1, <1>3
<1>5. z * (c + d + 1) = c * z + d * z + z /\ c * z \in Nat /\ d * z \in Nat
  <2>1. c \in Nat /\ d \in Nat /\ z \in Nat  BY <1>1, <1>3, <1>4
  <2>2. \A u, v, w \in Nat :
          w * (u + v + 1) = u * w + v * w + w /\ u * w \in Nat
    OBVIOUS
  <2> QED  BY <2>1, <2>2
<1>6. Spent(p, b) = c * z
  <2>1. CASE b = 0
    <3>1. c = 0 /\ c * z = 0  BY <1>3, <1>4, <2>1
    <3> QED  BY <2>1, <3>1 DEF Spent
  <2>2. CASE b # 0  BY <1>1, <1>3, <1>4, <2>2 DEF Spent
  <2> QED  BY <2>1, <2>2
<1>7. r <= c * z + (i - 1)  BY <1>6 DEF Underway
<1>8. PICK x, y : x = c * z /\ x \in Nat /\ y = d * z /\ y \in Nat  BY <1>5
<1>9. r + 1 <= x + y + z
  <2>1. r <= x + (i - 1)  BY <1>7, <1>8
  <2>2. r \in Nat /\ i \in 1..z /\ z \in Nat  BY <1>1, <1>2, <1>4
  <2>3. x \in Nat /\ y \in Nat  BY <1>8, Zenon
  <2> QED  BY <2>1, <2>2, <2>3
<1>10. z * (c + d + 1) = x + y + z  BY <1>5, <1>8
<1> QED  BY <1>1, <1>4, <1>9, <1>10

-----------------------------------------------------------------------------
(***************************************************************************)
(* Every round keeps this.                                                 *)
(***************************************************************************)

Matches == [pattern : Seq(Chars), name : Seq(Chars), pidx : Nat, sidx : Nat,
            star_pidx : Nat, star_sidx : Nat, rounds : Nat,
            result : {"none", "yes", "no"}]

Going(m) == Underway(m.pattern, m.name, m.pidx, m.sidx, m.star_pidx, m.star_sidx, m.rounds)
Exact(m) == ((m.result = "yes") <=> Means(m.pattern, m.name))
Bounded(m) == m.rounds <= (Len(m.pattern) + 1) * (Len(m.name) + 1)

Sound(m) ==
    /\ m \in Matches
    /\ m.result = "none" => Going(m)
    /\ m.result # "none" => Exact(m)
    /\ Bounded(m)

Fields(w, p, s, i, j, a, b, r, verdict) ==
    /\ w \in Matches /\ w.pattern = p /\ w.name = s /\ w.pidx = i /\ w.sidx = j
    /\ w.star_pidx = a /\ w.star_sidx = b /\ w.rounds = r /\ w.result = verdict

LEMMA Counted ==
    ASSUME NEW u, NEW p, NEW s, NEW i, NEW j, NEW a, NEW b, NEW r \in Nat, NEW verdict,
           Fields(u, p, s, i, j, a, b, r, verdict)
    PROVE  Fields([u EXCEPT !.rounds = @ + 1], p, s, i, j, a, b, r + 1, verdict)
<1>1. PICK w : w = [u EXCEPT !.rounds = @ + 1]  OBVIOUS
<1>2. u \in Matches  BY DEF Fields
<1>3. w \in Matches  BY <1>1, <1>2 DEF Matches, Fields
<1>4. /\ w.pattern = u.pattern /\ w.name = u.name /\ w.pidx = u.pidx /\ w.sidx = u.sidx
      /\ w.star_pidx = u.star_pidx /\ w.star_sidx = u.star_sidx
      /\ w.rounds = u.rounds + 1 /\ w.result = u.result
  BY <1>1, <1>2 DEF Matches
<1> QED  BY <1>1, <1>3, <1>4 DEF Fields

LEMMA Returns ==
    ASSUME NEW m \in Matches, m.result = "none", Going(m), NEW v \in BOOLEAN,
           v <=> Means(m.pattern, m.name), NEW w, w = [Done(m, v) EXCEPT !.rounds = @ + 1]
    PROVE  Sound(w)
<1>1. m.pattern \in Seq(Chars) /\ m.name \in Seq(Chars) /\ m.rounds \in Nat  BY DEF Matches
<1>2. m.rounds + 1 <= (Len(m.pattern) + 1) * (Len(m.name) + 1)
  BY <1>1, WithinBound DEF Going
<1>3. PICK verdict \in {"yes", "no"} : verdict = IF v THEN "yes" ELSE "no"  OBVIOUS
<1>4. Fields(Done(m, v), m.pattern, m.name, m.pidx, m.sidx, m.star_pidx, m.star_sidx,
             m.rounds, verdict)
  <2>1. PICK u : u = [m EXCEPT !.result = verdict]  OBVIOUS
  <2>2. u \in Matches  BY <1>3, <2>1 DEF Matches
  <2>3. /\ u.pattern = m.pattern /\ u.name = m.name /\ u.pidx = m.pidx /\ u.sidx = m.sidx
        /\ u.star_pidx = m.star_pidx /\ u.star_sidx = m.star_sidx
        /\ u.rounds = m.rounds /\ u.result = verdict
    BY <2>1 DEF Matches
  <2>4. u = Done(m, v)  BY <1>3, <2>1 DEF Done
  <2> QED  BY <2>2, <2>3, <2>4 DEF Fields
<1>5. Fields(w, m.pattern, m.name, m.pidx, m.sidx, m.star_pidx, m.star_sidx,
             m.rounds + 1, verdict)
  BY <1>1, <1>4, Counted
<1>6. verdict # "none" /\ ((verdict = "yes") <=> v)  BY <1>3
<1> QED  BY <1>2, <1>5, <1>6 DEF Fields, Sound, Exact, Bounded

LEMMA GoesOn ==
    ASSUME NEW m \in Matches, Going(m), NEW i, NEW j, NEW a, NEW b, NEW u,
           Fields(u, m.pattern, m.name, i, j, a, b, m.rounds, "none"),
           Underway(m.pattern, m.name, i, j, a, b, m.rounds + 1),
           NEW w, w = [u EXCEPT !.rounds = @ + 1]
    PROVE  Sound(w)
<1>1. m.pattern \in Seq(Chars) /\ m.name \in Seq(Chars) /\ m.rounds \in Nat  BY DEF Matches
<1>2. m.rounds + 1 <= (Len(m.pattern) + 1) * (Len(m.name) + 1)
  BY <1>1, WithinBound DEF Going
<1>3. Fields(w, m.pattern, m.name, i, j, a, b, m.rounds + 1, "none")
  BY <1>1, Counted
<1> QED  BY <1>2, <1>3 DEF Fields, Sound, Going, Bounded

\* One round, whatever it meets, keeps the verdict within reach: nothing the pattern
\* means is lost by returning to the last star only.
THEOREM RoundSound ==
    ASSUME SegmentAssumption, NEW m, Sound(m), m.result = "none"
    PROVE  Sound(Round(m))
<1>1. m \in Matches /\ Going(m)  BY DEF Sound
<1>2. PICK p \in Seq(Chars), s \in Seq(Chars) : p = m.pattern /\ s = m.name
  BY <1>1 DEF Matches
<1>3. PICK i, j, a, b, r :
        /\ i = m.pidx /\ j = m.sidx /\ a = m.star_pidx /\ b = m.star_sidx /\ r = m.rounds
        /\ i \in Nat /\ j \in Nat /\ a \in Nat /\ b \in Nat /\ r \in Nat
  BY <1>1 DEF Matches
<1>4. Underway(p, s, i, j, a, b, r)  BY <1>1, <1>2, <1>3 DEF Going
<1>5. PICK n, l : n = Len(p) /\ n \in Nat /\ l = Len(s) /\ l \in Nat  BY LenProperties
<1>6. i \in 1..(n + 1) /\ j \in 1..(l + 1) /\ a \in 0..n  BY <1>4, <1>5 DEF Underway
<1>7. CASE ~Has(s, j)
  <2>1. PICK v \in BOOLEAN : v <=> AfterStars(p, i) > Len(p)
    <3>1. CASE AfterStars(p, i) > Len(p)  BY <3>1
    <3>2. CASE ~(AfterStars(p, i) > Len(p))  BY <3>2
    <3> QED  BY <3>1, <3>2
  <2>2. Round(m) = [Done(m, v) EXCEPT !.rounds = @ + 1]
    <3>1. Done(m, v) = Done(m, AfterStars(p, i) > Len(p))  BY <2>1 DEF Done
    <3> QED  BY <1>2, <1>3, <1>7, <3>1 DEF Round, Advance
  <2>3. v <=> Means(p, s)  BY <1>4, <1>7, <2>1, EndsWithName DEF Has
  <2> QED  BY <1>1, <1>2, <2>2, <2>3, Returns
<1>8. CASE Has(s, j) /\ Has(p, i) /\ p[i] = "*"
  <2>1. PICK k : k = AfterStars(p, i)  OBVIOUS
  <2>2. k \in i..(n + 1)  BY <1>5, <1>6, <2>1, AfterStarsIs
  <2>3. Means(p, s) <=> \E y \in j..(l + 1) : MeansFrom(p, s, k, y)
    BY <1>4, <1>5, <1>8, <2>1, MeetsStar DEF Has
  <2>4. CASE k > Len(p)
    <3>1. Advance(m) = Done(m, TRUE)  BY <1>2, <1>3, <1>8, <2>1, <2>4 DEF Advance
    <3>2. k = n + 1 /\ n + 1 \in 1..(n + 1)  BY <1>5, <1>6, <2>2, <2>4
    <3>3. Skips(p, n + 1, n + 1)
      <4>1. (n + 1)..((n + 1) - 1) = {}  BY <1>5
      <4> QED  BY <1>5, <4>1 DEF Skips
    <3>4. MeansFrom(p, s, n + 1, l + 1)  BY <1>5, <3>2, <3>3, MeansAtEnd
    <3>5. l + 1 \in j..(l + 1)  BY <1>5, <1>6
    <3>6. Means(p, s)  BY <2>3, <3>2, <3>4, <3>5
    <3>7. Round(m) = [Done(m, TRUE) EXCEPT !.rounds = @ + 1]  BY <3>1 DEF Round
    <3> QED  BY <1>1, <1>2, <3>6, <3>7, Returns
  <2>5. CASE ~(k > Len(p))
    <3>1. Underway(p, s, k, j, k, j, r + 1)
      <4>1. j <= Len(s) /\ i <= Len(p) /\ k <= Len(p)  BY <1>5, <1>8, <2>2, <2>5 DEF Has
      <4> QED  BY <1>4, <1>8, <2>1, <4>1, GoesPastStar
    <3>2. Advance(m) = [m EXCEPT !.pidx = k, !.star_pidx = k, !.star_sidx = j]
      BY <1>2, <1>3, <1>8, <2>1, <2>5 DEF Advance
    <3>3. k \in Nat  BY <1>5, <1>6, <2>2
    <3>4. Fields(Advance(m), p, s, k, j, k, j, r, "none")
      BY <1>1, <1>2, <1>3, <3>2, <3>3 DEF Fields, Matches
    <3> QED  BY <1>1, <1>2, <1>3, <3>1, <3>4, GoesOn DEF Round
  <2> QED  BY <2>4, <2>5
<1>9. CASE Has(s, j) /\ ~(Has(p, i) /\ p[i] = "*")
  <2>1. j \in 1..l /\ s[j] \in Chars /\ j <= Len(s)
    <3>1. j \in 1..l  BY <1>5, <1>6, <1>9 DEF Has
    <3> QED  BY <1>5, <3>1, ElementOfSeq
  <2>2. Has(p, i) => /\ Against(p, i, s[j]).ok <=> Takes(p, i, s[j])
                     /\ Against(p, i, s[j]).next = NextPlace(p, i)
                     /\ NextPlace(p, i) \in (i + 1)..(n + 1)
    <3>1. SUFFICES ASSUME Has(p, i)
                   PROVE  /\ Against(p, i, s[j]).ok <=> Takes(p, i, s[j])
                          /\ Against(p, i, s[j]).next = NextPlace(p, i)
                          /\ NextPlace(p, i) \in (i + 1)..(n + 1)
      OBVIOUS
    <3>2. i \in 1..Len(p) /\ p[i] # "*"  BY <1>5, <1>6, <1>9, <3>1 DEF Has
    <3> QED  BY <1>5, <2>1, <3>2, AgainstIs
  <2>3. CASE Has(p, i) /\ Against(p, i, s[j]).ok
    <3>1. PICK k : k = NextPlace(p, i) /\ k \in (i + 1)..(n + 1)  BY <2>2, <2>3
    <3>2. Underway(p, s, k, j + 1, a, b, r + 1)
      <4>1. i <= Len(p) /\ p[i] # "*"  BY <1>9, <2>3 DEF Has
      <4> QED  BY <1>4, <1>5, <2>1, <2>2, <2>3, <3>1, <4>1, TakesOne
    <3>3. Advance(m) = [m EXCEPT !.sidx = @ + 1, !.pidx = k]
      BY <1>2, <1>3, <1>9, <2>2, <2>3, <3>1 DEF Advance
    <3>4. k \in Nat /\ j + 1 \in Nat  BY <1>3, <1>5, <1>6, <3>1
    <3>5. Fields(Advance(m), p, s, k, j + 1, a, b, r, "none")
      BY <1>1, <1>2, <1>3, <3>3, <3>4 DEF Fields, Matches
    <3> QED  BY <1>1, <1>2, <1>3, <3>2, <3>5, GoesOn DEF Round
  <2>4. CASE ~(Has(p, i) /\ Against(p, i, s[j]).ok)
    <3>1. Stuck(p, s, i, j)  BY <1>9, <2>2, <2>4 DEF Stuck, Has
    <3>2. CASE a = 0
      <4>1. Advance(m) = Done(m, FALSE)
        BY <1>2, <1>3, <1>9, <2>4, <3>2 DEF Advance
      <4>2. ~MeansFrom(p, s, i, j)  BY <1>5, <1>6, <2>1, <3>1, StuckMeansNothing
      <4>3. ~Means(p, s)  BY <1>4, <3>2, <4>2 DEF Underway, StillMeans
      <4>4. Round(m) = [Done(m, FALSE) EXCEPT !.rounds = @ + 1]  BY <4>1 DEF Round
      <4> QED  BY <1>1, <1>2, <4>3, <4>4, Returns
    <3>3. CASE a # 0
      <4>1. Advance(m) = Backtrack(m)  BY <1>2, <1>3, <1>9, <2>4, <3>3 DEF Advance
      <4>2. Underway(p, s, a, b + 1, a, b + 1, r + 1)
        BY <1>4, <2>1, <3>1, <3>3, GoesBack
      <4>3. b + 1 \in Nat  BY <1>3
      <4>4. Fields(Advance(m), p, s, a, b + 1, a, b + 1, r, "none")
        BY <1>1, <1>2, <1>3, <4>1, <4>3 DEF Fields, Matches, Backtrack
      <4> QED  BY <1>1, <1>2, <1>3, <4>2, <4>4, GoesOn DEF Round
    <3> QED  BY <3>2, <3>3
  <2> QED  BY <2>3, <2>4
<1> QED  BY <1>7, <1>8, <1>9

\* SegmentsExact: the loop that returns to its last star only finds a match exactly
\* if there is one, in no more than (pattern + 1) * (name + 1) rounds.
THEOREM MatcherExact == MatchSpec => []SegmentsExact
<1> USE SegmentAssumption
<1>1. InitMatch => Sound(match)
  <2>1. SUFFICES ASSUME NEW p \in Patterns, NEW s \in Strings, match = Matching(p, s)
                 PROVE  Sound(match)
    BY DEF InitMatch
  <2>2. p \in Seq(Chars) /\ s \in Seq(Chars)  BY DEF SegmentAssumption, Chars
  <2>3. /\ match \in Matches /\ match.pattern = p /\ match.name = s /\ match.pidx = 1
        /\ match.sidx = 1 /\ match.star_pidx = 0 /\ match.star_sidx = 0
        /\ match.rounds = 0 /\ match.result = "none"
    BY <2>1, <2>2 DEF Matching, Matches
  <2>4. Underway(p, s, 1, 1, 0, 0, 0)  BY <2>2, Begins
  <2>5. 0 + 1 <= (Len(p) + 1) * (Len(s) + 1)  BY <2>2, <2>4, WithinBound
  <2>6. 0 <= (Len(p) + 1) * (Len(s) + 1)
    <3>1. Len(p) \in Nat /\ Len(s) \in Nat  BY <2>2, LenProperties
    <3>2. \A x, y \in Nat : (x + 1) * (y + 1) \in Nat  OBVIOUS
    <3>3. (Len(p) + 1) * (Len(s) + 1) \in Nat  BY <3>1, <3>2
    <3> QED  BY <3>3
  <2> QED  BY <2>3, <2>4, <2>6 DEF Sound, Going, Bounded
<1>2. Sound(match) /\ [MatchRound]_match => Sound(match)'
  <2>1. SUFFICES ASSUME Sound(match), [MatchRound]_match PROVE Sound(match')
    BY DEF Sound, Going, Exact, Bounded
  <2>2. CASE MatchRound  BY <2>1, <2>2, RoundSound DEF MatchRound
  <2>3. CASE match' = match  BY <2>1, <2>3
  <2> QED  BY <2>1, <2>2, <2>3
<1>3. Sound(match) => SegmentsExact  BY DEF Sound, Exact, Bounded, SegmentsExact
<1> QED  BY <1>1, <1>2, <1>3, PTL DEF MatchSpec

(***************************************************************************)
(* Addresses: splitting a text and joining its segments.                   *)
(***************************************************************************)
LEMMA Induction ==
    ASSUME NEW S \in SUBSET Nat, 0 \in S, \A k \in S : k + 1 \in S
    PROVE  S = Nat
<1>1. SUFFICES ASSUME Nat \ S # {} PROVE FALSE  OBVIOUS
<1>2. PICK m \in Nat \ S : \A n \in Nat \ S : m <= n  BY <1>1, LeastNatural
<1>3. m # 0 /\ m - 1 \in Nat /\ ~(m <= m - 1)  BY <1>2
<1>4. m - 1 \in S  BY <1>2, <1>3
<1> QED  BY <1>2, <1>3, <1>4

StepsWithin(step, n, V) == \A i \in 1..n, v \in V : step[<<i, v>>] \in V
Iterates(f, n, base, step) == f[0] = base /\ \A i \in 1..n : f[i] = step[<<i, f[i - 1]>>]

\* A loop whose body takes values of V to values of V has a value after each round.
LEMMA Recursion ==
    ASSUME NEW n \in Nat, NEW V, NEW base \in V,
           NEW step, StepsWithin(step, n, V)
    PROVE  \E f \in [0..n -> V] : Iterates(f, n, base, step)
<1> USE DEF StepsWithin, Iterates
<1> DEFINE Run(k) ==
        \E f \in [0..k -> V] : f[0] = base /\ \A i \in 1..k : f[i] = step[<<i, f[i - 1]>>]
<1>1. Run(0)
  <2>1. PICK f : f = [x \in 0..0 |-> base]  OBVIOUS
  <2> QED  BY <2>1
<1>2. ASSUME NEW k \in 0..(n - 1), Run(k) PROVE Run(k + 1)
  <2>1. PICK f \in [0..k -> V] : f[0] = base /\ \A i \in 1..k : f[i] = step[<<i, f[i - 1]>>]
    BY <1>2
  <2>2. PICK v : v = step[<<k + 1, f[k]>>]  OBVIOUS
  <2>3. v \in V  BY <2>1, <2>2
  <2>4. PICK h : h = [x \in 0..(k + 1) |-> IF x = k + 1 THEN v ELSE f[x]]  OBVIOUS
  <2>5. h \in [0..(k + 1) -> V]  BY <2>1, <2>3, <2>4
  <2>6. h[0] = base  BY <2>1, <2>4
  <2>7. ASSUME NEW i \in 1..(k + 1) PROVE h[i] = step[<<i, h[i - 1]>>]
    <3>1. h[i - 1] = f[i - 1]  BY <2>4
    <3>2. CASE i = k + 1
      <4>1. i - 1 = k /\ h[i] = v  BY <2>4, <3>2
      <4> QED  BY <2>2, <3>1, <3>2, <4>1
    <3>3. CASE i \in 1..k  BY <2>1, <2>4, <3>1, <3>3
    <3> QED  BY <3>2, <3>3
  <2> QED  BY <2>5, <2>6, <2>7
<1>3. SUFFICES Run(n)  OBVIOUS
<1> HIDE DEF Run
<1>4. PICK S : S = {k \in Nat : k <= n => Run(k)}  OBVIOUS
<1>5. \A k \in Nat : k \in S => k + 1 \in S
  <2> TAKE k \in Nat
  <2> SUFFICES ASSUME k \in S, k + 1 <= n PROVE Run(k + 1)  BY <1>4
  <2> QED  BY <1>2, <1>4
<1>6. 0 \in S  BY <1>1, <1>4
<1>7. S = Nat  BY <1>4, <1>5, <1>6, Induction
<1> QED  BY <1>4, <1>7
LEMMA UpTo ==
    ASSUME NEW n \in Nat, NEW S, 0 \in S, \A i \in 1..n : i - 1 \in S => i \in S
    PROVE  \A i \in 0..n : i \in S
<1>1. PICK T : T = {k \in Nat : k <= n => k \in S}  OBVIOUS
<1>2. 0 \in T  BY <1>1
<1>3. \A k \in T : k + 1 \in T
  <2> TAKE k \in T
  <2> SUFFICES ASSUME k + 1 <= n PROVE k + 1 \in S  BY <1>1
  <2>1. k \in S /\ k + 1 \in 1..n /\ (k + 1) - 1 = k  BY <1>1
  <2> QED  BY <2>1
<1>4. T = Nat  BY <1>1, <1>2, <1>3, Induction
<1> QED  BY <1>1, <1>4

\* Two loops that begin and go on alike.
Alike(f, g, n) == f[0] = g[0] /\ \A i \in 1..n : f[i - 1] = g[i - 1] => f[i] = g[i]
LEMMA SameLoop ==
    ASSUME NEW n \in Nat, NEW f, NEW g, Alike(f, g, n)
    PROVE  f[n] = g[n]
<1> USE DEF Alike
<1>1. PICK S : S = {i \in 0..n : f[i] = g[i]}  OBVIOUS
<1>2. 0 \in S  BY <1>1
<1>3. \A i \in 1..n : i - 1 \in S => i \in S  BY <1>1
<1>4. \A i \in 0..n : i \in S  BY <1>2, <1>3, UpTo
<1> QED  BY <1>1, <1>4
-----------------------------------------------------------------------------
SplitRound(t, i, segments) ==
    IF t[i] = "/" THEN segments
    ELSE IF i > 1 /\ t[i - 1] # "/"
    THEN [segments EXCEPT ![Len(segments)] = Append(@, t[i])]
    ELSE Append(segments, <<t[i]>>)
SplitLoop(t) ==
    CHOOSE g : g = [i \in 0..Len(t) |-> IF i = 0 THEN <<>> ELSE SplitRound(t, i, g[i - 1])]

LEMMA AppendToLast ==
    ASSUME NEW C, NEW v \in Seq(Seq(C)), NEW c \in C
    PROVE  [v EXCEPT ![Len(v)] = Append(@, c)] \in Seq(Seq(C))
<1>1. PICK m : m = Len(v) /\ m \in Nat  BY LenProperties
<1>2. CASE m = 0
  <2>1. [v EXCEPT ![m] = Append(@, c)] = v  BY <1>1, <1>2
  <2> QED  BY <1>1, <2>1
<1>3. CASE m # 0
  <2>1. Append(v[m], c) \in Seq(C)
    <3>1. v[m] \in Seq(C)  BY <1>1, <1>3, ElementOfSeq
    <3> QED  BY <3>1, AppendProperties
  <2> QED  BY <1>1, <1>3, <2>1, ExceptSeq
<1> QED  BY <1>2, <1>3

LEMMA SplitIsLoop ==
    ASSUME NEW C, NEW t \in Seq(C)
    PROVE  \E f \in [0..Len(t) -> Seq(Seq(C))] :
             /\ f[0] = <<>>
             /\ \A i \in 1..Len(t) : f[i] = SplitRound(t, i, f[i - 1])
             /\ SplitSegments(t) = f[Len(t)]
<1>1. PICK n, V : n = Len(t) /\ n \in Nat /\ V = Seq(Seq(C))  BY LenProperties
<1>2. \A i \in 1..n, v \in V : SplitRound(t, i, v) \in V
  <2> TAKE i \in 1..n, v \in V
  <2>1. t[i] \in C  BY <1>1, ElementOfSeq
  <2>2. v \in Seq(Seq(C))  BY <1>1
  <2>3. [v EXCEPT ![Len(v)] = Append(@, t[i])] \in V  BY <1>1, <2>1, <2>2, AppendToLast
  <2>4. <<t[i]>> \in Seq(C)  BY <2>1
  <2>5. Append(v, <<t[i]>>) \in V  BY <1>1, <2>2, <2>4, AppendProperties
  <2> QED  BY <2>3, <2>5 DEF SplitRound
<1>3. PICK step : step = [x \in (1..n) \X V |-> SplitRound(t, x[1], x[2])]  OBVIOUS
<1>4. \A i \in 1..n, v \in V : step[<<i, v>>] = SplitRound(t, i, v)  BY <1>3
<1>5. <<>> \in V  BY <1>1
<1>6. PICK f \in [0..n -> V] : f[0] = <<>> /\ \A i \in 1..n : f[i] = step[<<i, f[i - 1]>>]
  <2>1. StepsWithin(step, n, V)  BY <1>2, <1>4 DEF StepsWithin
  <2>2. PICK f \in [0..n -> V] : Iterates(f, n, <<>>, step)  BY <1>1, <1>5, <2>1, Recursion
  <2> QED  BY <2>2 DEF Iterates
<1>7. \A i \in 1..n : f[i] = SplitRound(t, i, f[i - 1])
  <2> TAKE i \in 1..n
  <2>1. i - 1 \in 0..n  BY <1>1
  <2>2. f[i - 1] \in V  BY <2>1
  <2> QED  BY <1>4, <1>6, <2>2
<1>8. f = [i \in 0..n |-> IF i = 0 THEN <<>> ELSE SplitRound(t, i, f[i - 1])]
  <2>1. \A i \in 0..n : f[i] = IF i = 0 THEN <<>> ELSE SplitRound(t, i, f[i - 1])  BY <1>6, <1>7
  <2> QED  BY <2>1
<1>9. PICK g : g = SplitLoop(t)  OBVIOUS
<1>10. g = [i \in 0..n |-> IF i = 0 THEN <<>> ELSE SplitRound(t, i, g[i - 1])]
  BY <1>1, <1>8, <1>9, Zenon DEF SplitLoop
<1>11. g[0] = <<>> /\ \A i \in 1..n : g[i] = SplitRound(t, i, g[i - 1])  BY <1>1, <1>10
<1>12. \A i \in 1..n : f[i - 1] = g[i - 1] => f[i] = g[i]  BY <1>7, <1>11
<1>13. f[n] = g[n]
  <2>1. Alike(f, g, n)  BY <1>6, <1>11, <1>12 DEF Alike
  <2> QED  BY <1>1, <2>1, SameLoop
<1>14. SplitSegments(t) = g[n]  BY <1>1, <1>9 DEF SplitSegments, SplitLoop, SplitRound
<1> QED  BY <1>1, <1>6, <1>7, <1>13, <1>14
JoinRound(segments, k, text) ==
    IF k = 1 THEN segments[1] ELSE text \o <<"/">> \o segments[k]
JoinLoop(segments) ==
    CHOOSE g : g = [i \in 0..Len(segments) |->
                      IF i = 0 THEN <<>> ELSE JoinRound(segments, i, g[i - 1])]

LEMMA JoinIsLoop ==
    ASSUME NEW C, "/" \in C, NEW s \in Seq(Seq(C))
    PROVE  \E f \in [0..Len(s) -> Seq(C)] :
             /\ f[0] = <<>>
             /\ \A i \in 1..Len(s) : f[i] = JoinRound(s, i, f[i - 1])
             /\ JoinSegments(s) = f[Len(s)]
<1>1. PICK n, V : n = Len(s) /\ n \in Nat /\ V = Seq(C)  BY LenProperties
<1>2. \A i \in 1..n, v \in V : JoinRound(s, i, v) \in V
  <2> TAKE i \in 1..n, v \in V
  <2>1. s[i] \in Seq(C)  BY <1>1, ElementOfSeq
  <2>2. v \in Seq(C) /\ <<"/">> \in Seq(C)  BY <1>1
  <2>3. v \o <<"/">> \in Seq(C)  BY <2>2, ConcatProperties
  <2>4. v \o <<"/">> \o s[i] \in Seq(C)  BY <2>1, <2>3, ConcatProperties
  <2> QED  BY <1>1, <2>1, <2>4 DEF JoinRound
<1>3. PICK step : step = [x \in (1..n) \X V |-> JoinRound(s, x[1], x[2])]  OBVIOUS
<1>4. \A i \in 1..n, v \in V : step[<<i, v>>] = JoinRound(s, i, v)  BY <1>3
<1>5. <<>> \in V  BY <1>1
<1>6. PICK f \in [0..n -> V] : f[0] = <<>> /\ \A i \in 1..n : f[i] = step[<<i, f[i - 1]>>]
  <2>1. StepsWithin(step, n, V)  BY <1>2, <1>4 DEF StepsWithin
  <2>2. PICK f \in [0..n -> V] : Iterates(f, n, <<>>, step)  BY <1>1, <1>5, <2>1, Recursion
  <2> QED  BY <2>2 DEF Iterates
<1>7. \A i \in 1..n : f[i] = JoinRound(s, i, f[i - 1])
  <2> TAKE i \in 1..n
  <2>1. i - 1 \in 0..n  BY <1>1
  <2>2. f[i - 1] \in V  BY <2>1
  <2> QED  BY <1>4, <1>6, <2>2
<1>8. f = [i \in 0..n |-> IF i = 0 THEN <<>> ELSE JoinRound(s, i, f[i - 1])]
  <2>1. \A i \in 0..n : f[i] = IF i = 0 THEN <<>> ELSE JoinRound(s, i, f[i - 1])  BY <1>6, <1>7
  <2> QED  BY <2>1
<1>9. PICK g : g = JoinLoop(s)  OBVIOUS
<1>10. g = [i \in 0..n |-> IF i = 0 THEN <<>> ELSE JoinRound(s, i, g[i - 1])]
  BY <1>1, <1>8, <1>9, Zenon DEF JoinLoop
<1>11. g[0] = <<>> /\ \A i \in 1..n : g[i] = JoinRound(s, i, g[i - 1])
  <2>1. PICK h : h = [i \in 0..n |-> IF i = 0 THEN <<>> ELSE JoinRound(s, i, g[i - 1])]  OBVIOUS
  <2>2. g = h  BY <1>10, <2>1
  <2>3. h[0] = <<>> /\ \A i \in 1..n : h[i] = JoinRound(s, i, g[i - 1])  BY <1>1, <2>1
  <2> QED  BY <2>2, <2>3
<1>12. \A i \in 1..n : f[i - 1] = g[i - 1] => f[i] = g[i]  BY <1>7, <1>11
<1>13. f[n] = g[n]
  <2>1. Alike(f, g, n)  BY <1>6, <1>11, <1>12 DEF Alike
  <2> QED  BY <1>1, <2>1, SameLoop
<1>14. JoinSegments(s) = g[n]  BY <1>1, <1>9 DEF JoinSegments, JoinLoop, JoinRound
<1> QED  BY <1>1, <1>6, <1>7, <1>13, <1>14

Squeezes(s, i) == s[i] # "/" \/ (/\ i > 1 /\ s[i - 1] # "/"
                                 /\ \E j \in i..Len(s) : s[j] # "/")
SqueezeRound(s, i, text) == IF Squeezes(s, i) THEN Append(text, s[i]) ELSE text
SqueezeLoop(s) ==
    CHOOSE g : g = [i \in 0..Len(s) |-> IF i = 0 THEN <<>> ELSE SqueezeRound(s, i, g[i - 1])]

LEMMA SqueezeIsLoop ==
    ASSUME NEW C, NEW s \in Seq(C)
    PROVE  \E f \in [0..Len(s) -> Seq(C)] :
             /\ f[0] = <<>>
             /\ \A i \in 1..Len(s) : f[i] = SqueezeRound(s, i, f[i - 1])
             /\ Squeezed(s) = f[Len(s)]
<1>1. PICK n, V : n = Len(s) /\ n \in Nat /\ V = Seq(C)  BY LenProperties
<1>2. \A i \in 1..n, v \in V : SqueezeRound(s, i, v) \in V
  <2> TAKE i \in 1..n, v \in V
  <2>1. s[i] \in C  BY <1>1, ElementOfSeq
  <2>2. Append(v, s[i]) \in V  BY <1>1, <2>1, AppendProperties
  <2> QED  BY <2>2 DEF SqueezeRound
<1>3. PICK step : step = [x \in (1..n) \X V |-> SqueezeRound(s, x[1], x[2])]  OBVIOUS
<1>4. \A i \in 1..n, v \in V : step[<<i, v>>] = SqueezeRound(s, i, v)  BY <1>3
<1>5. <<>> \in V  BY <1>1
<1>6. PICK f \in [0..n -> V] : f[0] = <<>> /\ \A i \in 1..n : f[i] = step[<<i, f[i - 1]>>]
  <2>1. StepsWithin(step, n, V)  BY <1>2, <1>4 DEF StepsWithin
  <2>2. PICK f \in [0..n -> V] : Iterates(f, n, <<>>, step)  BY <1>1, <1>5, <2>1, Recursion
  <2> QED  BY <2>2 DEF Iterates
<1>7. \A i \in 1..n : f[i] = SqueezeRound(s, i, f[i - 1])
  <2> TAKE i \in 1..n
  <2>1. i - 1 \in 0..n  BY <1>1
  <2>2. f[i - 1] \in V  BY <2>1
  <2> QED  BY <1>4, <1>6, <2>2
<1>8. f = [i \in 0..n |-> IF i = 0 THEN <<>> ELSE SqueezeRound(s, i, f[i - 1])]
  <2>1. \A i \in 0..n : f[i] = IF i = 0 THEN <<>> ELSE SqueezeRound(s, i, f[i - 1])  BY <1>6, <1>7
  <2> QED  BY <2>1
<1>9. PICK g : g = SqueezeLoop(s)  OBVIOUS
<1>10. g = [i \in 0..n |-> IF i = 0 THEN <<>> ELSE SqueezeRound(s, i, g[i - 1])]
  BY <1>1, <1>8, <1>9, Zenon DEF SqueezeLoop
<1>11. g[0] = <<>> /\ \A i \in 1..n : g[i] = SqueezeRound(s, i, g[i - 1])
  <2>1. PICK h : h = [i \in 0..n |-> IF i = 0 THEN <<>> ELSE SqueezeRound(s, i, g[i - 1])]  OBVIOUS
  <2>2. g = h  BY <1>10, <2>1
  <2>3. h[0] = <<>> /\ \A i \in 1..n : h[i] = SqueezeRound(s, i, g[i - 1])  BY <1>1, <2>1
  <2> QED  BY <2>2, <2>3
<1>12. \A i \in 1..n : f[i - 1] = g[i - 1] => f[i] = g[i]  BY <1>7, <1>11
<1>13. f[n] = g[n]
  <2>1. Alike(f, g, n)  BY <1>6, <1>11, <1>12 DEF Alike
  <2> QED  BY <1>1, <2>1, SameLoop
<1>14. Squeezed(s) = g[n]  BY <1>1, <1>9 DEF Squeezed, SqueezeLoop, SqueezeRound, Squeezes
<1> QED  BY <1>1, <1>6, <1>7, <1>13, <1>14

-----------------------------------------------------------------------------
LEMMA SplitNothing == SplitSegments(<<>>) = <<>>
<1>1. PICK t : t = <<>> /\ t \in Seq({}) /\ Len(t) = 0  BY EmptySeq
<1>2. \E f \in [0..Len(t) -> Seq(Seq({}))] : f[0] = <<>> /\ SplitSegments(t) = f[Len(t)]
  BY <1>1, SplitIsLoop
<1> QED  BY <1>1, <1>2

LEMMA SplitOne ==
    ASSUME NEW C, NEW x \in Seq(C), x # <<>>, ~HasSlash(x)
    PROVE  SplitSegments(x) = <<x>>
<1>1. PICK n : n = Len(x) /\ n \in Nat /\ n # 0  BY LenProperties, EmptySeq
<1>2. PICK f \in [0..n -> Seq(Seq(C))] :
        /\ f[0] = <<>>
        /\ \A i \in 1..n : f[i] = SplitRound(x, i, f[i - 1])
        /\ SplitSegments(x) = f[n]
  BY <1>1, SplitIsLoop
<1>3. \A i \in 1..n : x[i] # "/" /\ x[i] \in C
  <2> TAKE i \in 1..n
  <2>1. x[i] \in Range(x)  BY <1>1, RangeEquality DEF Range
  <2> QED  BY <1>1, <2>1, ElementOfSeq DEF HasSlash
<1>4. PICK S : S = {i \in 0..n : i # 0 => f[i] = <<SubSeq(x, 1, i)>>}  OBVIOUS
<1>5. 0 \in S  BY <1>1, <1>4
<1>6. ASSUME NEW i \in 1..n, i - 1 \in S PROVE i \in S
  <2>1. CASE i = 1
    <3>1. f[1] = Append(<<>>, <<x[1]>>)
      <4>1. f[1] = SplitRound(x, 1, <<>>)
        <5>1. 1 \in 1..n /\ 1 - 1 = 0  BY <1>1
        <5> QED  BY <1>2, <5>1
      <4> QED  BY <1>1, <1>3, <4>1 DEF SplitRound
    <3>2. SubSeq(x, 1, 1) = <<x[1]>>
      <4>1. 1 \in 1..Len(x) /\ x[1] \in C /\ <<x[1]>> \in Seq(C)
        <5>1. 1 \in 1..Len(x) /\ x[1] \in C  BY <1>1, <1>3
        <5> QED  BY <5>1
      <4>2. SubSeq(x, 1, 1) = SubSeq(x, 1, 1 - 1) \o <<x[1]>>  BY <4>1, SubSeqRecursiveSecond
      <4>3. SubSeq(x, 1, 1 - 1) = <<>>  BY SubSeqEmpty
      <4> QED  BY <4>1, <4>2, <4>3, ConcatEmptySeq
    <3> QED  BY <1>1, <1>4, <2>1, <3>1, <3>2
  <2>2. CASE i # 1
    <3>1. PICK w : w = SubSeq(x, 1, i - 1)  OBVIOUS
    <3>2. f[i - 1] = <<w>> /\ i - 1 \in 1..n  BY <1>1, <1>4, <1>6, <2>2, <3>1
    <3>3. f[i] = [<<w>> EXCEPT ![Len(<<w>>)] = Append(@, x[i])]
      <4>1. f[i] = SplitRound(x, i, <<w>>)  BY <1>2, <3>2
      <4>2. x[i] # "/" /\ i > 1 /\ x[i - 1] # "/"  BY <1>1, <1>3, <2>2, <3>2
      <4> QED  BY <4>1, <4>2 DEF SplitRound
    <3>4. f[i] = <<Append(w, x[i])>>  BY <3>3
    <3>5. w \in Seq(C)
      <4>1. \A j \in 1..(i - 1) : x[j] \in C  BY <1>1, <1>3
      <4> QED  BY <1>1, <3>1, <4>1, SubSeqProperties
    <3>6. Append(w, x[i]) = w \o <<x[i]>>  BY <1>3, <3>5, AppendIsConcat
    <3>7. SubSeq(x, 1, i) = w \o <<x[i]>>  BY <1>1, <3>1, SubSeqRecursiveSecond
    <3>8. f[i] = <<SubSeq(x, 1, i)>>  BY <3>4, <3>6, <3>7
    <3> QED  BY <1>1, <1>4, <3>8
  <2> QED  BY <2>1, <2>2
<1>7. n \in S
  <2>1. \A i \in 0..n : i \in S  BY <1>1, <1>5, <1>6, UpTo
  <2> QED  BY <1>1, <2>1
<1>8. SubSeq(x, 1, n) = x  BY <1>1, SubSeqFull
<1> QED  BY <1>1, <1>2, <1>4, <1>7, <1>8

\* After a character that is no slash there is a segment to which it belongs.
LEMMA SplitHasLast ==
    ASSUME NEW C, NEW b \in Seq(C), NEW f \in [0..Len(b) -> Seq(Seq(C))], f[0] = <<>>,
           \A i \in 1..Len(b) : f[i] = SplitRound(b, i, f[i - 1])
    PROVE  \A i \in 1..Len(b) : b[i] # "/" => f[i] # <<>>
<1>1. PICK n : n = Len(b) /\ n \in Nat  BY LenProperties
<1>2. PICK S : S = {i \in 0..n : i # 0 /\ b[i] # "/" => f[i] # <<>>}  OBVIOUS
<1>3. 0 \in S  BY <1>1, <1>2
<1>4. ASSUME NEW i \in 1..n, i - 1 \in S PROVE i \in S
  <2>1. SUFFICES ASSUME b[i] # "/" PROVE f[i] # <<>>  BY <1>2
  <2>2. PICK v \in Seq(Seq(C)) : v = f[i - 1]  BY <1>1
  <2>3. b[i] \in C /\ <<b[i]>> \in Seq(C)
    <3>1. b[i] \in C  BY <1>1, ElementOfSeq
    <3> QED  BY <3>1
  <2>4. CASE i > 1 /\ b[i - 1] # "/"
    <3>1. v # <<>> /\ Len(v) \in 1..Len(v)
      <4>1. v # <<>>  BY <1>1, <1>2, <1>4, <2>2, <2>4
      <4>2. Len(v) # 0 /\ Len(v) \in Nat  BY <4>1, EmptySeq, LenProperties
      <4> QED  BY <4>1, <4>2
    <3>2. PICK w : w = [v EXCEPT ![Len(v)] = Append(@, b[i])]  OBVIOUS
    <3>3. v[Len(v)] \in Seq(C)  BY <3>1, ElementOfSeq
    <3>4. Append(v[Len(v)], b[i]) \in Seq(C)  BY <2>3, <3>3, AppendProperties
    <3>5. Len(w) = Len(v)  BY <3>1, <3>2, <3>4, ExceptSeq
    <3>6. w # <<>>  BY <3>1, <3>5, EmptySeq
    <3>7. f[i] = w  BY <1>1, <2>1, <2>2, <2>4, <3>2 DEF SplitRound
    <3> QED  BY <3>6, <3>7
  <2>5. CASE ~(i > 1 /\ b[i - 1] # "/")
    <3>1. f[i] = Append(v, <<b[i]>>)  BY <1>1, <2>1, <2>2, <2>5 DEF SplitRound
    <3>2. PICK e \in Seq(C) : e = <<b[i]>>  BY <2>3
    <3>3. Append(v, e) # <<>>  BY AppendProperties
    <3> QED  BY <3>1, <3>2, <3>3
  <2> QED  BY <2>4, <2>5
<1>5. \A i \in 0..n : i \in S  BY <1>1, <1>3, <1>4, UpTo
<1> QED  BY <1>1, <1>2, <1>5

LEMMA ExtendLast ==
    ASSUME NEW C, NEW A \in Seq(C), NEW B \in Seq(C), B # <<>>, NEW c, NEW d \in C,
           d = c
    PROVE  [A \o B EXCEPT ![Len(A \o B)] = c] = A \o [B EXCEPT ![Len(B)] = c]
<1>1. PICK n, m : n = Len(A) /\ n \in Nat /\ m = Len(B) /\ m \in Nat /\ m # 0
  BY LenProperties, EmptySeq
<1>2. PICK u : u = A \o B  OBVIOUS
<1>3. u \in Seq(C) /\ Len(u) = n + m
      /\ \A i \in 1..(n + m) : u[i] = IF i <= n THEN A[i] ELSE B[i - n]
  BY <1>1, <1>2, ConcatProperties
<1>4. PICK w : w = [u EXCEPT ![n + m] = d]  OBVIOUS
<1>5. w \in Seq(C) /\ Len(w) = n + m
      /\ \A i \in 1..(n + m) : w[i] = IF i = n + m THEN d ELSE u[i]
  <2>1. n + m \in 1..Len(u)  BY <1>1, <1>3
  <2> QED  BY <1>3, <1>4, <2>1, ExceptSeq
<1>6. PICK b : b = [B EXCEPT ![m] = d]  OBVIOUS
<1>7. b \in Seq(C) /\ Len(b) = m /\ \A i \in 1..m : b[i] = IF i = m THEN d ELSE B[i]
  <2>1. m \in 1..Len(B)  BY <1>1
  <2> QED  BY <1>1, <1>6, <2>1, ExceptSeq
<1>8. PICK z : z = A \o b  OBVIOUS
<1>9. z \in Seq(C) /\ Len(z) = n + m
      /\ \A i \in 1..(n + m) : z[i] = IF i <= n THEN A[i] ELSE b[i - n]
  <2>1. b \in Seq(C) /\ Len(b) = m /\ Len(A) = n  BY <1>1, <1>7
  <2> QED  BY <1>8, <2>1, ConcatProperties
<1>10. \A i \in 1..(n + m) : w[i] = z[i]
  <2> TAKE i \in 1..(n + m)
  <2>1. CASE i <= n  BY <1>1, <1>3, <1>5, <1>9, <2>1
  <2>2. CASE ~(i <= n)
    <3>1. i - n \in 1..m /\ (i - n = m <=> i = n + m)  BY <1>1, <2>2
    <3>2. z[i] = b[i - n] /\ u[i] = B[i - n]  BY <1>3, <1>9, <2>2
    <3> QED  BY <1>5, <1>7, <3>1, <3>2
  <2> QED  BY <2>1, <2>2
<1>11. w = z  BY <1>5, <1>9, <1>10, SeqEqual
<1> QED  BY <1>1, <1>2, <1>3, <1>4, <1>6, <1>8, <1>11

\* The segments of two texts with a slash between them.
LEMMA SplitConcat ==
    ASSUME NEW C, "/" \in C, NEW a \in Seq(C), NEW b \in Seq(C)
    PROVE  SplitSegments(a \o <<"/">> \o b) = SplitSegments(a) \o SplitSegments(b)
<1>1. PICK n, m : n = Len(a) /\ n \in Nat /\ m = Len(b) /\ m \in Nat  BY LenProperties
<1>2. PICK t : t = a \o <<"/">> \o b  OBVIOUS
<1>3. /\ t \in Seq(C) /\ Len(t) = (n + 1) + m /\ t[n + 1] = "/"
      /\ \A i \in 1..n : t[i] = a[i]
      /\ \A j \in 1..m : t[(n + 1) + j] = b[j]
  <2>0. PICK d : d = <<"/">>  OBVIOUS
  <2>1. d = <<"/">> /\ d \in Seq(C) /\ Len(d) = 1 /\ d[1] = "/"
    <3>1. d \in Seq(C)  BY <2>0
    <3>2. Len(d) = 1 /\ d[1] = "/"  BY <2>0
    <3> QED  BY <2>0, <3>1, <3>2
  <2>2. PICK u : u = a \o d  OBVIOUS
  <2>3. u \in Seq(C) /\ Len(u) = n + 1
        /\ \A i \in 1..(n + 1) : u[i] = IF i <= n THEN a[i] ELSE d[i - n]
    BY <1>1, <2>1, <2>2, ConcatProperties
  <2>4. t = u \o b  BY <1>2, <2>1, <2>2
  <2>5. t \in Seq(C) /\ Len(t) = (n + 1) + m
        /\ \A i \in 1..((n + 1) + m) : t[i] = IF i <= n + 1 THEN u[i] ELSE b[i - (n + 1)]
    <3>1. u \in Seq(C) /\ Len(u) = n + 1 /\ Len(b) = m  BY <1>1, <2>3
    <3>2. u \o b \in Seq(C) /\ Len(u \o b) = Len(u) + Len(b)
          /\ \A i \in 1..(Len(u) + Len(b)) :
               (u \o b)[i] = IF i <= Len(u) THEN u[i] ELSE b[i - Len(u)]
      BY <3>1, ConcatProperties
    <3> QED  BY <2>4, <3>1, <3>2
  <2>6. t[n + 1] = "/"
    <3>1. t[n + 1] = u[n + 1]  BY <1>1, <2>5
    <3>2. u[n + 1] = d[(n + 1) - n]  BY <1>1, <2>3
    <3>3. (n + 1) - n = 1  BY <1>1
    <3> QED  BY <2>1, <3>1, <3>2, <3>3
  <2>7. \A i \in 1..n : t[i] = a[i]
    <3> TAKE i \in 1..n
    <3>1. t[i] = u[i]  BY <1>1, <2>5
    <3> QED  BY <1>1, <2>3, <3>1
  <2>8. \A j \in 1..m : t[(n + 1) + j] = b[j]
    <3> TAKE j \in 1..m
    <3>1. (n + 1) + j \in 1..((n + 1) + m) /\ ~((n + 1) + j <= n + 1)
          /\ ((n + 1) + j) - (n + 1) = j  BY <1>1
    <3> QED  BY <2>5, <3>1
  <2> QED  BY <2>5, <2>6, <2>7, <2>8
<1>4. PICK f :
        /\ f \in [0..n -> Seq(Seq(C))]
        /\ f[0] = <<>>
        /\ \A i \in 1..n : f[i] = SplitRound(a, i, f[i - 1])
        /\ SplitSegments(a) = f[n]
  BY <1>1, SplitIsLoop
<1>5. PICK g :
        /\ g \in [0..m -> Seq(Seq(C))]
        /\ g[0] = <<>>
        /\ \A i \in 1..m : g[i] = SplitRound(b, i, g[i - 1])
        /\ SplitSegments(b) = g[m]
  BY <1>1, SplitIsLoop
<1>6. PICK h :
        /\ h \in [0..((n + 1) + m) -> Seq(Seq(C))]
        /\ h[0] = <<>>
        /\ \A i \in 1..((n + 1) + m) : h[i] = SplitRound(t, i, h[i - 1])
        /\ SplitSegments(t) = h[(n + 1) + m]
  <2>1. PICK h \in [0..Len(t) -> Seq(Seq(C))] :
          /\ h[0] = <<>>
          /\ \A i \in 1..Len(t) : h[i] = SplitRound(t, i, h[i - 1])
          /\ SplitSegments(t) = h[Len(t)]
    BY <1>3, SplitIsLoop
  <2> QED  BY <1>3, <2>1
<1>7. h[n] = f[n]
  <2>1. ASSUME NEW i \in 1..n, h[i - 1] = f[i - 1] PROVE h[i] = f[i]
    <3>1. PICK v : v = f[i - 1]  OBVIOUS
    <3>2. h[i] = SplitRound(t, i, v)  BY <1>1, <1>6, <2>1, <3>1
    <3>3. f[i] = SplitRound(a, i, v)  BY <1>4, <3>1
    <3>4. t[i] = a[i] /\ (i > 1 => t[i - 1] = a[i - 1])
      <4>1. i > 1 => i - 1 \in 1..n  BY <1>1
      <4> QED  BY <1>3, <4>1
    <3> QED  BY <3>2, <3>3, <3>4 DEF SplitRound
  <2>2. Alike(h, f, n)  BY <1>4, <1>6, <2>1 DEF Alike
  <2> QED  BY <1>1, <2>2, SameLoop
<1>8. h[n + 1] = f[n]
  <2>1. n + 1 \in 1..((n + 1) + m) /\ (n + 1) - 1 = n  BY <1>1
  <2>2. h[n + 1] = SplitRound(t, n + 1, h[n])  BY <1>6, <2>1
  <2> QED  BY <1>3, <1>7, <2>2 DEF SplitRound
<1>9. PICK A \in Seq(Seq(C)) : A = f[n]
  <2>1. n \in 0..n  BY <1>1
  <2>2. f[n] \in Seq(Seq(C))  BY <1>4, <2>1
  <2> QED  BY <2>2
<1>10. PICK S : S = {j \in 0..m : h[(n + 1) + j] = A \o g[j]}  OBVIOUS
<1>11. 0 \in S
  <2>1. (n + 1) + 0 = n + 1 /\ A \o <<>> = A  BY <1>1, <1>9, ConcatEmptySeq
  <2>2. h[(n + 1) + 0] = A \o g[0]  BY <1>5, <1>8, <1>9, <2>1
  <2> QED  BY <1>1, <1>10, <2>2
<1>12. ASSUME NEW j \in 1..m, j - 1 \in S PROVE j \in S
  <2>1. PICK B \in Seq(Seq(C)) : B = g[j - 1]
    <3>1. j - 1 \in 0..m  BY <1>1
    <3>2. g[j - 1] \in Seq(Seq(C))  BY <1>5, <3>1
    <3> QED  BY <3>2
  <2>2. PICK k : k = (n + 1) + j /\ k \in 1..((n + 1) + m) /\ k - 1 = (n + 1) + (j - 1)
                 /\ k > 1
    BY <1>1
  <2>3. h[k] = SplitRound(t, k, A \o B)
    <3>1. h[k - 1] = A \o B  BY <1>10, <1>12, <2>1, <2>2
    <3> QED  BY <1>6, <2>2, <3>1
  <2>4. g[j] = SplitRound(b, j, B)  BY <1>5, <2>1
  <2>5. PICK c \in C : c = b[j] /\ c = t[k] /\ <<c>> \in Seq(C)
    <3>1. b[j] \in C  BY <1>1, ElementOfSeq
    <3>2. t[k] = b[j]  BY <1>3, <2>2
    <3> QED  BY <3>1, <3>2
  <2>6. t[k - 1] # "/" <=> j > 1 /\ b[j - 1] # "/"
    <3>1. CASE j = 1
      <4>1. k - 1 = n + 1  BY <1>1, <2>2, <3>1
      <4> QED  BY <1>3, <3>1, <4>1
    <3>2. CASE j # 1
      <4>1. j - 1 \in 1..m /\ j > 1  BY <1>1, <3>2
      <4>2. t[k - 1] = b[j - 1]  BY <1>3, <2>2, <4>1
      <4> QED  BY <4>1, <4>2
    <3> QED  BY <3>1, <3>2
  <2>7. CASE c = "/"
    <3>1. h[k] = A \o B /\ g[j] = B  BY <2>3, <2>4, <2>5, <2>7 DEF SplitRound
    <3>2. h[(n + 1) + j] = A \o g[j]  BY <2>2, <3>1
    <3> QED  BY <1>1, <1>10, <3>2
  <2>8. CASE c # "/" /\ t[k - 1] # "/"
    <3>1. g[j] = [B EXCEPT ![Len(B)] = Append(@, c)]
      BY <2>4, <2>5, <2>6, <2>8 DEF SplitRound
    <3>2. h[k] = [A \o B EXCEPT ![Len(A \o B)] = Append(@, c)]
      BY <2>2, <2>3, <2>5, <2>8 DEF SplitRound
    <3>3. B # <<>> /\ Len(B) \in 1..Len(B) /\ Len(B) \in Nat /\ Len(A) \in Nat
      <4>1. j - 1 \in 1..m  BY <1>1, <2>6, <2>8
      <4>2. g \in [0..Len(b) -> Seq(Seq(C))] /\ g[0] = <<>>
            /\ \A i \in 1..Len(b) : g[i] = SplitRound(b, i, g[i - 1])
        BY <1>1, <1>5
      <4>3. \A i \in 1..Len(b) : b[i] # "/" => g[i] # <<>>  BY <4>2, SplitHasLast
      <4>4. B # <<>>  BY <1>1, <2>1, <2>6, <2>8, <4>1, <4>3
      <4>5. Len(B) # 0 /\ Len(B) \in Nat /\ Len(A) \in Nat  BY <4>4, EmptySeq, LenProperties
      <4> QED  BY <4>4, <4>5
    <3>4. PICK d \in Seq(C) : d = Append(B[Len(B)], c)
      <4>1. B[Len(B)] \in Seq(C)  BY <3>3, ElementOfSeq
      <4> QED  BY <4>1, AppendProperties
    <3>5. (A \o B)[Len(A \o B)] = B[Len(B)]
      <4>1. Len(A \o B) = Len(A) + Len(B)
            /\ \A i \in 1..(Len(A) + Len(B)) :
                 (A \o B)[i] = IF i <= Len(A) THEN A[i] ELSE B[i - Len(A)]
        BY ConcatProperties
      <4>2. Len(A) + Len(B) \in 1..(Len(A) + Len(B)) /\ ~(Len(A) + Len(B) <= Len(A))
            /\ (Len(A) + Len(B)) - Len(A) = Len(B)  BY <3>3
      <4> QED  BY <4>1, <4>2
    <3>6. g[j] = [B EXCEPT ![Len(B)] = d]  BY <3>1, <3>4
    <3>7. h[k] = [A \o B EXCEPT ![Len(A \o B)] = d]  BY <3>2, <3>4, <3>5
    <3>8. h[k] = A \o g[j]  BY <3>3, <3>6, <3>7, ExtendLast
    <3> QED  BY <1>1, <1>10, <2>2, <3>8
  <2>9. CASE c # "/" /\ ~(t[k - 1] # "/")
    <3>1. g[j] = Append(B, <<c>>)  BY <2>4, <2>5, <2>6, <2>9 DEF SplitRound
    <3>2. h[k] = Append(A \o B, <<c>>)  BY <2>3, <2>5, <2>9 DEF SplitRound
    <3>3. h[k] = A \o g[j]
      <4>1. PICK e \in Seq(C) : e = <<c>>  BY <2>5
      <4>2. PICK w \in Seq(Seq(C)) : w = <<e>>
        <5>1. <<e>> \in Seq(Seq(C))  OBVIOUS
        <5> QED  BY <5>1
      <4>3. PICK u \in Seq(Seq(C)) : u = A \o B  BY ConcatProperties
      <4>4. Append(u, e) = u \o w  BY <4>2, AppendIsConcat
      <4>5. Append(B, e) = B \o w  BY <4>2, AppendIsConcat
      <4>6. (A \o B) \o w = A \o (B \o w)  BY ConcatAssociative, SMTT(60)
      <4> QED  BY <3>1, <3>2, <4>1, <4>3, <4>4, <4>5, <4>6
    <3> QED  BY <1>1, <1>10, <2>2, <3>3
  <2> QED  BY <2>7, <2>8, <2>9
<1>13. h[(n + 1) + m] = A \o g[m]
  <2>1. \A j \in 0..m : j \in S  BY <1>1, <1>11, <1>12, UpTo
  <2> QED  BY <1>1, <1>10, <2>1
<1> QED  BY <1>2, <1>4, <1>5, <1>6, <1>9, <1>13

LEMMA PrefixAppend ==
    ASSUME NEW D, NEW s \in Seq(D), NEW k \in 1..Len(s)
    PROVE  /\ SubSeq(s, 1, k - 1) \in Seq(D) /\ Len(SubSeq(s, 1, k - 1)) = k - 1
           /\ s[k] \in D
           /\ SubSeq(s, 1, k) = Append(SubSeq(s, 1, k - 1), s[k])
<1>1. PICK n : n = Len(s) /\ n \in Nat  BY LenProperties
<1>2. \A i \in 1..n : s[i] \in D  BY <1>1, ElementOfSeq
<1>3. PICK w : w = SubSeq(s, 1, k - 1)  OBVIOUS
<1>4. w \in Seq(D) /\ Len(w) = k - 1
  <2>1. \A i \in 1..(k - 1) : s[i] \in D  BY <1>1, <1>2
  <2>2. w \in Seq(D)  BY <1>1, <1>3, <2>1, SubSeqProperties
  <2>3. Len(w) = IF 1 <= k - 1 THEN ((k - 1) - 1) + 1 ELSE 0  BY <1>1, <1>3, <2>1, SubSeqProperties
  <2> QED  BY <1>1, <2>2, <2>3
<1>5. SubSeq(s, 1, k) = w \o <<s[k]>>  BY <1>1, <1>3, SubSeqRecursiveSecond
<1>6. Append(w, s[k]) = w \o <<s[k]>>  BY <1>1, <1>2, <1>4, AppendIsConcat
<1> QED  BY <1>1, <1>2, <1>3, <1>4, <1>5, <1>6

LEMMA JoinNothing == JoinSegments(<<>>) = <<>>
<1>1. PICK C : C = {"/"}  OBVIOUS
<1>2. PICK t \in Seq(Seq(C)) : t = <<>> /\ Len(t) = 0  BY EmptySeq
<1>3. "/" \in C  BY <1>1
<1>4. \E f \in [0..Len(t) -> Seq(C)] :
        /\ f[0] = <<>>
        /\ \A i \in 1..Len(t) : f[i] = JoinRound(t, i, f[i - 1])
        /\ JoinSegments(t) = f[Len(t)]
  BY <1>3, JoinIsLoop
<1> QED  BY <1>2, <1>4

LEMMA JoinAppend ==
    ASSUME NEW C, "/" \in C, NEW v \in Seq(Seq(C)), NEW x \in Seq(C)
    PROVE  /\ JoinSegments(v) \in Seq(C)
           /\ JoinSegments(Append(v, x)) \in Seq(C)
           /\ JoinSegments(Append(v, x)) =
                IF v = <<>> THEN x ELSE JoinSegments(v) \o <<"/">> \o x
<1>1. PICK n : n = Len(v) /\ n \in Nat  BY LenProperties
<1>2. PICK w : w = Append(v, x)  OBVIOUS
<1>3. w \in Seq(Seq(C)) /\ Len(w) = n + 1 /\ w[n + 1] = x /\ \A i \in 1..n : w[i] = v[i]
  BY <1>1, <1>2, AppendProperties
<1>4. PICK f :
        /\ f \in [0..n -> Seq(C)] /\ f[0] = <<>>
        /\ \A i \in 1..n : f[i] = JoinRound(v, i, f[i - 1])
        /\ JoinSegments(v) = f[n]
  <2>1. PICK f \in [0..Len(v) -> Seq(C)] :
          /\ f[0] = <<>>
          /\ \A i \in 1..Len(v) : f[i] = JoinRound(v, i, f[i - 1])
          /\ JoinSegments(v) = f[Len(v)]
    BY JoinIsLoop
  <2> QED  BY <1>1, <2>1
<1>5. PICK g :
        /\ g \in [0..(n + 1) -> Seq(C)] /\ g[0] = <<>>
        /\ \A i \in 1..(n + 1) : g[i] = JoinRound(w, i, g[i - 1])
        /\ JoinSegments(w) = g[n + 1]
  <2>1. PICK g \in [0..Len(w) -> Seq(C)] :
          /\ g[0] = <<>>
          /\ \A i \in 1..Len(w) : g[i] = JoinRound(w, i, g[i - 1])
          /\ JoinSegments(w) = g[Len(w)]
    BY <1>3, JoinIsLoop
  <2> QED  BY <1>3, <2>1
<1>6. g[n] = f[n]
  <2>1. ASSUME NEW i \in 1..n, g[i - 1] = f[i - 1] PROVE g[i] = f[i]
    <3>1. PICK u : u = f[i - 1]  OBVIOUS
    <3>2. g[i] = JoinRound(w, i, u)  BY <1>1, <1>5, <2>1, <3>1
    <3>3. f[i] = JoinRound(v, i, u)  BY <1>4, <3>1
    <3>4. w[i] = v[i] /\ (i = 1 => w[1] = v[1])  BY <1>3
    <3> QED  BY <3>2, <3>3, <3>4 DEF JoinRound
  <2>2. Alike(g, f, n)  BY <1>4, <1>5, <2>1 DEF Alike
  <2> QED  BY <1>1, <2>2, SameLoop
<1>7. g[n + 1] = JoinRound(w, n + 1, f[n])
  <2>1. n + 1 \in 1..(n + 1) /\ (n + 1) - 1 = n  BY <1>1
  <2> QED  BY <1>5, <1>6, <2>1
<1>8. v = <<>> <=> n + 1 = 1  BY <1>1, EmptySeq
<1>9. g[n + 1] = IF v = <<>> THEN x ELSE f[n] \o <<"/">> \o x
  BY <1>3, <1>7, <1>8 DEF JoinRound
<1>10. f[n] \in Seq(C) /\ g[n + 1] \in Seq(C)
  <2>1. n \in 0..n /\ n + 1 \in 0..(n + 1)  BY <1>1
  <2> QED  BY <1>4, <1>5, <2>1
<1> QED  BY <1>2, <1>4, <1>5, <1>9, <1>10

\* Segments as SplitSegments makes them.
Names(C) == {x \in Seq(C) : x # <<>> /\ ~HasSlash(x)}

LEMMA SplitMakesNames ==
    ASSUME NEW C, NEW t \in Seq(C)
    PROVE  SplitSegments(t) \in Seq(Names(C))
<1>1. PICK n, N : n = Len(t) /\ n \in Nat /\ N = Names(C)  BY LenProperties
<1>2. PICK f :
        /\ f[0] = <<>>
        /\ \A i \in 1..n : f[i] = SplitRound(t, i, f[i - 1])
        /\ SplitSegments(t) = f[n]
  BY <1>1, SplitIsLoop
<1>3. PICK S : S = {i \in 0..n : f[i] \in Seq(N)}  OBVIOUS
<1>4. 0 \in S
  <2>1. <<>> \in Seq(N) /\ 0 \in 0..n  BY <1>1, EmptySeq
  <2> QED  BY <1>2, <1>3, <2>1
<1>5. ASSUME NEW x \in N, NEW c \in C, c # "/" PROVE Append(x, c) \in N
  <2>1. x \in Seq(C) /\ ~HasSlash(x)  BY <1>1 DEF Names
  <2>2. PICK y : y = Append(x, c)  OBVIOUS
  <2>3. y \in Seq(C) /\ y # <<>> /\ Len(y) = Len(x) + 1 /\ Len(x) \in Nat
        /\ (\A i \in 1..Len(x) : y[i] = x[i]) /\ y[Len(x) + 1] = c
    BY <2>1, <2>2, AppendProperties, LenProperties
  <2>4. \A i \in 1..Len(x) : x[i] # "/"  BY <2>1, RangeEquality DEF HasSlash
  <2>5. \A i \in 1..Len(y) : y[i] # "/"  BY <1>5, <2>3, <2>4
  <2>6. ~HasSlash(y)  BY <2>3, <2>5, RangeEquality DEF HasSlash
  <2> QED  BY <1>1, <2>2, <2>3, <2>6 DEF Names
<1>6. ASSUME NEW c \in C, c # "/" PROVE <<c>> \in N
  <2>1. PICK y : y = <<c>>  OBVIOUS
  <2>2. y \in Seq(C) /\ y # <<>> /\ Len(y) = 1 /\ y[1] = c  BY <2>1
  <2>3. ~HasSlash(y)  BY <1>6, <2>2, RangeEquality DEF HasSlash
  <2> QED  BY <1>1, <2>1, <2>2, <2>3 DEF Names
<1>7. ASSUME NEW i \in 1..n, i - 1 \in S PROVE i \in S
  <2>1. PICK v \in Seq(N) : v = f[i - 1]  BY <1>3, <1>7
  <2>2. f[i] = SplitRound(t, i, v)  BY <1>2, <2>1
  <2>3. PICK c \in C : c = t[i]  BY <1>1, ElementOfSeq
  <2>4. SUFFICES f[i] \in Seq(N)  BY <1>1, <1>3
  <2>5. CASE c = "/"  BY <2>1, <2>2, <2>3, <2>5 DEF SplitRound
  <2>6. CASE c # "/" /\ i > 1 /\ t[i - 1] # "/"
    <3>1. f[i] = [v EXCEPT ![Len(v)] = Append(@, c)]  BY <2>2, <2>3, <2>6 DEF SplitRound
    <3>2. PICK m : m = Len(v) /\ m \in Nat  BY LenProperties
    <3>3. CASE m = 0
      <4>1. v = <<>>  BY <3>2, <3>3, EmptySeq
      <4>2. [v EXCEPT ![m] = Append(@, c)] = v  BY <3>2, <3>3
      <4> QED  BY <2>1, <3>1, <3>2, <4>2
    <3>4. CASE m # 0
      <4>1. m \in 1..Len(v)  BY <3>2, <3>4
      <4>2. v[m] \in N  BY <4>1, ElementOfSeq
      <4>3. PICK d \in N : d = Append(v[m], c)  BY <1>5, <2>6, <4>2
      <4>4. [v EXCEPT ![m] = d] \in Seq(N)  BY <4>1, ExceptSeq
      <4>5. f[i] = [v EXCEPT ![m] = d]  BY <3>1, <3>2, <4>3
      <4> QED  BY <4>4, <4>5
    <3> QED  BY <3>3, <3>4
  <2>7. CASE c # "/" /\ ~(i > 1 /\ t[i - 1] # "/")
    <3>1. f[i] = Append(v, <<c>>)  BY <2>2, <2>3, <2>7 DEF SplitRound
    <3>2. PICK d \in N : d = <<c>>  BY <1>6, <2>7
    <3>3. Append(v, d) \in Seq(N)  BY AppendProperties
    <3> QED  BY <3>1, <3>2, <3>3
  <2> QED  BY <2>5, <2>6, <2>7
<1>8. n \in S
  <2>1. \A i \in 0..n : i \in S  BY <1>1, <1>4, <1>7, UpTo
  <2> QED  BY <1>1, <2>1
<1> QED  BY <1>1, <1>2, <1>3, <1>8

LEMMA NamesAreTexts == ASSUME NEW C, NEW v \in Seq(Names(C)) PROVE v \in Seq(Seq(C))
BY SeqMonotonic DEF Names

\* Joined segments are split again as they were.
LEMMA SplitJoin ==
    ASSUME NEW C, "/" \in C, NEW v \in Seq(Names(C))
    PROVE  SplitSegments(JoinSegments(v)) = v
<1>1. PICK n : n = Len(v) /\ n \in Nat  BY LenProperties
<1>2. v \in Seq(Seq(C))  BY NamesAreTexts
<1>3. PICK S : S = {k \in 0..n : SplitSegments(JoinSegments(SubSeq(v, 1, k))) = SubSeq(v, 1, k)}
  OBVIOUS
<1>4. 0 \in S
  <2>1. PICK w : w = SubSeq(v, 1, 0)  OBVIOUS
  <2>2. w = <<>>  BY <2>1, SubSeqEmpty
  <2>3. SplitSegments(JoinSegments(w)) = w  BY <2>2, JoinNothing, SplitNothing, Zenon
  <2> QED  BY <1>1, <1>3, <2>1, <2>3
<1>5. ASSUME NEW k \in 1..n, k - 1 \in S PROVE k \in S
  <2>1. PICK w, x : /\ w = SubSeq(v, 1, k - 1) /\ w \in Seq(Names(C)) /\ Len(w) = k - 1
                    /\ x = v[k] /\ x \in Names(C)
                    /\ SubSeq(v, 1, k) = Append(w, x)
    BY <1>1, PrefixAppend
  <2>2. w \in Seq(Seq(C)) /\ x \in Seq(C) /\ x # <<>> /\ ~HasSlash(x)
    BY <2>1, NamesAreTexts DEF Names
  <2>3. JoinSegments(w) \in Seq(C)
        /\ JoinSegments(Append(w, x)) = IF w = <<>> THEN x ELSE JoinSegments(w) \o <<"/">> \o x
    BY <2>2, JoinAppend
  <2>4. SplitSegments(x) = <<x>>  BY <2>2, SplitOne
  <2>5. SplitSegments(JoinSegments(w)) = w  BY <1>3, <1>5, <2>1
  <2>6. Append(w, x) = w \o <<x>>  BY <2>1, AppendIsConcat
  <2>7. CASE w = <<>>
    <3>1. Append(w, x) = <<x>>  BY <2>7
    <3>2. SplitSegments(JoinSegments(Append(w, x))) = Append(w, x)  BY <2>3, <2>4, <2>7, <3>1
    <3> QED
      <4>1. SplitSegments(JoinSegments(SubSeq(v, 1, k))) = SubSeq(v, 1, k)
        BY <2>1, <3>2, Zenon
      <4> QED  BY <1>1, <1>3, <4>1
  <2>8. CASE w # <<>>
    <3>1. PICK y \in Seq(C) : y = JoinSegments(w)  BY <2>3
    <3>2. SplitSegments(y \o <<"/">> \o x) = SplitSegments(y) \o SplitSegments(x)
      BY <2>2, SplitConcat
    <3>3. SplitSegments(JoinSegments(Append(w, x))) = Append(w, x)
      BY <2>3, <2>4, <2>5, <2>6, <2>8, <3>1, <3>2
    <3> QED
      <4>1. SplitSegments(JoinSegments(SubSeq(v, 1, k))) = SubSeq(v, 1, k)
        BY <2>1, <3>3, Zenon
      <4> QED  BY <1>1, <1>3, <4>1
  <2> QED  BY <2>7, <2>8
<1>6. n \in S
  <2>1. \A i \in 0..n : i \in S  BY <1>1, <1>4, <1>5, UpTo
  <2> QED  BY <1>1, <2>1
<1>7. SubSeq(v, 1, n) = v  BY <1>1, SubSeqFull
<1> QED  BY <1>3, <1>6, <1>7

LEMMA FrontAndLast ==
    ASSUME NEW D, NEW v \in Seq(D), v # <<>>
    PROVE  /\ Front(v) \in Seq(D) /\ Last(v) \in D /\ v = Append(Front(v), Last(v))
           /\ Len(v) \in 1..Len(v) /\ Last(v) = v[Len(v)] /\ Front(v) = SubSeq(v, 1, Len(v) - 1)
<1>1. PICK n : n = Len(v) /\ n \in Nat /\ n # 0  BY LenProperties, EmptySeq
<1>2. n \in 1..Len(v)  BY <1>1
<1>3. /\ SubSeq(v, 1, n - 1) \in Seq(D) /\ v[n] \in D
      /\ SubSeq(v, 1, n) = Append(SubSeq(v, 1, n - 1), v[n])
  BY <1>2, PrefixAppend
<1>4. SubSeq(v, 1, n) = v  BY <1>1, SubSeqFull
<1> QED  BY <1>1, <1>2, <1>3, <1>4 DEF Front, Last

LEMMA JoinExtended ==
    ASSUME NEW C, "/" \in C, NEW v \in Seq(Seq(C)), v # <<>>, NEW c \in C,
           NEW z, z = [v EXCEPT ![Len(v)] = Append(@, c)]
    PROVE  JoinSegments(z) = Append(JoinSegments(v), c)
<1>1. PICK w \in Seq(Seq(C)), x \in Seq(C) : v = Append(w, x)  BY FrontAndLast
<1>2. PICK n : n = Len(w) /\ n \in Nat  BY LenProperties
<1>3. Len(v) = n + 1 /\ v[n + 1] = x /\ \A i \in 1..n : v[i] = w[i]
  BY <1>1, <1>2, AppendProperties
<1>4. PICK y \in Seq(C) : y = Append(x, c)  BY AppendProperties
<1>5. z = Append(w, y)
  <2>1. z = [v EXCEPT ![n + 1] = y]  BY <1>3, <1>4
  <2>2. n + 1 \in 1..Len(v)  BY <1>2, <1>3
  <2>3. z \in Seq(Seq(C)) /\ Len(z) = n + 1
        /\ \A i \in 1..(n + 1) : z[i] = IF i = n + 1 THEN y ELSE v[i]
    <3>1. PICK m : m = n + 1 /\ m \in 1..Len(v) /\ m = Len(v)  BY <1>3, <2>2
    <3>2. [v EXCEPT ![m] = y] \in Seq(Seq(C)) /\ Len([v EXCEPT ![m] = y]) = Len(v)
          /\ \A i \in 1..Len(v) : [v EXCEPT ![m] = y][i] = IF i = m THEN y ELSE v[i]
      BY <3>1, ExceptSeq
    <3>3. z = [v EXCEPT ![m] = y]  BY <2>1, <3>1
    <3>4. z \in Seq(Seq(C)) /\ Len(z) = m
          /\ \A i \in 1..m : z[i] = IF i = m THEN y ELSE v[i]
      BY <3>1, <3>2, <3>3
    <3> QED  BY <3>1, <3>4
  <2>4. PICK u : u = Append(w, y)  OBVIOUS
  <2>5. u \in Seq(Seq(C)) /\ Len(u) = n + 1 /\ u[n + 1] = y /\ \A i \in 1..n : u[i] = w[i]
    BY <1>2, <2>4, AppendProperties
  <2>6. \A i \in 1..(n + 1) : z[i] = u[i]
    <3> TAKE i \in 1..(n + 1)
    <3>1. CASE i = n + 1  BY <2>3, <2>5, <3>1
    <3>2. CASE i \in 1..n  BY <1>2, <1>3, <2>3, <2>5, <3>2
    <3> QED  BY <1>2, <3>1, <3>2
  <2>7. z = u  BY <1>2, <2>3, <2>5, <2>6, SeqEqual
  <2> QED  BY <2>4, <2>7
<1>6. JoinSegments(w) \in Seq(C)
      /\ JoinSegments(v) = IF w = <<>> THEN x ELSE JoinSegments(w) \o <<"/">> \o x
  BY <1>1, JoinAppend
<1>7. JoinSegments(z) = IF w = <<>> THEN y ELSE JoinSegments(w) \o <<"/">> \o y
  BY <1>5, JoinAppend
<1>8. CASE w = <<>>  BY <1>4, <1>6, <1>7, <1>8
<1>9. CASE w # <<>>
  <2>1. PICK u \in Seq(C) : u = JoinSegments(w) \o <<"/">>
    <3>1. <<"/">> \in Seq(C)  OBVIOUS
    <3> QED  BY <1>6, <3>1, ConcatProperties
  <2>2. PICK d \in Seq(C) : d = <<c>>
    <3>1. <<c>> \in Seq(C)  OBVIOUS
    <3> QED  BY <3>1
  <2>3. y = x \o d  BY <1>4, <2>2, AppendIsConcat
  <2>4. u \o x \in Seq(C)  BY ConcatProperties
  <2>5. Append(u \o x, c) = (u \o x) \o d  BY <2>2, <2>4, AppendIsConcat
  <2>6. (u \o x) \o d = u \o (x \o d)  BY ConcatAssociative, SMTT(60)
  <2>7. JoinSegments(v) = u \o x /\ JoinSegments(z) = u \o y  BY <1>6, <1>7, <1>9, <2>1
  <2> QED  BY <2>3, <2>5, <2>6, <2>7
<1> QED  BY <1>8, <1>9

\* A slash that has been read is written when something follows it.
Pending(s, segments, i) ==
    IF i > 0 /\ s[i] = "/" /\ segments # <<>> /\ \E j \in i..Len(s) : s[j] # "/"
    THEN <<"/">> ELSE <<>>

\* Parsing a text and writing it again squeezes it.
LEMMA JoinSplit ==
    ASSUME NEW C, "/" \in C, NEW s \in Seq(C)
    PROVE  JoinSegments(SplitSegments(s)) = Squeezed(s)
<1>1. PICK n : n = Len(s) /\ n \in Nat  BY LenProperties
<1>2. PICK f :
        /\ f \in [0..n -> Seq(Seq(C))]
        /\ f[0] = <<>>
        /\ \A i \in 1..n : f[i] = SplitRound(s, i, f[i - 1])
        /\ SplitSegments(s) = f[n]
  BY <1>1, SplitIsLoop
<1>3. PICK g :
        /\ g \in [0..n -> Seq(C)]
        /\ g[0] = <<>>
        /\ \A i \in 1..n : g[i] = SqueezeRound(s, i, g[i - 1])
        /\ Squeezed(s) = g[n]
  BY <1>1, SqueezeIsLoop
<1>4. PICK S : S = {i \in 0..n : g[i] = JoinSegments(f[i]) \o Pending(s, f[i], i)}  OBVIOUS
<1>5. 0 \in S
  <2>1. Pending(s, f[0], 0) = <<>>  BY DEF Pending
  <2>2. g[0] = JoinSegments(f[0]) \o Pending(s, f[0], 0)
    <3>1. <<>> \o <<>> = <<>>  OBVIOUS
    <3> QED  BY <1>2, <1>3, <2>1, <3>1, JoinNothing
  <2> QED  BY <1>1, <1>4, <2>2
<1>6. ASSUME NEW i \in 1..n, i - 1 \in S PROVE i \in S
  <2>1. PICK v \in Seq(Seq(C)) : v = f[i - 1]
    <3>1. i - 1 \in 0..n  BY <1>1
    <3> QED  BY <1>2, <3>1
  <2>2. PICK text : text = g[i - 1]  OBVIOUS
  <2>3. text = JoinSegments(v) \o Pending(s, v, i - 1)  BY <1>4, <1>6, <2>1, <2>2
  <2>4. f[i] = SplitRound(s, i, v)  BY <1>2, <2>1
  <2>5. g[i] = SqueezeRound(s, i, text)  BY <1>3, <2>2
  <2>6. PICK c \in C : c = s[i]  BY <1>1, ElementOfSeq
  <2>7. PICK J \in Seq(C) : J = JoinSegments(v)
    <3>1. JoinSegments(v) \in Seq(C)  BY <2>6, JoinAppend
    <3> QED  BY <3>1
  <2>8. SUFFICES g[i] = JoinSegments(f[i]) \o Pending(s, f[i], i)  BY <1>1, <1>4
  <2>9. i = 1 => v = <<>> /\ J = <<>>
    <3>1. i = 1 => i - 1 = 0  OBVIOUS
    <3> QED  BY <1>2, <2>1, <2>7, <3>1, JoinNothing
  <2>10. J \o <<>> = J  BY ConcatEmptySeq
  <2>11. CASE c = "/"
    <3>1. f[i] = v  BY <2>4, <2>6, <2>11 DEF SplitRound
    <3>2. CASE i = 1
      <4>1. ~Squeezes(s, i)  BY <2>6, <2>11, <3>2 DEF Squeezes
      <4>2. g[i] = text  BY <2>5, <4>1 DEF SqueezeRound
      <4>3. Pending(s, v, i - 1) = <<>> /\ Pending(s, v, i) = <<>>  BY <2>9, <3>2 DEF Pending
      <4> QED  BY <2>3, <3>1, <4>2, <4>3
    <3>3. CASE i > 1 /\ s[i - 1] = "/"
      <4>1. ~Squeezes(s, i)  BY <2>6, <2>11, <3>3 DEF Squeezes
      <4>2. g[i] = text  BY <2>5, <4>1 DEF SqueezeRound
      <4>3. (\E j \in (i - 1)..n : s[j] # "/") <=> (\E j \in i..n : s[j] # "/")
        <5>1. \A j \in (i - 1)..n : s[j] # "/" => j \in i..n  BY <1>1, <3>3
        <5>2. \A j \in i..n : j \in (i - 1)..n  BY <1>1
        <5> QED  BY <5>1, <5>2
      <4>4. Pending(s, v, i - 1) = Pending(s, v, i)
        BY <1>1, <2>6, <2>11, <3>3, <4>3 DEF Pending
      <4> QED  BY <2>3, <3>1, <4>2, <4>4
    <3>4. CASE i > 1 /\ s[i - 1] # "/"
      <4>1. v # <<>>
        <5>1. f \in [0..Len(s) -> Seq(Seq(C))] /\ f[0] = <<>>
              /\ \A k \in 1..Len(s) : f[k] = SplitRound(s, k, f[k - 1])
          BY <1>1, <1>2
        <5>2. \A k \in 1..Len(s) : s[k] # "/" => f[k] # <<>>  BY <5>1, SplitHasLast
        <5>3. i - 1 \in 1..Len(s)  BY <1>1, <3>4
        <5> QED  BY <2>1, <3>4, <5>2, <5>3
      <4>2. Pending(s, v, i - 1) = <<>>  BY <3>4 DEF Pending
      <4>3. text = J  BY <2>3, <2>7, <2>10, <4>2
      <4>4. CASE \E j \in i..n : s[j] # "/"
        <5>1. Squeezes(s, i)  BY <1>1, <3>4, <4>4 DEF Squeezes
        <5>2. g[i] = Append(J, c)  BY <2>5, <2>6, <4>3, <5>1 DEF SqueezeRound
        <5>3. Pending(s, v, i) = <<"/">>  BY <1>1, <2>6, <2>11, <4>1, <4>4 DEF Pending
        <5>4. Append(J, c) = J \o <<"/">>  BY <2>11, AppendIsConcat
        <5> QED  BY <2>7, <3>1, <5>2, <5>3, <5>4
      <4>5. CASE ~\E j \in i..n : s[j] # "/"
        <5>1. ~Squeezes(s, i)  BY <1>1, <2>6, <2>11, <4>5 DEF Squeezes
        <5>2. g[i] = J  BY <2>5, <4>3, <5>1 DEF SqueezeRound
        <5>3. Pending(s, v, i) = <<>>  BY <1>1, <4>5 DEF Pending
        <5> QED  BY <2>7, <2>10, <3>1, <5>2, <5>3
      <4> QED  BY <4>4, <4>5
    <3> QED  BY <3>2, <3>3, <3>4
  <2>12. CASE c # "/"
    <3>1. Squeezes(s, i)  BY <2>6, <2>12 DEF Squeezes
    <3>2. g[i] = Append(text, c)  BY <2>5, <2>6, <3>1 DEF SqueezeRound
    <3>3. Pending(s, f[i], i) = <<>>  BY <2>6, <2>12 DEF Pending
    <3>4. JoinSegments(f[i]) \in Seq(C)
      <4>1. f[i] \in Seq(Seq(C))
        <5>1. i \in 0..n  BY <1>1
        <5> QED  BY <1>2, <5>1
      <4> QED  BY <2>6, <4>1, JoinAppend
    <3>5. JoinSegments(f[i]) \o <<>> = JoinSegments(f[i])  BY <3>4, ConcatEmptySeq
    <3>6. SUFFICES Append(text, c) = JoinSegments(f[i])  BY <3>2, <3>3, <3>5
    <3>7. CASE i > 1 /\ s[i - 1] # "/"
      <4>1. v # <<>>
        <5>1. f \in [0..Len(s) -> Seq(Seq(C))] /\ f[0] = <<>>
              /\ \A k \in 1..Len(s) : f[k] = SplitRound(s, k, f[k - 1])
          BY <1>1, <1>2
        <5>2. \A k \in 1..Len(s) : s[k] # "/" => f[k] # <<>>  BY <5>1, SplitHasLast
        <5>3. i - 1 \in 1..Len(s)  BY <1>1, <3>7
        <5> QED  BY <2>1, <3>7, <5>2, <5>3
      <4>2. Pending(s, v, i - 1) = <<>>  BY <3>7 DEF Pending
      <4>3. text = J  BY <2>3, <2>7, <2>10, <4>2
      <4>4. f[i] = [v EXCEPT ![Len(v)] = Append(@, c)]
        BY <2>4, <2>6, <2>12, <3>7 DEF SplitRound
      <4>5. JoinSegments(f[i]) = Append(JoinSegments(v), c)  BY <4>1, <4>4, JoinExtended
      <4> QED  BY <2>7, <4>3, <4>5
    <3>8. CASE ~(i > 1 /\ s[i - 1] # "/")
      <4>1. f[i] = Append(v, <<c>>)  BY <2>4, <2>6, <2>12, <3>8 DEF SplitRound
      <4>2. PICK d \in Seq(C) : d = <<c>>
        <5>1. <<c>> \in Seq(C)  OBVIOUS
        <5> QED  BY <5>1
      <4>3. JoinSegments(f[i]) = IF v = <<>> THEN d ELSE J \o <<"/">> \o d
        BY <2>7, <4>1, <4>2, JoinAppend
      <4>4. CASE v = <<>>
        <5>1. J = <<>>  BY <2>7, <4>4, JoinNothing
        <5>2. Pending(s, v, i - 1) = <<>>  BY <4>4 DEF Pending
        <5>3. text = <<>>  BY <2>3, <2>7, <2>10, <5>1, <5>2
        <5> QED  BY <4>2, <4>3, <4>4, <5>3
      <4>5. CASE v # <<>>
        <5>1. i > 1 /\ s[i - 1] = "/"  BY <1>1, <2>9, <3>8, <4>5
        <5>2. i \in (i - 1)..Len(s) /\ s[i] # "/" /\ i - 1 > 0  BY <1>1, <2>6, <2>12, <5>1
        <5>3. Pending(s, v, i - 1) = <<"/">>  BY <4>5, <5>1, <5>2 DEF Pending
        <5>4. text = J \o <<"/">>  BY <2>3, <2>7, <5>3
        <5>5. text \in Seq(C)
          <6>1. <<"/">> \in Seq(C)  OBVIOUS
          <6> QED  BY <5>4, <6>1, ConcatProperties
        <5>6. Append(text, c) = text \o d  BY <4>2, <5>5, AppendIsConcat
        <5> QED  BY <4>3, <4>5, <5>4, <5>6
      <4> QED  BY <4>4, <4>5
    <3> QED  BY <3>7, <3>8
  <2> QED  BY <2>11, <2>12
<1>7. n \in S
  <2>1. \A i \in 0..n : i \in S  BY <1>1, <1>5, <1>6, UpTo
  <2> QED  BY <1>1, <2>1
<1>8. Pending(s, f[n], n) = <<>>
  <2>1. \A j \in n..n : j = n  BY <1>1
  <2> QED  BY <1>1, <2>1 DEF Pending
<1>9. JoinSegments(f[n]) \o <<>> = JoinSegments(f[n])
  <2>1. f[n] \in Seq(Seq(C))
    <3>1. n \in 0..n  BY <1>1
    <3> QED  BY <1>2, <3>1
  <2>2. <<>> \in Seq(C)  OBVIOUS
  <2>3. JoinSegments(f[n]) \in Seq(C)  BY <2>1, <2>2, JoinAppend
  <2> QED  BY <2>3, ConcatEmptySeq
<1>10. g[n] = JoinSegments(f[n])  BY <1>4, <1>7, <1>8, <1>9
<1> QED  BY <1>2, <1>3, <1>10

(***************************************************************************)
(* What an address means.                                                  *)
(***************************************************************************)
LEMMA ParsedIs ==
    ASSUME NEW t, NEW u, u = ParseGDriveUri(t)
    PROVE  \/ u = Rejected /\ u.kind = "REJECTED"
           \/ /\ u.kind = "FILE_ID" /\ u = FileId(Tail(t)) /\ u.file_id = Tail(t)
              /\ u.segments = <<>>
              /\ StartsWithId(t) /\ ~HasSlash(t) /\ Tail(t) # <<>>
           \/ /\ u.kind = "PATH" /\ u = Path(SplitSegments(t))
              /\ u.segments = SplitSegments(t) /\ ~StartsWithId(t)
              /\ Range(SplitSegments(t)) \cap {<<".">>, <<".", ".">>} = {}
BY DEF ParseGDriveUri, Rejected, FileId, Path

LEMMA NamesJoinToSomething ==
    ASSUME NEW C, "/" \in C, NEW v \in Seq(Names(C)), v # <<>>
    PROVE  JoinSegments(v) # <<>>
BY SplitJoin, SplitNothing

LEMMA StartOfJoin ==
    ASSUME NEW C, NEW a \in Seq(C), NEW b \in Seq(C), StartsWithId(a)
    PROVE  StartsWithId(a \o b)
<1>1. a # <<>> /\ a[1] = "id:" /\ Len(a) \in Nat /\ Len(a) # 0 /\ Len(b) \in Nat
  BY LenProperties, EmptySeq DEF StartsWithId
<1>2. PICK u : u = a \o b  OBVIOUS
<1>3. u \in Seq(C) /\ Len(u) = Len(a) + Len(b)
      /\ \A i \in 1..(Len(a) + Len(b)) : u[i] = IF i <= Len(a) THEN a[i] ELSE b[i - Len(a)]
  BY <1>2, ConcatProperties
<1>4. u # <<>> /\ u[1] = "id:"  BY <1>1, <1>3, EmptySeq
<1> QED  BY <1>2, <1>3, <1>4 DEF StartsWithId

\* An address round-trips, unless a slash before it hides an id.
LEMMA RoundTrips ==
    ASSUME NEW C, "/" \in C, "id:" \in C, NEW t \in Seq(C), NEW u, u = ParseGDriveUri(t),
           u # Rejected, u.kind = "PATH" => ~StartsWithId(Squeezed(t))
    PROVE  ParseGDriveUri(UriText(u)) = u
<1>1. CASE u.kind = "FILE_ID"
  <2>1. u = FileId(Tail(t)) /\ StartsWithId(t) /\ u.file_id = Tail(t)  BY <1>1, ParsedIs
  <2>2. t # <<>> /\ t[1] = "id:"  BY <2>1 DEF StartsWithId
  <2>3. <<"id:">> \o Tail(t) = t
    <3>1. PICK d \in Seq(C) : d = <<"id:">>
      <4>1. <<"id:">> \in Seq(C)  OBVIOUS
      <4> QED  BY <4>1
    <3>2. Len(d) = 1 /\ d[1] = "id:"  BY <3>1
    <3>3. PICK w : w = Tail(t)  OBVIOUS
    <3>4. w \in Seq(C) /\ Len(w) = Len(t) - 1 /\ Len(t) \in Nat /\ Len(t) # 0
          /\ \A i \in 1..Len(w) : w[i] = t[i + 1]
      BY <2>2, <3>3, HeadTailProperties, LenProperties, EmptySeq
    <3>5. PICK z : z = d \o w  OBVIOUS
    <3>6. z \in Seq(C) /\ Len(z) = 1 + Len(w)
          /\ \A i \in 1..(1 + Len(w)) : z[i] = IF i <= 1 THEN d[i] ELSE w[i - 1]
      <4>1. z \in Seq(C) /\ Len(z) = Len(d) + Len(w)
            /\ \A i \in 1..(Len(d) + Len(w)) : z[i] = IF i <= Len(d) THEN d[i] ELSE w[i - Len(d)]
        BY <3>4, <3>5, ConcatProperties
      <4> QED  BY <3>2, <4>1
    <3>7. Len(z) = Len(t)  BY <3>4, <3>6
    <3>8. \A i \in 1..Len(z) : z[i] = t[i]
      <4> TAKE i \in 1..Len(z)
      <4>1. CASE i = 1  BY <2>2, <3>2, <3>6, <4>1
      <4>2. CASE i # 1
        <5>1. i - 1 \in 1..Len(w) /\ ~(i <= 1) /\ i \in 1..(1 + Len(w)) /\ (i - 1) + 1 = i
          BY <3>4, <3>6, <4>2
        <5>2. z[i] = w[i - 1]  BY <3>6, <5>1
        <5> QED  BY <3>4, <5>1, <5>2
      <4> QED  BY <4>1, <4>2
    <3>9. z = t  BY <3>6, <3>7, <3>8, SeqEqual
    <3> QED  BY <3>1, <3>3, <3>5, <3>9
  <2>4. UriText(u) = t  BY <1>1, <2>1, <2>3 DEF UriText
  <2> QED  BY <2>4
<1>2. CASE u.kind = "PATH"
  <2>1. PICK v : v = SplitSegments(t)  OBVIOUS
  <2>2. u = Path(v) /\ u.segments = v /\ Range(v) \cap {<<".">>, <<".", ".">>} = {}
    BY <1>2, <2>1, ParsedIs
  <2>3. v \in Seq(Names(C))  BY <2>1, SplitMakesNames
  <2>4. UriText(u) = JoinSegments(v)  BY <1>2, <2>2 DEF UriText
  <2>5. SplitSegments(JoinSegments(v)) = v  BY <2>3, SplitJoin
  <2>6. ~StartsWithId(JoinSegments(v))  BY <1>2, <2>1, JoinSplit
  <2>7. ParseGDriveUri(JoinSegments(v)) = Path(v)
    BY <2>2, <2>5, <2>6 DEF ParseGDriveUri
  <2> QED  BY <2>2, <2>4, <2>7
<1> QED  BY <1>1, <1>2, ParsedIs

\* The parent and the name of an address make it up again.
LEMMA ParentAndName ==
    ASSUME NEW C, "/" \in C, NEW t \in Seq(C), NEW u, u = ParseGDriveUri(t),
           u # Rejected, u.kind = "PATH" => ~StartsWithId(Squeezed(t)), u.segments # <<>>
    PROVE  /\ ParseGDriveUri(ParentPath(u)) = Path(Front(u.segments))
           /\ JoinGDrivePath(ParentPath(u), FileName(u)) = Squeezed(t)
           /\ CanonicalPathOf(u) = Squeezed(t)
<1>1. PICK v : v = SplitSegments(t)  OBVIOUS
<1>2. u.kind = "PATH" /\ u.segments = v /\ Range(v) \cap {<<".">>, <<".", ".">>} = {}
  BY <1>1, ParsedIs
<1>3. v \in Seq(Names(C)) /\ v # <<>>  BY <1>1, <1>2, SplitMakesNames
<1>4. PICK w, x : w = Front(v) /\ x = Last(v) /\ w \in Seq(Names(C)) /\ x \in Names(C)
                  /\ v = Append(w, x)
  BY <1>3, FrontAndLast
<1>5. ParentPath(u) = JoinSegments(w) /\ FileName(u) = x /\ CanonicalPathOf(u) = JoinSegments(v)
  BY <1>2, <1>3, <1>4 DEF ParentPath, FileName, CanonicalPathOf
<1>6. JoinSegments(v) = Squeezed(t) /\ ~StartsWithId(JoinSegments(v))  BY <1>1, <1>2, JoinSplit
<1>7. JoinSegments(w) \in Seq(C) /\ x \in Seq(C)
      /\ JoinSegments(v) = IF w = <<>> THEN x ELSE JoinSegments(w) \o <<"/">> \o x
  <2>1. w \in Seq(Seq(C)) /\ x \in Seq(C)  BY <1>4, NamesAreTexts DEF Names
  <2> QED  BY <1>4, <2>1, JoinAppend
<1>8. w = <<>> <=> JoinSegments(w) = <<>>  BY <1>4, NamesJoinToSomething, JoinNothing
<1>9. JoinGDrivePath(ParentPath(u), FileName(u)) = Squeezed(t)
  BY <1>5, <1>6, <1>7, <1>8 DEF JoinGDrivePath
<1>10. ~StartsWithId(JoinSegments(w))
  <2>1. CASE w = <<>>  BY <1>8, <2>1 DEF StartsWithId
  <2>2. CASE w # <<>>
    <3>1. PICK b \in Seq(C) : b = <<"/">> \o x
      <4>1. <<"/">> \in Seq(C)  OBVIOUS
      <4> QED  BY <1>7, <4>1, ConcatProperties
    <3>2. PICK a \in Seq(C) : a = JoinSegments(w)  BY <1>7
    <3>3. JoinSegments(v) = a \o b
      <4>1. PICK d \in Seq(C) : d = <<"/">>
        <5>1. <<"/">> \in Seq(C)  OBVIOUS
        <5> QED  BY <5>1
      <4>2. (a \o d) \o x = a \o (d \o x)  BY <1>7, ConcatAssociative, SMTT(60)
      <4> QED  BY <1>7, <2>2, <3>1, <3>2, <4>1, <4>2
    <3> QED  BY <1>6, <3>2, <3>3, StartOfJoin
  <2> QED  BY <2>1, <2>2
<1>11. SplitSegments(JoinSegments(w)) = w  BY <1>4, SplitJoin
<1>12. Range(w) \cap {<<".">>, <<".", ".">>} = {}
  <2>1. \A y \in Range(w) : y \in Range(v)
    <3>1. Len(v) = Len(w) + 1 /\ Len(w) \in Nat /\ \A i \in 1..Len(w) : v[i] = w[i]
      BY <1>4, AppendProperties, LenProperties
    <3>2. Range(w) = {w[i] : i \in 1..Len(w)}  BY <1>4, RangeEquality
    <3>3. Range(v) = {v[i] : i \in 1..Len(v)}  BY <1>3, RangeEquality
    <3>4. \A i \in 1..Len(w) : i \in 1..Len(v) /\ v[i] = w[i]  BY <3>1
    <3> QED  BY <3>2, <3>3, <3>4
  <2> QED  BY <1>2, <2>1
<1>13. ParseGDriveUri(JoinSegments(w)) = Path(w)
  BY <1>10, <1>11, <1>12 DEF ParseGDriveUri
<1> QED  BY <1>2, <1>4, <1>5, <1>6, <1>9, <1>13

\* A text at its first slash.
LEMMA AtFirstSlash ==
    ASSUME NEW C, "/" \in C, NEW s \in Seq(C), HasSlash(s)
    PROVE  /\ FirstSlash(s) \in 1..Len(s)
           /\ Before(s, FirstSlash(s)) \in Seq(C) /\ After(s, FirstSlash(s)) \in Seq(C)
           /\ ~HasSlash(Before(s, FirstSlash(s)))
           /\ Len(Before(s, FirstSlash(s))) = FirstSlash(s) - 1
           /\ s = Before(s, FirstSlash(s)) \o <<"/">> \o After(s, FirstSlash(s))
           /\ s[FirstSlash(s)] = "/"
<1>1. PICK n : n = Len(s) /\ n \in Nat  BY LenProperties
<1>2. \A i \in 1..n : s[i] \in C  BY <1>1, ElementOfSeq
<1>3. PICK S : S = {i \in 1..n : s[i] = "/"}  OBVIOUS
<1>4. S \in SUBSET Nat /\ S # {}
  <2>1. \E i \in 1..n : s[i] = "/"  BY <1>1, RangeEquality DEF HasSlash
  <2> QED  BY <1>1, <1>3, <2>1
<1>5. PICK m \in S : \A i \in S : m <= i  BY <1>4, LeastNatural
<1>6. ASSUME NEW i \in 1..n
      PROVE  /\ Before(s, i) \in Seq(C) /\ Len(Before(s, i)) = i - 1
             /\ \A k \in 1..(i - 1) : Before(s, i)[k] = s[k]
  <2>1. \A k \in 1..(i - 1) : s[k] \in C  BY <1>1, <1>2
  <2>2. PICK w : w = SubSeq(s, 1, i - 1)  OBVIOUS
  <2>3. w \in Seq(C)  BY <1>1, <2>1, <2>2, SubSeqProperties
  <2>4. Len(w) = IF 1 <= i - 1 THEN ((i - 1) - 1) + 1 ELSE 0  BY <1>1, <2>1, <2>2, SubSeqProperties
  <2>5. \A k \in 1..(((i - 1) - 1) + 1) : w[k] = s[(1 + k) - 1]  BY <1>1, <2>1, <2>2, SubSeqProperties
  <2>6. Len(w) = i - 1  BY <1>1, <2>4
  <2>7. \A k \in 1..(i - 1) : w[k] = s[k]  BY <1>1, <2>5
  <2> QED  BY <2>2, <2>3, <2>6, <2>7 DEF Before
<1>7. ~HasSlash(Before(s, m))
  <2>1. m \in 1..n  BY <1>3
  <2>2. PICK w : w = Before(s, m)  OBVIOUS
  <2>3. w \in Seq(C) /\ Len(w) = m - 1 /\ \A k \in 1..(m - 1) : w[k] = s[k]
    BY <1>6, <2>1, <2>2
  <2>4. \A k \in 1..Len(w) : w[k] # "/"
    <3> TAKE k \in 1..Len(w)
    <3>1. k \in 1..(m - 1) /\ k \in 1..n /\ ~(m <= k)  BY <1>1, <2>1, <2>3
    <3> QED  BY <1>3, <1>5, <2>3, <3>1
  <2>5. ~HasSlash(w)  BY <2>3, <2>4, RangeEquality DEF HasSlash
  <2> QED  BY <2>2, <2>5
<1>8. PICK i : i = FirstSlash(s)  OBVIOUS
<1>9. i \in 1..n /\ s[i] = "/" /\ ~HasSlash(Before(s, i))
  <2>1. DOMAIN s = 1..n  BY <1>1, LenProperties
  <2>2. m \in DOMAIN s /\ s[m] = "/" /\ ~HasSlash(Before(s, m))  BY <1>3, <1>7, <2>1
  <2> QED  BY <1>8, <2>1, <2>2 DEF FirstSlash
<1>10. After(s, i) \in Seq(C)
  <2>1. \A k \in (i + 1)..n : s[k] \in C  BY <1>1, <1>2, <1>9
  <2> QED  BY <1>1, <1>9, <2>1, SubSeqProperties DEF After
<1>11. s = Before(s, i) \o <<"/">> \o After(s, i)
  <2>1. SubSeq(s, 1, i) = SubSeq(s, 1, i - 1) \o <<s[i]>>  BY <1>1, <1>9, SubSeqRecursiveSecond
  <2>2. SubSeq(s, 1, i) \o SubSeq(s, i + 1, n) = SubSeq(s, 1, n)
    <3>1. 1 \in 1..(Len(s) + 1) /\ i \in (1 - 1)..Len(s) /\ n \in i..Len(s)  BY <1>1, <1>9
    <3> QED  BY <3>1, ConcatAdjacentSubSeq
  <2>3. SubSeq(s, 1, n) = s  BY <1>1, SubSeqFull
  <2> QED  BY <1>1, <1>9, <2>1, <2>2, <2>3 DEF Before, After
<1> QED  BY <1>1, <1>6, <1>8, <1>9, <1>10, <1>11

\* What DuckDB makes of a file id that does not exist.
LEMMA ProbeIs ==
    ASSUME NEW C, "/" \in C, NEW t \in Seq(C), IsFileIdFallbackGlobProbe(t)
    PROVE  /\ ParseGDriveUri(t) = Rejected
           /\ SplitSegments(t) =
                <<Head(SplitSegments(t)), <<"*", "*">>, Last(SplitSegments(t))>>
<1>1. StartsWithId(t) /\ HasSlash(t)  BY DEF IsFileIdFallbackGlobProbe
<1>2. ParseGDriveUri(t) = Rejected  BY <1>1 DEF ParseGDriveUri
<1>3. PICK a, r : a = Before(t, FirstSlash(t)) /\ r = After(t, FirstSlash(t))  OBVIOUS
<1>4. a \in Seq(C) /\ r \in Seq(C) /\ ~HasSlash(a) /\ t = a \o <<"/">> \o r
  BY <1>1, <1>3, AtFirstSlash
<1>5. a # <<>>
  <2>1. PICK i : i = FirstSlash(t) /\ i \in 1..Len(t) /\ Len(a) = i - 1 /\ t[i] = "/"
                 /\ Len(t) \in Nat
    BY <1>1, <1>3, AtFirstSlash, LenProperties
  <2>2. t[1] = "id:"  BY <1>1 DEF StartsWithId
  <2>3. i # 1  BY <2>1, <2>2
  <2>4. Len(a) # 0  BY <2>1, <2>3
  <2> QED  BY <2>4, EmptySeq
<1>6. PICK d, b : d = Before(r, FirstSlash(r)) /\ b = After(r, FirstSlash(r))  OBVIOUS
<1>7. HasSlash(r) /\ d = <<"*", "*">> /\ ~HasSlash(b) /\ Len(b) > 2
  BY <1>3, <1>6 DEF IsFileIdFallbackGlobProbe
<1>8. d \in Seq(C) /\ b \in Seq(C) /\ ~HasSlash(d) /\ r = d \o <<"/">> \o b
  <2>1. HasSlash(r)  BY <1>7
  <2>2. /\ Before(r, FirstSlash(r)) \in Seq(C) /\ After(r, FirstSlash(r)) \in Seq(C)
        /\ ~HasSlash(Before(r, FirstSlash(r)))
        /\ r = Before(r, FirstSlash(r)) \o <<"/">> \o After(r, FirstSlash(r))
    BY <1>4, <2>1, AtFirstSlash
  <2> QED  BY <1>6, <2>2
<1>9. b # <<>> /\ d # <<>>
  <2>1. Len(d) = 2  BY <1>7
  <2> QED  BY <1>7, <2>1, EmptySeq
<1>10. SplitSegments(a) = <<a>> /\ SplitSegments(d) = <<d>> /\ SplitSegments(b) = <<b>>
  <2>1. SplitSegments(a) = <<a>>  BY <1>4, <1>5, SplitOne
  <2>2. SplitSegments(d) = <<d>>  BY <1>8, <1>9, SplitOne
  <2>3. SplitSegments(b) = <<b>>  BY <1>7, <1>8, <1>9, SplitOne
  <2> QED  BY <2>1, <2>2, <2>3
<1>11. SplitSegments(r) = <<d>> \o <<b>>
  <2>1. SplitSegments(d \o <<"/">> \o b) = SplitSegments(d) \o SplitSegments(b)
    BY <1>8, SplitConcat
  <2> QED  BY <1>8, <1>10, <2>1
<1>12. SplitSegments(t) = <<a>> \o (<<d>> \o <<b>>)
  <2>1. SplitSegments(a \o <<"/">> \o r) = SplitSegments(a) \o SplitSegments(r)
    BY <1>4, SplitConcat
  <2> QED  BY <1>4, <1>10, <1>11, <2>1
<1>13. SplitSegments(t) = <<a, d, b>>
  <2>1. PICK x, y, z : x = <<a>> /\ y = <<d>> /\ z = <<b>>  OBVIOUS
  <2>2. /\ x \in Seq(Seq(C)) /\ Len(x) = 1 /\ x[1] = a
        /\ y \in Seq(Seq(C)) /\ Len(y) = 1 /\ y[1] = d
        /\ z \in Seq(Seq(C)) /\ Len(z) = 1 /\ z[1] = b
    BY <1>4, <1>8, <2>1
  <2>3. PICK u : u = y \o z  OBVIOUS
  <2>4. u \in Seq(Seq(C)) /\ Len(u) = 2 /\ u[1] = d /\ u[2] = b
    <3>1. u \in Seq(Seq(C)) /\ Len(u) = Len(y) + Len(z)
          /\ \A i \in 1..(Len(y) + Len(z)) : u[i] = IF i <= Len(y) THEN y[i] ELSE z[i - Len(y)]
      BY <2>2, <2>3, ConcatProperties
    <3> QED  BY <2>2, <3>1
  <2>5. PICK w : w = x \o u  OBVIOUS
  <2>6. w \in Seq(Seq(C)) /\ Len(w) = 3 /\ w[1] = a /\ w[2] = d /\ w[3] = b
    <3>1. w \in Seq(Seq(C)) /\ Len(w) = Len(x) + Len(u)
          /\ \A i \in 1..(Len(x) + Len(u)) : w[i] = IF i <= Len(x) THEN x[i] ELSE u[i - Len(x)]
      BY <2>2, <2>4, <2>5, ConcatProperties
    <3> QED  BY <2>2, <2>4, <3>1
  <2>7. PICK k : k = <<a, d, b>>  OBVIOUS
  <2>8. k \in Seq(Seq(C)) /\ Len(k) = 3 /\ k[1] = a /\ k[2] = d /\ k[3] = b
    BY <1>4, <1>8, <2>7
  <2>9. \A i \in 1..3 : w[i] = k[i]
    <3>1. \A i \in 1..3 : i = 1 \/ i = 2 \/ i = 3  OBVIOUS
    <3> QED  BY <2>6, <2>8, <3>1
  <2>10. w = k
    <3>1. PICK T : T = Seq(C)  OBVIOUS
    <3>2. w \in Seq(T) /\ k \in Seq(T) /\ Len(w) = Len(k)  BY <2>6, <2>8, <3>1
    <3>3. \A i \in 1..Len(w) : w[i] = k[i]  BY <2>6, <2>9
    <3> QED  BY <3>2, <3>3, SeqEqual
  <2> QED  BY <1>12, <2>1, <2>3, <2>5, <2>7, <2>10
<1>14. Head(<<a, d, b>>) = a /\ Last(<<a, d, b>>) = b  BY DEF Last
<1>15. SplitSegments(t) = <<Head(SplitSegments(t)), d, Last(SplitSegments(t))>>
  BY <1>13, <1>14, Zenon
<1> QED  BY <1>2, <1>7, <1>15

LEMMA PrefixIs ==
    ASSUME NEW D, NEW a \in Seq(D), NEW b \in Seq(D)
    PROVE  IsPrefix(a, b) <=> Len(a) <= Len(b) /\ \A i \in 1..Len(a) : a[i] = b[i]
<1>1. PICK n, m : n = Len(a) /\ n \in Nat /\ m = Len(b) /\ m \in Nat  BY LenProperties
<1>2. SubSeq(a, 1, n) = a  BY <1>1, SubSeqFull
<1>3. ASSUME n <= m
      PROVE  a = SubSeq(b, 1, n) <=> \A i \in 1..n : a[i] = b[i]
  <2>1. \A i \in 1..n : b[i] \in D
    <3>1. \A i \in 1..m : b[i] \in D  BY <1>1, ElementOfSeq
    <3> QED  BY <1>1, <1>3, <3>1
  <2>2. PICK w : w = SubSeq(b, 1, n)  OBVIOUS
  <2>3. w \in Seq(D)  BY <1>1, <2>1, <2>2, SubSeqProperties
  <2>4. Len(w) = IF 1 <= n THEN (n - 1) + 1 ELSE 0  BY <1>1, <2>1, <2>2, SubSeqProperties
  <2>5. \A k \in 1..((n - 1) + 1) : w[k] = b[(1 + k) - 1]  BY <1>1, <2>1, <2>2, SubSeqProperties
  <2>6. Len(w) = n /\ \A k \in 1..n : w[k] = b[k]  BY <1>1, <2>4, <2>5
  <2>7. (\A i \in 1..n : a[i] = b[i]) => a = w  BY <1>1, <2>3, <2>6, SeqEqual
  <2> QED  BY <2>2, <2>6, <2>7
<1> QED  BY <1>1, <1>2, <1>3 DEF IsPrefix

\* A text after the scheme.
Schemed(p, q, D) ==
    /\ q \in Seq(D) /\ Len(q) = Len(p) + 3
    /\ q[1] = "gdrive:" /\ q[2] = "/" /\ q[3] = "/"
    /\ \A i \in 1..Len(p) : q[i + 3] = p[i]
LEMMA WithScheme ==
    ASSUME NEW C, NEW p \in Seq(C)
    PROVE  Schemed(p, Scheme \o p, C \cup {"gdrive:", "/"})
<1>1. PICK s, D : s = Scheme /\ D = C \cup {"gdrive:", "/"}  OBVIOUS
<1>2. s \in Seq(D) /\ Len(s) = 3 /\ s[1] = "gdrive:" /\ s[2] = "/" /\ s[3] = "/"
  BY <1>1 DEF Scheme
<1>3. p \in Seq(D) /\ Len(p) \in Nat  BY <1>1, SeqMonotonic, LenProperties
<1>4. PICK q : q = s \o p  OBVIOUS
<1>5. q \in Seq(D) /\ Len(q) = Len(s) + Len(p)
      /\ \A i \in 1..(Len(s) + Len(p)) : q[i] = IF i <= Len(s) THEN s[i] ELSE p[i - Len(s)]
  BY <1>2, <1>3, <1>4, ConcatProperties
<1>6. \A i \in 1..Len(p) : q[i + 3] = p[i]
  <2> TAKE i \in 1..Len(p)
  <2>1. i + 3 \in 1..(3 + Len(p)) /\ ~(i + 3 <= 3) /\ (i + 3) - 3 = i  BY <1>3
  <2> QED  BY <1>2, <1>5, <2>1
<1>7. Schemed(p, q, D)  BY <1>2, <1>3, <1>5, <1>6 DEF Schemed
<1> QED  BY <1>1, <1>4, <1>7

Ends(p, n) == \A i \in (n + 1)..Len(p) : p[i] = "/"
\* The last character of a text that is no slash.
LEMMA LastOther ==
    ASSUME NEW C, NEW p \in Seq(C)
    PROVE  \E n \in 0..Len(p) : Ends(p, n) /\ (n # 0 => p[n] # "/")
<1>1. PICK l : l = Len(p) /\ l \in Nat  BY LenProperties
<1>2. PICK S : S = {n \in 0..l : \A i \in (n + 1)..l : p[i] = "/"}  OBVIOUS
<1>3. S \in SUBSET Nat /\ l \in S  BY <1>1, <1>2
<1>4. PICK n \in S : \A k \in S : n <= k  BY <1>3, LeastNatural
<1>5. n # 0 => p[n] # "/"
  <2> SUFFICES ASSUME n # 0, p[n] = "/" PROVE FALSE  OBVIOUS
  <2>1. n \in 1..l /\ n - 1 \in 0..l /\ ~(n <= n - 1)  BY <1>1, <1>2
  <2>2. \A i \in ((n - 1) + 1)..l : p[i] = "/"
    <3> TAKE i \in ((n - 1) + 1)..l
    <3>1. i = n \/ i \in (n + 1)..l  BY <1>1, <2>1
    <3> QED  BY <1>2, <3>1
  <2>3. n - 1 \in S  BY <1>2, <2>1, <2>2
  <2> QED  BY <1>4, <2>1, <2>3
<1> QED  BY <1>1, <1>2, <1>5 DEF Ends

LEMMA WithoutSlashIs ==
    ASSUME NEW C, NEW p \in Seq(C), NEW n \in 0..Len(p), Ends(p, n), n # 0 => p[n] # "/",
           NEW q, q = Scheme \o p
    PROVE  WithoutTrailingSlash(q) = SubSeq(q, 1, IF n = 0 THEN 1 ELSE n + 3)
<1>1. PICK D : D = C \cup {"gdrive:", "/"}  OBVIOUS
<1>2. PICK l : l = Len(p) /\ l \in Nat  BY LenProperties
<1>3. Len(q) = l + 3 /\ q[1] = "gdrive:" /\ q[2] = "/" /\ q[3] = "/"
      /\ \A i \in 1..l : q[i + 3] = p[i]
  <2>1. /\ Len(q) = Len(p) + 3 /\ q[1] = "gdrive:" /\ q[2] = "/" /\ q[3] = "/"
        /\ \A i \in 1..Len(p) : q[i + 3] = p[i]
    <3>1. Schemed(p, Scheme \o p, C \cup {"gdrive:", "/"})  BY WithScheme
    <3> QED  BY <3>1 DEF Schemed
  <2> QED  BY <1>2, <2>1
<1>4. PICK m : m = IF n = 0 THEN 1 ELSE n + 3  OBVIOUS
<1>5. m \in 1..(l + 3)  BY <1>2, <1>4
<1>6. \A i \in (m + 1)..(l + 3) : i > 1 /\ q[i] = "/"
  <2> TAKE i \in (m + 1)..(l + 3)
  <2>1. i > 1  BY <1>2, <1>5
  <2>2. CASE i \in 2..3
    <3>1. i = 2 \/ i = 3  BY <2>2
    <3> QED  BY <1>3, <2>1, <3>1
  <2>3. CASE ~(i \in 2..3)
    <3>1. i - 3 \in 1..l /\ i - 3 \in (n + 1)..l /\ (i - 3) + 3 = i  BY <1>2, <1>4, <2>1, <2>3
    <3>2. p[i - 3] = "/"  BY <1>2, <3>1 DEF Ends
    <3>3. q[i] = p[i - 3]  BY <1>3, <3>1
    <3> QED  BY <2>1, <3>2, <3>3
  <2> QED  BY <2>2, <2>3
<1>7. m > 1 => q[m] # "/"
  <2> SUFFICES ASSUME m > 1 PROVE q[m] # "/"  OBVIOUS
  <2>1. n # 0 /\ m = n + 3 /\ n \in 1..l  BY <1>2, <1>4
  <2> QED  BY <1>3, <2>1
<1>8. ASSUME NEW k \in 0..(l + 3), \A i \in (k + 1)..(l + 3) : i > 1 /\ q[i] = "/",
             k > 1 => q[k] # "/"
      PROVE  k = m
  <2>1. k # 0
    <3>1. k = 0 => 1 \in (k + 1)..(l + 3) /\ ~(1 > 1)  BY <1>2
    <3> QED  BY <1>8, <3>1
  <2>2. ~(k < m)
    <3> SUFFICES ASSUME k < m PROVE FALSE  OBVIOUS
    <3>1. m \in (k + 1)..(l + 3) /\ m > 1  BY <1>2, <1>5, <2>1
    <3> QED  BY <1>7, <1>8, <3>1
  <2>3. ~(m < k)
    <3> SUFFICES ASSUME m < k PROVE FALSE  OBVIOUS
    <3>1. k \in (m + 1)..(l + 3) /\ k > 1  BY <1>2, <1>5
    <3> QED  BY <1>6, <1>8, <3>1
  <2> QED  BY <1>2, <1>5, <2>2, <2>3
<1>9. PICK c : c = CHOOSE k \in 0..Len(q) :
                     /\ \A i \in (k + 1)..Len(q) : i > 1 /\ q[i] = "/"
                     /\ k > 1 => q[k] # "/"
  OBVIOUS
<1>10. c = CHOOSE k \in 0..(l + 3) :
                     /\ \A i \in (k + 1)..(l + 3) : i > 1 /\ q[i] = "/"
                     /\ k > 1 => q[k] # "/"
  BY <1>3, <1>9
<1>11. c = m
  <2>1. m \in 0..(l + 3)  BY <1>2, <1>5
  <2>2. /\ c \in 0..(l + 3)
        /\ \A i \in (c + 1)..(l + 3) : i > 1 /\ q[i] = "/"
        /\ c > 1 => q[c] # "/"
    BY <1>6, <1>7, <1>10, <2>1
  <2> QED  BY <1>8, <2>2
<1>12. WithoutTrailingSlash(q) = SubSeq(q, 1, c)  BY <1>9 DEF WithoutTrailingSlash
<1> QED  BY <1>4, <1>11, <1>12

LEMMA FirstOf ==
    ASSUME NEW D, NEW q \in Seq(D), NEW m \in 0..Len(q)
    PROVE  /\ SubSeq(q, 1, m) \in Seq(D) /\ Len(SubSeq(q, 1, m)) = m
           /\ \A i \in 1..m : SubSeq(q, 1, m)[i] = q[i]
<1>1. PICK n : n = Len(q) /\ n \in Nat  BY LenProperties
<1>2. \A i \in 1..m : q[i] \in D
  <2>1. \A i \in 1..n : q[i] \in D  BY <1>1, ElementOfSeq
  <2> QED  BY <1>1, <2>1
<1>3. PICK w : w = SubSeq(q, 1, m)  OBVIOUS
<1>4. w \in Seq(D)  BY <1>1, <1>2, <1>3, SubSeqProperties
<1>5. Len(w) = IF 1 <= m THEN (m - 1) + 1 ELSE 0  BY <1>1, <1>2, <1>3, SubSeqProperties
<1>6. \A k \in 1..((m - 1) + 1) : w[k] = q[(1 + k) - 1]  BY <1>1, <1>2, <1>3, SubSeqProperties
<1>7. Len(w) = m /\ \A k \in 1..m : w[k] = q[k]  BY <1>1, <1>5, <1>6
<1> QED  BY <1>3, <1>4, <1>7

\* The first n characters of p, and the end of a segment after them.
Covers(p, n, g) ==
    /\ n <= Len(g) /\ \A i \in 1..n : p[i] = g[i]
    /\ n = Len(g) \/ g[n + 1] = "/"

LEMMA CoversIs ==
    ASSUME NEW C, "/" \in C, NEW p \in Seq(C), NEW g \in Seq(C), NEW n \in 0..Len(p)
    PROVE  IsPrefix(SubSeq(p, 1, n) \o <<"/">>, g \o <<"/">>) <=> Covers(p, n, g)
<1>1. PICK l : l = Len(g) /\ l \in Nat  BY LenProperties
<1>2. n \in Nat  BY LenProperties
<1>3. PICK d \in Seq(C) : d = <<"/">> /\ Len(d) = 1 /\ d[1] = "/"
  <2>1. <<"/">> \in Seq(C)  OBVIOUS
  <2>2. PICK d : d = <<"/">>  OBVIOUS
  <2>3. Len(d) = 1 /\ d[1] = "/"  BY <2>2
  <2> QED  BY <2>1, <2>2, <2>3
<1>4. PICK w \in Seq(C) : w = SubSeq(p, 1, n) /\ Len(w) = n /\ \A i \in 1..n : w[i] = p[i]
  BY FirstOf
<1>5. PICK a : a = w \o d  OBVIOUS
<1>6. a \in Seq(C) /\ Len(a) = n + 1 /\ (\A i \in 1..n : a[i] = p[i]) /\ a[n + 1] = "/"
  <2>1. a \in Seq(C) /\ Len(a) = Len(w) + Len(d)
        /\ \A i \in 1..(Len(w) + Len(d)) : a[i] = IF i <= Len(w) THEN w[i] ELSE d[i - Len(w)]
    BY <1>5, ConcatProperties
  <2>2. n + 1 \in 1..(Len(w) + Len(d)) /\ ~(n + 1 <= Len(w)) /\ (n + 1) - Len(w) = 1
    <3>1. Len(w) = n /\ Len(d) = 1  BY <1>3, <1>4
    <3> QED  BY <1>2, <3>1
  <2>3. a[n + 1] = d[1]  BY <2>1, <2>2
  <2>4. \A i \in 1..n : a[i] = p[i]
    <3> TAKE i \in 1..n
    <3>1. i \in 1..(Len(w) + Len(d)) /\ i <= Len(w)  BY <1>2, <1>3, <1>4
    <3>2. a[i] = w[i]  BY <2>1, <3>1
    <3> QED  BY <1>4, <3>2
  <2> QED  BY <1>3, <1>4, <2>1, <2>3, <2>4
<1>7. PICK b : b = g \o d  OBVIOUS
<1>8. b \in Seq(C) /\ Len(b) = l + 1 /\ (\A i \in 1..l : b[i] = g[i]) /\ b[l + 1] = "/"
  <2>1. b \in Seq(C) /\ Len(b) = Len(g) + Len(d)
        /\ \A i \in 1..(Len(g) + Len(d)) : b[i] = IF i <= Len(g) THEN g[i] ELSE d[i - Len(g)]
    BY <1>7, ConcatProperties
  <2>2. l + 1 \in 1..(Len(g) + Len(d)) /\ ~(l + 1 <= Len(g)) /\ (l + 1) - Len(g) = 1
    BY <1>1, <1>3
  <2>3. b[l + 1] = d[1]  BY <2>1, <2>2
  <2>4. \A i \in 1..l : b[i] = g[i]
    <3> TAKE i \in 1..l
    <3>1. i \in 1..(Len(g) + Len(d)) /\ i <= Len(g)  BY <1>1, <1>3
    <3> QED  BY <2>1, <3>1
  <2> QED  BY <1>1, <1>3, <2>1, <2>3, <2>4
<1>9. IsPrefix(a, b) <=> n + 1 <= l + 1 /\ \A i \in 1..(n + 1) : a[i] = b[i]
  <2>1. IsPrefix(a, b) <=> Len(a) <= Len(b) /\ \A i \in 1..Len(a) : a[i] = b[i]
    <3>1. a \in Seq(C) /\ b \in Seq(C)  BY <1>6, <1>8
    <3> QED  BY <3>1, PrefixIs
  <2> QED  BY <1>6, <1>8, <2>1
<1>10. ASSUME n + 1 <= l + 1, \A i \in 1..(n + 1) : a[i] = b[i] PROVE Covers(p, n, g)
  <2>1. n <= l  BY <1>1, <1>2, <1>10
  <2>2. \A i \in 1..n : p[i] = g[i]
    <3> TAKE i \in 1..n
    <3>1. i \in 1..(n + 1) /\ i \in 1..l  BY <1>1, <1>2, <2>1
    <3> QED  BY <1>6, <1>8, <1>10, <3>1
  <2>3. n = l \/ g[n + 1] = "/"
    <3> SUFFICES ASSUME n # l PROVE g[n + 1] = "/"  OBVIOUS
    <3>1. n + 1 \in 1..(n + 1) /\ n + 1 \in 1..l  BY <1>1, <1>2, <2>1
    <3> QED  BY <1>6, <1>8, <1>10, <3>1
  <2> QED  BY <1>1, <2>1, <2>2, <2>3 DEF Covers
<1>11. ASSUME Covers(p, n, g) PROVE n + 1 <= l + 1 /\ \A i \in 1..(n + 1) : a[i] = b[i]
  <2>1. n <= l /\ (\A i \in 1..n : p[i] = g[i]) /\ (n = l \/ g[n + 1] = "/")
    BY <1>1, <1>11 DEF Covers
  <2>2. n + 1 <= l + 1  BY <1>1, <1>2, <2>1
  <2>3. ASSUME NEW i \in 1..(n + 1) PROVE a[i] = b[i]
    <3>1. CASE i \in 1..n
      <4>1. i \in 1..l  BY <1>1, <1>2, <2>1, <3>1
      <4> QED  BY <1>6, <1>8, <2>1, <3>1, <4>1
    <3>2. CASE i = n + 1 /\ n = l  BY <1>6, <1>8, <3>2
    <3>3. CASE i = n + 1 /\ n # l
      <4>1. i \in 1..l  BY <1>1, <1>2, <2>1, <3>3
      <4> QED  BY <1>6, <1>8, <2>1, <3>3, <4>1
    <3> QED  BY <1>2, <2>3, <3>1, <3>2, <3>3
  <2> QED  BY <2>2, <2>3
<1> QED  BY <1>3, <1>4, <1>5, <1>7, <1>9, <1>10, <1>11

\* PathMatchesAnyPrefix: a prefix in gdrive_immutable_prefixes covers whole segments
\* only, whatever slashes it ends with.
THEOREM PrefixesExact ==
    ASSUME NEW C, "/" \in C, NEW p \in Seq(C), NEW g \in Seq(C)
    PROVE  PathMatchesAnyPrefix(Scheme \o g, {Scheme \o p})
             <=> \E n \in 0..Len(p) :
                   /\ \A i \in (n + 1)..Len(p) : p[i] = "/"
                   /\ n = 0 \/ IsPrefix(SubSeq(p, 1, n) \o <<"/">>, g \o <<"/">>)
<1>1. PICK n \in 0..Len(p) : Ends(p, n) /\ (n # 0 => p[n] # "/")  BY LastOther
<1>2. PICK l, D : l = Len(p) /\ l \in Nat /\ D = C \cup {"gdrive:", "/"}  BY LenProperties
<1>3. PICK q, h : q = Scheme \o p /\ h = Scheme \o g  OBVIOUS
<1>4. /\ q \in Seq(D) /\ Len(q) = l + 3 /\ q[1] = "gdrive:" /\ q[2] = "/" /\ q[3] = "/"
      /\ \A i \in 1..l : q[i + 3] = p[i]
  <2>1. /\ q \in Seq(D) /\ Len(q) = Len(p) + 3 /\ q[1] = "gdrive:" /\ q[2] = "/" /\ q[3] = "/"
        /\ \A i \in 1..Len(p) : q[i + 3] = p[i]
    <3>1. Schemed(p, Scheme \o p, C \cup {"gdrive:", "/"})  BY WithScheme
    <3>2. Schemed(p, q, D)  BY <1>2, <1>3, <3>1
    <3> QED  BY <3>2 DEF Schemed
  <2> QED  BY <1>2, <2>1
<1>5. PICK k : k = Len(g) /\ k \in Nat  BY LenProperties
<1>6. /\ h \in Seq(D) /\ Len(h) = k + 3 /\ h[1] = "gdrive:" /\ h[2] = "/" /\ h[3] = "/"
      /\ \A i \in 1..k : h[i + 3] = g[i]
  <2>1. /\ h \in Seq(D) /\ Len(h) = Len(g) + 3 /\ h[1] = "gdrive:" /\ h[2] = "/" /\ h[3] = "/"
        /\ \A i \in 1..Len(g) : h[i + 3] = g[i]
    <3>1. Schemed(g, Scheme \o g, C \cup {"gdrive:", "/"})  BY WithScheme
    <3>2. Schemed(g, h, D)  BY <1>2, <1>3, <3>1
    <3> QED  BY <3>2 DEF Schemed
  <2> QED  BY <1>5, <2>1
<1>7. PICK m : m = (IF n = 0 THEN 1 ELSE n + 3) /\ m \in 1..(l + 3)  BY <1>2
<1>8. PICK w : w = SubSeq(q, 1, m)  OBVIOUS
<1>9. WithoutTrailingSlash(q) = w  BY <1>1, <1>3, <1>7, <1>8, WithoutSlashIs
<1>10. w \in Seq(D) /\ Len(w) = m /\ \A i \in 1..m : w[i] = q[i]
  <2>1. m \in 0..Len(q)  BY <1>2, <1>4, <1>7
  <2> QED  BY <1>4, <1>8, <2>1, FirstOf
<1>11. PathMatchesAnyPrefix(h, {q}) <=>
         /\ m <= k + 3 /\ \A i \in 1..m : w[i] = h[i]
         /\ h = w \/ h[m + 1] = "/"
  <2>1. w # <<>>  BY <1>7, <1>10, EmptySeq
  <2>2. IsPrefix(w, h) <=> Len(w) <= Len(h) /\ \A i \in 1..Len(w) : w[i] = h[i]
    BY <1>6, <1>10, PrefixIs
  <2>3. IsPrefix(w, h) <=> m <= k + 3 /\ \A i \in 1..m : w[i] = h[i]
    BY <1>6, <1>10, <2>2
  <2>4. PathMatchesAnyPrefix(h, {q}) <=> w # <<>> /\ IsPrefix(w, h) /\ (h = w \/ h[Len(w) + 1] = "/")
    BY <1>9 DEF PathMatchesAnyPrefix
  <2> QED  BY <1>10, <2>1, <2>3, <2>4
<1>12. CASE n = 0
  <2>1. m = 1 /\ h[2] = "/" /\ w[1] = h[1]
    <3>1. m = 1  BY <1>7, <1>12
    <3> QED  BY <1>4, <1>6, <1>10, <3>1
  <2>2. PathMatchesAnyPrefix(h, {q})
    <3>1. 1 <= k + 3 /\ m + 1 = 2  BY <1>5, <2>1
    <3>2. \A i \in 1..m : i = 1  BY <2>1
    <3> QED  BY <1>11, <2>1, <3>1, <3>2
  <2>3. 0 \in 0..Len(p) /\ \A i \in (0 + 1)..Len(p) : p[i] = "/"
    BY <1>1, <1>2, <1>12 DEF Ends
  <2> QED  BY <1>3, <2>2, <2>3
<1>13. CASE n # 0
  <2>1. m = n + 3 /\ n \in 1..l  BY <1>2, <1>7, <1>13
  <2>2. PathMatchesAnyPrefix(h, {q}) <=> Covers(p, n, g)
    <3>1. \A i \in 1..n : w[i + 3] = p[i]
      <4> TAKE i \in 1..n
      <4>1. i + 3 \in 1..m /\ i \in 1..l  BY <1>2, <2>1
      <4> QED  BY <1>4, <1>10, <4>1
    <3>2. ASSUME m <= k + 3, \A i \in 1..m : w[i] = h[i], h = w \/ h[m + 1] = "/"
          PROVE  Covers(p, n, g)
      <4>1. n <= k  BY <1>2, <1>5, <2>1, <3>2
      <4>2. \A i \in 1..n : p[i] = g[i]
        <5> TAKE i \in 1..n
        <5>1. i + 3 \in 1..m /\ i \in 1..k  BY <1>2, <1>5, <2>1, <4>1
        <5>2. w[i + 3] = h[i + 3]  BY <3>2, <5>1
        <5>3. h[i + 3] = g[i]  BY <1>6, <5>1
        <5> QED  BY <3>1, <5>2, <5>3
      <4>3. n = k \/ g[n + 1] = "/"
        <5>1. CASE h = w
          <6>1. k + 3 = n + 3  BY <1>6, <1>10, <2>1, <5>1
          <6> QED  BY <1>2, <1>5, <2>1, <6>1
        <5>2. CASE h[m + 1] = "/" /\ n # k
          <6>1. n + 1 \in 1..k /\ (n + 1) + 3 = m + 1  BY <1>2, <1>5, <2>1, <4>1, <5>2
          <6> QED  BY <1>6, <5>2, <6>1
        <5> QED  BY <3>2, <5>1, <5>2
      <4> QED  BY <1>5, <4>1, <4>2, <4>3 DEF Covers
    <3>3. ASSUME Covers(p, n, g)
          PROVE  m <= k + 3 /\ (\A i \in 1..m : w[i] = h[i]) /\ (h = w \/ h[m + 1] = "/")
      <4>1. n <= k /\ (\A i \in 1..n : p[i] = g[i]) /\ (n = k \/ g[n + 1] = "/")
        BY <1>5, <3>3 DEF Covers
      <4>2. m <= k + 3  BY <1>2, <1>5, <2>1, <4>1
      <4>3. \A i \in 1..m : w[i] = h[i]
        <5> TAKE i \in 1..m
        <5>1. w[i] = q[i]  BY <1>10
        <5>2. CASE i \in 1..3
          <6>1. i = 1 \/ i = 2 \/ i = 3  BY <5>2
          <6> QED  BY <1>4, <1>6, <5>1, <6>1
        <5>3. CASE ~(i \in 1..3)
          <6>1. i - 3 \in 1..n /\ i - 3 \in 1..k /\ (i - 3) + 3 = i
            BY <1>2, <1>5, <2>1, <4>1, <5>3
          <6>2. w[i] = p[i - 3]  BY <3>1, <6>1
          <6>3. h[i] = g[i - 3]  BY <1>6, <6>1
          <6> QED  BY <4>1, <6>1, <6>2, <6>3
        <5> QED  BY <5>2, <5>3
      <4>4. h = w \/ h[m + 1] = "/"
        <5>1. CASE n = k
          <6>1. Len(h) = Len(w) /\ Len(w) = m  BY <1>6, <1>10, <2>1, <5>1
          <6>2. h = w  BY <1>6, <1>10, <4>3, <6>1, SeqEqual
          <6> QED  BY <6>2
        <5>2. CASE n # k
          <6>1. n + 1 \in 1..k /\ (n + 1) + 3 = m + 1  BY <1>2, <1>5, <2>1, <4>1, <5>2
          <6>2. h[m + 1] = g[n + 1]  BY <1>6, <6>1
          <6> QED  BY <4>1, <5>2, <6>2
        <5> QED  BY <5>1, <5>2
      <4> QED  BY <4>2, <4>3, <4>4
    <3> QED  BY <1>11, <3>2, <3>3
  <2>3. \A i \in (n + 1)..Len(p) : p[i] = "/"  BY <1>1 DEF Ends
  <2>4. ASSUME NEW x \in 0..Len(p), \A i \in (x + 1)..Len(p) : p[i] = "/",
               x = 0 \/ IsPrefix(SubSeq(p, 1, x) \o <<"/">>, g \o <<"/">>)
        PROVE  Covers(p, n, g)
    <3>1. n <= x
      <4>1. ~(n \in (x + 1)..Len(p))  BY <1>1, <1>13, <2>4
      <4> QED  BY <1>2, <2>1, <4>1
    <3>2. Covers(p, x, g)  BY <1>2, <2>1, <2>4, <3>1, CoversIs
    <3>3. x <= k /\ \A i \in 1..x : p[i] = g[i]  BY <1>5, <3>2 DEF Covers
    <3>4. CASE n = x  BY <3>2, <3>4
    <3>5. CASE n # x
      <4>1. n + 1 \in 1..x /\ n + 1 \in (n + 1)..Len(p) /\ n <= k /\ \A i \in 1..n : i \in 1..x
        BY <1>2, <1>5, <2>1, <3>1, <3>3, <3>5
      <4>2. g[n + 1] = "/"  BY <2>3, <3>3, <4>1
      <4> QED  BY <1>5, <3>3, <4>1, <4>2 DEF Covers
    <3> QED  BY <3>4, <3>5
  <2>5. ASSUME Covers(p, n, g)
        PROVE  IsPrefix(SubSeq(p, 1, n) \o <<"/">>, g \o <<"/">>)
    BY <2>5, CoversIs
  <2> QED  BY <1>1, <1>3, <2>2, <2>3, <2>4, <2>5
<1> QED  BY <1>12, <1>13

\* gdrive_uri.cpp: whatever text an address is made of, well formed or not, it means
\* what UrisExact says.
THEOREM TextsExact ==
    ASSUME GlobAssumption, glob \in Seq(DOMAIN Code)
    PROVE  UrisExact
<1>1. PICK C : C = DOMAIN Code /\ "/" \in C /\ "id:" \in C  BY DEF GlobAssumption
<1>2. glob \in Seq(C)  BY <1>1
<1>3. PICK t, u : t = glob /\ u = parsed /\ u = ParseGDriveUri(t) /\ t \in Seq(C)
  BY <1>2 DEF parsed
<1>4. u.kind = "PATH" => UriText(u) = Squeezed(t)
  <2> SUFFICES ASSUME u.kind = "PATH" PROVE UriText(u) = Squeezed(t)  OBVIOUS
  <2>1. u.segments = SplitSegments(t)  BY <1>3, ParsedIs
  <2>2. JoinSegments(SplitSegments(t)) = Squeezed(t)  BY <1>1, <1>3, JoinSplit
  <2> QED  BY <2>1, <2>2 DEF UriText
<1>5. u # Rejected /\ (u.kind = "PATH" => ~StartsWithId(Squeezed(t))) =>
        ParseGDriveUri(UriText(u)) = u
  BY <1>1, <1>3, RoundTrips
<1>6. u # Rejected /\ (u.kind = "PATH" => ~StartsWithId(Squeezed(t))) /\ u.segments # <<>> =>
        /\ ParseGDriveUri(ParentPath(u)) = Path(Front(u.segments))
        /\ JoinGDrivePath(ParentPath(u), FileName(u)) = Squeezed(t)
        /\ CanonicalPathOf(u) = Squeezed(t)
  BY <1>1, <1>3, ParentAndName
<1>7. IsFileIdFallbackGlobProbe(t) =>
        /\ u = Rejected
        /\ SplitSegments(t) = <<Head(SplitSegments(t)), <<"*", "*">>, Last(SplitSegments(t))>>
  BY <1>1, <1>3, ProbeIs
<1>8. \A p \in ImmutablePrefixes :
        PathMatchesAnyPrefix(Scheme \o t, {Scheme \o p})
          <=> \E n \in 0..Len(p) :
                /\ \A i \in (n + 1)..Len(p) : p[i] = "/"
                /\ n = 0 \/ IsPrefix(SubSeq(p, 1, n) \o <<"/">>, t \o <<"/">>)
  <2> TAKE p \in ImmutablePrefixes
  <2>1. p \in Seq(C)  BY <1>1 DEF GlobAssumption
  <2> QED  BY <1>1, <1>3, <2>1, PrefixesExact
<1> QED  BY <1>3, <1>4, <1>5, <1>6, <1>7, <1>8 DEF UrisExact

(***************************************************************************)
(* Patterns.                                                               *)
(***************************************************************************)
SlashRound(s, i, segments) ==
    IF s[i] = "/" THEN Append(segments, <<>>)
    ELSE [segments EXCEPT ![Len(segments)] = Append(@, s[i])]
SlashLoop(s) ==
    CHOOSE g : g = [i \in 0..Len(s) |-> IF i = 0 THEN <<<<>>>> ELSE SlashRound(s, i, g[i - 1])]

LEMMA SplitOnSlashIsLoop ==
    ASSUME NEW C, NEW s \in Seq(C)
    PROVE  \E f \in [0..Len(s) -> Seq(Seq(C))] :
             /\ f[0] = <<<<>>>>
             /\ \A i \in 1..Len(s) : f[i] = SlashRound(s, i, f[i - 1])
             /\ SplitOnSlash(s) = f[Len(s)]
<1>1. PICK n, V : n = Len(s) /\ n \in Nat /\ V = Seq(Seq(C))  BY LenProperties
<1>2. \A i \in 1..n, v \in V : SlashRound(s, i, v) \in V
  <2> TAKE i \in 1..n, v \in V
  <2>1. s[i] \in C /\ v \in Seq(Seq(C)) /\ <<>> \in Seq(C)  BY <1>1, ElementOfSeq
  <2>2. [v EXCEPT ![Len(v)] = Append(@, s[i])] \in V  BY <1>1, <2>1, AppendToLast
  <2>3. Append(v, <<>>) \in V
    <3>1. PICK T : T = Seq(C)  OBVIOUS
    <3>2. v \in Seq(T) /\ <<>> \in T  BY <2>1, <3>1
    <3>3. Append(v, <<>>) \in Seq(T)  BY <3>2, AppendProperties
    <3> QED  BY <1>1, <3>1, <3>3
  <2> QED  BY <2>2, <2>3 DEF SlashRound
<1>3. PICK step : step = [x \in (1..n) \X V |-> SlashRound(s, x[1], x[2])]  OBVIOUS
<1>4. \A i \in 1..n, v \in V : step[<<i, v>>] = SlashRound(s, i, v)  BY <1>3
<1>5. <<<<>>>> \in V  BY <1>1
<1>6. PICK f \in [0..n -> V] : f[0] = <<<<>>>> /\ \A i \in 1..n : f[i] = step[<<i, f[i - 1]>>]
  <2>1. StepsWithin(step, n, V)  BY <1>2, <1>4 DEF StepsWithin
  <2>2. PICK f \in [0..n -> V] : Iterates(f, n, <<<<>>>>, step)  BY <1>1, <1>5, <2>1, Recursion
  <2> QED  BY <2>2 DEF Iterates
<1>7. \A i \in 1..n : f[i] = SlashRound(s, i, f[i - 1])
  <2> TAKE i \in 1..n
  <2>1. i - 1 \in 0..n  BY <1>1
  <2>2. f[i - 1] \in V  BY <2>1
  <2> QED  BY <1>4, <1>6, <2>2
<1>8. f = [i \in 0..n |-> IF i = 0 THEN <<<<>>>> ELSE SlashRound(s, i, f[i - 1])]
  <2>1. \A i \in 0..n : f[i] = IF i = 0 THEN <<<<>>>> ELSE SlashRound(s, i, f[i - 1])
    <3> TAKE i \in 0..n
    <3>1. CASE i = 0  BY <1>6, <3>1
    <3>2. CASE i # 0
      <4>1. i \in 1..n  BY <1>1, <3>2
      <4> QED  BY <1>7, <3>2, <4>1
    <3> QED  BY <3>1, <3>2
  <2> QED  BY <2>1
<1>9. PICK g : g = SlashLoop(s)  OBVIOUS
<1>10. g = [i \in 0..n |-> IF i = 0 THEN <<<<>>>> ELSE SlashRound(s, i, g[i - 1])]
  BY <1>1, <1>8, <1>9, Zenon DEF SlashLoop
<1>11. g[0] = <<<<>>>> /\ \A i \in 1..n : g[i] = SlashRound(s, i, g[i - 1])
  <2>1. PICK h : h = [i \in 0..n |-> IF i = 0 THEN <<<<>>>> ELSE SlashRound(s, i, g[i - 1])]  OBVIOUS
  <2>2. g = h  BY <1>10, <2>1
  <2>3. h[0] = <<<<>>>> /\ \A i \in 1..n : h[i] = SlashRound(s, i, g[i - 1])  BY <1>1, <2>1
  <2> QED  BY <2>2, <2>3
<1>12. \A i \in 1..n : f[i - 1] = g[i - 1] => f[i] = g[i]  BY <1>7, <1>11
<1>13. f[n] = g[n]
  <2>1. Alike(f, g, n)  BY <1>6, <1>11, <1>12 DEF Alike
  <2> QED  BY <1>1, <2>1, SameLoop
<1>14. SplitOnSlash(s) = g[n]  BY <1>1, <1>9 DEF SplitOnSlash, SlashLoop, SlashRound
<1> QED  BY <1>1, <1>6, <1>7, <1>13, <1>14

LEMMA SplitOnSlashTyped == ASSUME NEW C, NEW s \in Seq(C) PROVE SplitOnSlash(s) \in Seq(Seq(C))
<1>1. PICK f : f \in [0..Len(s) -> Seq(Seq(C))] /\ SplitOnSlash(s) = f[Len(s)]
  BY SplitOnSlashIsLoop
<1>2. Len(s) \in 0..Len(s)
  <2>1. Len(s) \in Nat  BY LenProperties
  <2> QED  BY <2>1
<1> QED  BY <1>1, <1>2
LEMMA JoinTyped == ASSUME NEW C, "/" \in C, NEW v \in Seq(Seq(C)) PROVE JoinSegments(v) \in Seq(C)
<1>1. PICK f : f \in [0..Len(v) -> Seq(C)] /\ JoinSegments(v) = f[Len(v)]  BY JoinIsLoop
<1>2. Len(v) \in 0..Len(v)
  <2>1. Len(v) \in Nat  BY LenProperties
  <2> QED  BY <2>1
<1> QED  BY <1>1, <1>2

\* The literal prefix is a text.
Literal(segments, k) == \A i \in 1..k : ~HasGlobMetacharacters(segments[i])
LEMMA PrefixTyped ==
    ASSUME NEW C, "/" \in C, NEW s \in Seq(C)
    PROVE  SplitGlob(s).literal_prefix \in Seq(C)
<1>1. PICK v : v = SplitOnSlash(s) /\ v \in Seq(Seq(C))  BY SplitOnSlashTyped
<1>2. PICK l : l = Len(v) /\ l \in Nat  BY <1>1, LenProperties
<1>3. \E k \in 0..l : Literal(v, k) /\ (k = l \/ ~Literal(v, k + 1))
  <2>1. PICK S : S = {k \in 0..l : ~Literal(v, k)}  OBVIOUS
  <2>2. CASE S = {}
    <3>1. l \in 0..l  BY <1>2
    <3> QED  BY <2>1, <2>2, <3>1
  <2>3. CASE S # {}
    <3>1. S \in SUBSET Nat  BY <1>2, <2>1
    <3>2. PICK k \in S : \A j \in S : k <= j  BY <2>3, <3>1, LeastNatural
    <3>3. Literal(v, 0)  BY DEF Literal
    <3>4. k - 1 \in 0..l /\ ~(k <= k - 1) /\ (k - 1) + 1 = k
      <4>1. k \in 0..l /\ k # 0  BY <2>1, <3>2, <3>3
      <4> QED  BY <1>2, <4>1
    <3>5. Literal(v, k - 1) /\ ~Literal(v, k)  BY <2>1, <3>2, <3>4
    <3> QED  BY <3>4, <3>5
  <2> QED  BY <2>2, <2>3
<1>4. PICK n : n = CHOOSE k \in 0..l : Literal(v, k) /\ (k = l \/ ~Literal(v, k + 1))  OBVIOUS
<1>5. n \in 0..l  BY <1>3, <1>4
<1>6. SubSeq(v, 1, n) \in Seq(Seq(C))
  <2>1. PICK T : T = Seq(C)  OBVIOUS
  <2>2. v \in Seq(T) /\ n \in 0..Len(v)  BY <1>1, <1>2, <1>5, <2>1
  <2>3. SubSeq(v, 1, n) \in Seq(T)  BY <2>2, FirstOf
  <2> QED  BY <2>1, <2>3
<1>7. SplitGlob(s).literal_prefix = JoinSegments(SubSeq(v, 1, n))
  BY <1>1, <1>2, <1>4 DEF SplitGlob, Literal
<1> QED  BY <1>6, <1>7, JoinTyped

IsOpening(c) == c = "{"
IsClosing(c) == c = "}"
OpenRound(s, k, open) ==
    IF IsOpening(s[k]) THEN open + 1 ELSE IF IsClosing(s[k]) /\ open > 0 THEN open - 1 ELSE open
OpenLoop(s, n) ==
    CHOOSE g : g = [k \in 0..n |-> IF k = 0 THEN 0 ELSE OpenRound(s, k, g[k - 1])]

LEMMA OpenIsLoop ==
    ASSUME NEW s, NEW m \in Nat
    PROVE  \E f \in [0..m -> Nat] :
             /\ f[0] = 0
             /\ \A i \in 1..m : f[i] = OpenRound(s, i, f[i - 1])
             /\ Open(s, m) = f[m]
<1>1. PICK n, V : n = m /\ n \in Nat /\ V = Nat  OBVIOUS
<1>2. \A i \in 1..n, v \in V : OpenRound(s, i, v) \in V
  <2> TAKE i \in 1..n, v \in V
  <2> QED  BY <1>1 DEF OpenRound
<1>3. PICK step : step = [x \in (1..n) \X V |-> OpenRound(s, x[1], x[2])]  OBVIOUS
<1>4. \A i \in 1..n, v \in V : step[<<i, v>>] = OpenRound(s, i, v)  BY <1>3
<1>5. 0 \in V  BY <1>1
<1>6. PICK f \in [0..n -> V] : f[0] = 0 /\ \A i \in 1..n : f[i] = step[<<i, f[i - 1]>>]
  <2>1. StepsWithin(step, n, V)  BY <1>2, <1>4 DEF StepsWithin
  <2>2. PICK f \in [0..n -> V] : Iterates(f, n, 0, step)  BY <1>1, <1>5, <2>1, Recursion
  <2> QED  BY <2>2 DEF Iterates
<1>7. \A i \in 1..n : f[i] = OpenRound(s, i, f[i - 1])
  <2> TAKE i \in 1..n
  <2>1. i - 1 \in 0..n  BY <1>1
  <2>2. f[i - 1] \in V  BY <2>1
  <2> QED  BY <1>4, <1>6, <2>2
<1>8. f = [i \in 0..n |-> IF i = 0 THEN 0 ELSE OpenRound(s, i, f[i - 1])]
  <2>1. \A i \in 0..n : f[i] = IF i = 0 THEN 0 ELSE OpenRound(s, i, f[i - 1])
    <3> TAKE i \in 0..n
    <3>1. CASE i = 0  BY <1>6, <3>1
    <3>2. CASE i # 0
      <4>1. i \in 1..n  BY <1>1, <3>2
      <4> QED  BY <1>7, <3>2, <4>1
    <3> QED  BY <3>1, <3>2
  <2> QED  BY <2>1
<1>9. PICK g : g = OpenLoop(s, m)  OBVIOUS
<1>10. g = [i \in 0..n |-> IF i = 0 THEN 0 ELSE OpenRound(s, i, g[i - 1])]
  BY <1>1, <1>8, <1>9, Zenon DEF OpenLoop
<1>11. g[0] = 0 /\ \A i \in 1..n : g[i] = OpenRound(s, i, g[i - 1])
  <2>1. PICK h : h = [i \in 0..n |-> IF i = 0 THEN 0 ELSE OpenRound(s, i, g[i - 1])]  OBVIOUS
  <2>2. g = h  BY <1>10, <2>1
  <2>3. h[0] = 0 /\ \A i \in 1..n : h[i] = OpenRound(s, i, g[i - 1])  BY <1>1, <2>1
  <2> QED  BY <2>2, <2>3
<1>12. \A i \in 1..n : f[i - 1] = g[i - 1] => f[i] = g[i]  BY <1>7, <1>11
<1>13. f[n] = g[n]
  <2>1. Alike(f, g, n)  BY <1>6, <1>11, <1>12 DEF Alike
  <2> QED  BY <1>1, <2>1, SameLoop
<1>14. Open(s, m) = g[n]  BY <1>1, <1>9 DEF Open, OpenLoop, OpenRound, IsOpening, IsClosing
<1> QED  BY <1>1, <1>6, <1>7, <1>13, <1>14

\* One character opens one brace, or closes one, or neither.
LEMMA OpenGoesOn ==
    ASSUME NEW s, NEW m \in Nat
    PROVE  Open(s, m) \in Nat /\ Open(s, 0) = 0 /\ Open(s, m + 1) = OpenRound(s, m + 1, Open(s, m))
<1>1. PICK n : n = m + 1 /\ n \in Nat  OBVIOUS
<1>2. PICK f : /\ f \in [0..m -> Nat] /\ f[0] = 0
               /\ \A i \in 1..m : f[i] = OpenRound(s, i, f[i - 1])
               /\ Open(s, m) = f[m]
  BY OpenIsLoop
<1>3. PICK g : /\ g \in [0..n -> Nat] /\ g[0] = 0
               /\ \A i \in 1..n : g[i] = OpenRound(s, i, g[i - 1])
               /\ Open(s, n) = g[n]
  BY <1>1, OpenIsLoop
<1>4. \A i \in 1..m : f[i - 1] = g[i - 1] => f[i] = g[i]
  <2> TAKE i \in 1..m
  <2>1. i \in 1..n  BY <1>1
  <2> QED  BY <1>2, <1>3, <2>1
<1>5. f[m] = g[m]
  <2>1. Alike(f, g, m)  BY <1>2, <1>3, <1>4 DEF Alike
  <2> QED  BY <2>1, SameLoop
<1>6. n \in 1..n /\ n - 1 = m /\ m \in 0..m  BY <1>1
<1>7. Open(s, m + 1) = OpenRound(s, m + 1, Open(s, m))  BY <1>1, <1>2, <1>3, <1>5, <1>6
<1>8. Open(s, 0) = 0
  <2>1. PICK h : h[0] = 0 /\ Open(s, 0) = h[0]  BY OpenIsLoop
  <2> QED  BY <2>1
<1> QED  BY <1>2, <1>6, <1>7, <1>8

Ending(s, i) == s[i] = "}" /\ Open(s, i - 1) = 1 /\ Open(s, i) = 0
Beginning(s, e, i) == s[i] = "{" /\ Open(s, i - 1) = 0
    /\ \A j \in (i + 1)..(e - 1) : Open(s, j) > 0
Endings(s) == {i \in DOMAIN s : Ending(s, i)}

LEMMA EndingIs == ASSUME NEW s, NEW i, Ending(s, i) PROVE Open(s, i - 1) = 1
BY Zenon DEF Ending
LEMMA BeginningIs ==
    ASSUME NEW s, NEW e, NEW i, IsOpening(s[i]), Open(s, i - 1) = 0,
           \A j \in (i + 1)..(e - 1) : Open(s, j) > 0
    PROVE  Beginning(s, e, i)
BY Zenon DEF Beginning, IsOpening
LEMMA GroupEndIs ==
    ASSUME NEW s
    PROVE  GroupEnd(s) = IF Endings(s) = {} THEN 0 ELSE CHOOSE i \in Endings(s) : \A j \in Endings(s) : i <= j
BY Zenon DEF GroupEnd, Endings, Ending
LEMMA GroupStartIs ==
    ASSUME NEW s
    PROVE  GroupStart(s) = CHOOSE i \in 1..GroupEnd(s) : Beginning(s, GroupEnd(s), i)
BY Zenon DEF GroupStart, Beginning

\* The first balanced group begins after the last place outside any brace.
LEMMA GroupIs ==
    ASSUME NEW C, NEW s \in Seq(C), GroupEnd(s) # 0
    PROVE  GroupEnd(s) \in 1..Len(s) /\ GroupStart(s) \in 1..GroupEnd(s)
<1>1. PICK n : n = Len(s) /\ n \in Nat /\ DOMAIN s = 1..n  BY LenProperties
<1> DEFINE ends == Endings(s)
<1>3. PICK e : e = GroupEnd(s)  OBVIOUS
<1>4. e = IF ends = {} THEN 0 ELSE CHOOSE i \in ends : \A j \in ends : i <= j
  BY <1>3, GroupEndIs
<1>5. ends # {}  BY <1>3, <1>4
<1>6. ends \in SUBSET (1..n) /\ ends \in SUBSET Nat
  <2>1. ends \in SUBSET (1..n)  BY <1>1 DEF Endings
  <2> QED  BY <1>1, <2>1
<1>7. \E i \in ends : \A j \in ends : i <= j  BY <1>5, <1>6, LeastNatural
<1>8. e \in ends  BY <1>4, <1>5, <1>7
<1>9. e \in 1..n /\ Open(s, e - 1) = 1
  <2>1. Ending(s, e)  BY <1>8 DEF Endings
  <2>2. e \in 1..n  BY <1>6, <1>8
  <2> QED  BY <2>1, <2>2, EndingIs
<1>10. PICK S : S = {k \in 0..(e - 1) : Open(s, (e - 1) - k) = 0}  OBVIOUS
<1>11. S \in SUBSET Nat /\ e - 1 \in S
  <2>1. (e - 1) - (e - 1) = 0 /\ e - 1 \in 0..(e - 1)  BY <1>9
  <2>2. Open(s, 0) = 0  BY OpenGoesOn
  <2> QED  BY <1>9, <1>10, <2>1, <2>2
<1>12. PICK k \in S : \A j \in S : k <= j  BY <1>11, LeastNatural
<1>13. PICK m : m = (e - 1) - k /\ m \in 0..(e - 1) /\ Open(s, m) = 0
  <2>1. k \in 0..(e - 1)  BY <1>10, <1>12
  <2> QED  BY <1>9, <1>10, <1>12, <2>1
<1>14. \A j \in (m + 1)..(e - 1) : Open(s, j) > 0
  <2> TAKE j \in (m + 1)..(e - 1)
  <2>1. (e - 1) - j \in 0..(e - 1) /\ ~(k <= (e - 1) - j) /\ (e - 1) - ((e - 1) - j) = j
        /\ j \in Nat
    <3>1. k \in 0..(e - 1)  BY <1>10, <1>12
    <3> QED  BY <1>9, <1>13, <3>1
  <2>2. Open(s, j) # 0  BY <1>10, <1>12, <2>1
  <2>3. Open(s, j) \in Nat  BY <2>1, OpenGoesOn
  <2> QED  BY <2>2, <2>3
<1>15. m + 1 \in 1..e /\ m + 1 \in (m + 1)..(e - 1) /\ (m + 1) - 1 = m /\ m \in Nat
  <2>1. m # e - 1  BY <1>9, <1>13
  <2> QED  BY <1>9, <1>13, <2>1
<1>16. IsOpening(s[m + 1])
  <2>1. Open(s, m + 1) = OpenRound(s, m + 1, 0)  BY <1>13, <1>15, OpenGoesOn
  <2>2. Open(s, m + 1) > 0  BY <1>14, <1>15
  <2> QED  BY <2>1, <2>2 DEF OpenRound
<1>17. \A j \in ((m + 1) + 1)..(e - 1) : Open(s, j) > 0  BY <1>14, <1>15
<1>18. Beginning(s, e, m + 1)  BY <1>13, <1>15, <1>16, <1>17, BeginningIs
<1>19. GroupStart(s) = CHOOSE i \in 1..e : Beginning(s, e, i)  BY <1>3, GroupStartIs
<1>20. GroupStart(s) \in 1..e  BY <1>15, <1>18, <1>19
<1> QED  BY <1>1, <1>3, <1>9, <1>20

AlternativesRound(s, i, parts) ==
    IF Separates(s, i) THEN Append(parts, <<>>)
    ELSE [parts EXCEPT ![Len(parts)] = Append(@, s[i])]
AlternativesLoop(s) ==
    CHOOSE g : g = [i \in 0..Len(s) |->
                      IF i = 0 THEN <<<<>>>> ELSE AlternativesRound(s, i, g[i - 1])]

LEMMA AlternativesIsLoop ==
    ASSUME NEW C, NEW s \in Seq(C)
    PROVE  \E f \in [0..Len(s) -> Seq(Seq(C))] :
             /\ f[0] = <<<<>>>>
             /\ \A i \in 1..Len(s) : f[i] = AlternativesRound(s, i, f[i - 1])
             /\ Alternatives(s) = f[Len(s)]
<1>1. PICK n, V : n = Len(s) /\ n \in Nat /\ V = Seq(Seq(C))  BY LenProperties
<1>2. \A i \in 1..n, v \in V : AlternativesRound(s, i, v) \in V
  <2> TAKE i \in 1..n, v \in V
  <2>1. s[i] \in C /\ v \in Seq(Seq(C)) /\ <<>> \in Seq(C)  BY <1>1, ElementOfSeq
  <2>2. [v EXCEPT ![Len(v)] = Append(@, s[i])] \in V  BY <1>1, <2>1, AppendToLast
  <2>3. Append(v, <<>>) \in V
    <3>1. PICK T : T = Seq(C)  OBVIOUS
    <3>2. v \in Seq(T) /\ <<>> \in T  BY <2>1, <3>1
    <3>3. Append(v, <<>>) \in Seq(T)  BY <3>2, AppendProperties
    <3> QED  BY <1>1, <3>1, <3>3
  <2> QED  BY <2>2, <2>3 DEF AlternativesRound
<1>3. PICK step : step = [x \in (1..n) \X V |-> AlternativesRound(s, x[1], x[2])]  OBVIOUS
<1>4. \A i \in 1..n, v \in V : step[<<i, v>>] = AlternativesRound(s, i, v)  BY <1>3
<1>5. <<<<>>>> \in V  BY <1>1
<1>6. PICK f \in [0..n -> V] : f[0] = <<<<>>>> /\ \A i \in 1..n : f[i] = step[<<i, f[i - 1]>>]
  <2>1. StepsWithin(step, n, V)  BY <1>2, <1>4 DEF StepsWithin
  <2>2. PICK f \in [0..n -> V] : Iterates(f, n, <<<<>>>>, step)  BY <1>1, <1>5, <2>1, Recursion
  <2> QED  BY <2>2 DEF Iterates
<1>7. \A i \in 1..n : f[i] = AlternativesRound(s, i, f[i - 1])
  <2> TAKE i \in 1..n
  <2>1. i - 1 \in 0..n  BY <1>1
  <2>2. f[i - 1] \in V  BY <2>1
  <2> QED  BY <1>4, <1>6, <2>2
<1>8. f = [i \in 0..n |-> IF i = 0 THEN <<<<>>>> ELSE AlternativesRound(s, i, f[i - 1])]
  <2>1. \A i \in 0..n : f[i] = IF i = 0 THEN <<<<>>>> ELSE AlternativesRound(s, i, f[i - 1])
    <3> TAKE i \in 0..n
    <3>1. CASE i = 0  BY <1>6, <3>1
    <3>2. CASE i # 0
      <4>1. i \in 1..n  BY <1>1, <3>2
      <4> QED  BY <1>7, <3>2, <4>1
    <3> QED  BY <3>1, <3>2
  <2> QED  BY <2>1
<1>9. PICK g : g = AlternativesLoop(s)  OBVIOUS
<1>10. g = [i \in 0..n |-> IF i = 0 THEN <<<<>>>> ELSE AlternativesRound(s, i, g[i - 1])]
  BY <1>1, <1>8, <1>9, Zenon DEF AlternativesLoop
<1>11. g[0] = <<<<>>>> /\ \A i \in 1..n : g[i] = AlternativesRound(s, i, g[i - 1])
  <2>1. PICK h : h = [i \in 0..n |-> IF i = 0 THEN <<<<>>>> ELSE AlternativesRound(s, i, g[i - 1])]  OBVIOUS
  <2>2. g = h  BY <1>10, <2>1
  <2>3. h[0] = <<<<>>>> /\ \A i \in 1..n : h[i] = AlternativesRound(s, i, g[i - 1])  BY <1>1, <2>1
  <2> QED  BY <2>2, <2>3
<1>12. \A i \in 1..n : f[i - 1] = g[i - 1] => f[i] = g[i]  BY <1>7, <1>11
<1>13. f[n] = g[n]
  <2>1. Alike(f, g, n)  BY <1>6, <1>11, <1>12 DEF Alike
  <2> QED  BY <1>1, <2>1, SameLoop
<1>14. Alternatives(s) = g[n]  BY <1>1, <1>9 DEF Alternatives, AlternativesLoop, AlternativesRound
<1> QED  BY <1>1, <1>6, <1>7, <1>13, <1>14

LEMMA AlternativesTyped == ASSUME NEW C, NEW s \in Seq(C) PROVE Alternatives(s) \in Seq(Seq(C))
<1>1. PICK f : f \in [0..Len(s) -> Seq(Seq(C))] /\ Alternatives(s) = f[Len(s)]
  BY AlternativesIsLoop
<1>2. Len(s) \in 0..Len(s)
  <2>1. Len(s) \in Nat  BY LenProperties
  <2> QED  BY <2>1
<1> QED  BY <1>1, <1>2
-----------------------------------------------------------------------------
(***************************************************************************)
(* Expansions.                                                             *)
(***************************************************************************)
LEMMA Divides ==
    ASSUME NEW x \in Nat, NEW a \in Nat, NEW b \in Nat, x < a * b
    PROVE  (x \div b) + 1 \in 1..a /\ (x % b) + 1 \in 1..b
<1>1. b > 0
  <2> SUFFICES ASSUME b = 0 PROVE FALSE  OBVIOUS
  <2>1. a * 0 = 0  OBVIOUS
  <2> QED  BY <2>1
<1>2. PICK q, r : q = x \div b /\ r = x % b  OBVIOUS
<1>3. q \in Nat /\ r \in 0..(b - 1)  BY <1>1, <1>2
<1>4. x = b * q + r  BY <1>1, <1>2
<1>5. b * q \in Nat /\ a * b \in Nat
  <2>1. \A y, z \in Nat : y * z \in Nat  OBVIOUS
  <2> QED  BY <1>3, <2>1
<1>6. b * q < a * b  BY <1>1, <1>3, <1>4, <1>5
<1>7. q < a  BY <1>1, <1>3, <1>6
<1> QED  BY <1>1, <1>2, <1>3, <1>7

LEMMA ProductTyped ==
    ASSUME NEW C, NEW p \in Seq(C), NEW u \in Seq(Seq(C)), NEW v \in Seq(Seq(C))
    PROVE  Product(p, u, v) \in Seq(Seq(C))
<1>1. PICK a, b : a = Len(u) /\ b = Len(v) /\ a \in Nat /\ b \in Nat  BY LenProperties
<1>2. PICK n : n = a * b /\ n \in Nat
  <2>1. \A y, z \in Nat : y * z \in Nat  OBVIOUS
  <2> QED  BY <1>1, <2>1
<1>3. PICK w : w = Product(p, u, v)  OBVIOUS
<1>4. w = [i \in 1..n |-> p \o u[((i - 1) \div b) + 1] \o v[((i - 1) % b) + 1]]
  BY <1>1, <1>2, <1>3 DEF Product
<1>5. \A i \in 1..n : p \o u[((i - 1) \div b) + 1] \o v[((i - 1) % b) + 1] \in Seq(C)
  <2> TAKE i \in 1..n
  <2>1. PICK j, k : j = ((i - 1) \div b) + 1 /\ k = ((i - 1) % b) + 1  OBVIOUS
  <2>2. i - 1 \in Nat /\ i - 1 < n  BY <1>2
  <2>3. j \in 1..a /\ k \in 1..b  BY <1>1, <1>2, <2>1, <2>2, Divides
  <2>4. u[j] \in Seq(C) /\ v[k] \in Seq(C)  BY <1>1, <2>3, ElementOfSeq
  <2>5. p \o u[j] \in Seq(C)  BY <2>4, ConcatProperties
  <2>6. p \o u[j] \o v[k] \in Seq(C)  BY <2>4, <2>5, ConcatProperties
  <2> QED  BY <2>1, <2>6
<1>6. PICK T : T = Seq(C)  OBVIOUS
<1>7. w \in [1..n -> T]  BY <1>4, <1>5, <1>6
<1>8. w \in Seq(T)
  <2>2. Seq(T) = UNION {[1..k -> T] : k \in Nat}  BY SeqDef, Zenon
  <2>3. [1..n -> T] \in {[1..k -> T] : k \in Nat}  BY <1>2, Zenon
  <2> QED  BY <1>7, <2>2, <2>3, Zenon
<1> QED  BY <1>3, <1>6, <1>8

Expansions(C) == [budget : Int, out : Seq(Seq(C))]
SumRound(deeper, prefix, heads, suffixes, k, sum) ==
    LET expanded == deeper[heads[k]][sum.budget] IN
    IF expanded.budget < 0 THEN Overflow
    ELSE Push([sum EXCEPT !.budget = expanded.budget],
              Product(prefix, expanded.out, suffixes.out))
SumLoop(deeper, prefix, heads, suffixes) ==
    CHOOSE g : g = [k \in 0..Len(heads) |->
        IF k = 0 THEN [budget |-> suffixes.budget, out |-> <<>>]
        ELSE SumRound(deeper, prefix, heads, suffixes, k, g[k - 1])]

LEMMA PushTyped ==
    ASSUME NEW C, NEW x \in Expansions(C), NEW v \in Seq(Seq(C))
    PROVE  Push(x, v) \in Expansions(C) /\ Overflow \in Expansions(C)
<1>1. PICK T : T = Seq(C)  OBVIOUS
<1>2. x.out \in Seq(T) /\ x.budget \in Int /\ v \in Seq(T) /\ <<>> \in Seq(T)
  BY <1>1 DEF Expansions
<1>3. x.out \o v \in Seq(T) /\ Len(v) \in Nat  BY <1>2, ConcatProperties, LenProperties
<1>4. Overflow \in Expansions(C)  BY <1>1, <1>2 DEF Overflow, Expansions
<1> QED  BY <1>1, <1>2, <1>3, <1>4 DEF Push, Expansions

LEMMA SumRoundTyped ==
    ASSUME NEW C, NEW deeper \in [Seq(C) -> [Int -> Expansions(C)]], NEW p \in Seq(C),
           NEW heads \in Seq(Seq(C)), NEW suffixes \in Expansions(C),
           NEW k \in 1..Len(heads), NEW v \in Expansions(C)
    PROVE  SumRound(deeper, p, heads, suffixes, k, v) \in Expansions(C)
<1>1. heads[k] \in Seq(C)  BY ElementOfSeq
<1>2. PICK x : x = deeper[heads[k]][v.budget]  OBVIOUS
<1>3. x \in Expansions(C)
  <2>1. v.budget \in Int  BY DEF Expansions
  <2>2. deeper[heads[k]] \in [Int -> Expansions(C)]  BY <1>1
  <2> QED  BY <1>2, <2>1, <2>2
<1>4. PICK y : y = [v EXCEPT !.budget = x.budget]  OBVIOUS
<1>5. y \in Expansions(C)  BY <1>3, <1>4 DEF Expansions
<1>6. x.out \in Seq(Seq(C)) /\ suffixes.out \in Seq(Seq(C))  BY <1>3 DEF Expansions
<1>7. Product(p, x.out, suffixes.out) \in Seq(Seq(C))  BY <1>6, ProductTyped
<1>8. Push(y, Product(p, x.out, suffixes.out)) \in Expansions(C) /\ Overflow \in Expansions(C)
  BY <1>5, <1>7, PushTyped
<1> QED  BY <1>2, <1>4, <1>8 DEF SumRound

Sum(deeper, prefix, heads, suffixes) ==
    LET sum[k \in 0..Len(heads)] ==
            IF k = 0 THEN [budget |-> suffixes.budget, out |-> <<>>]
            ELSE SumRound(deeper, prefix, heads, suffixes, k, sum[k - 1]) IN
    sum[Len(heads)]
LEMMA SumTyped ==
    ASSUME NEW C, NEW deeper \in [Seq(C) -> [Int -> Expansions(C)]], NEW p \in Seq(C),
           NEW heads \in Seq(Seq(C)), NEW suffixes \in Expansions(C)
    PROVE  Sum(deeper, p, heads, suffixes) \in Expansions(C)
<1>1. PICK n, V : n = Len(heads) /\ n \in Nat /\ V = Expansions(C)  BY LenProperties
<1>2. \A i \in 1..n, v \in V : SumRound(deeper, p, heads, suffixes, i, v) \in V
  <2> TAKE i \in 1..n, v \in V
  <2> QED  BY <1>1, SumRoundTyped
<1>3. PICK step : step = [x \in (1..n) \X V |-> SumRound(deeper, p, heads, suffixes, x[1], x[2])]  OBVIOUS
<1>4. \A i \in 1..n, v \in V : step[<<i, v>>] = SumRound(deeper, p, heads, suffixes, i, v)  BY <1>3
<1>5. [budget |-> suffixes.budget, out |-> <<>>] \in V  BY <1>1 DEF Expansions
<1>6. PICK f \in [0..n -> V] : f[0] = [budget |-> suffixes.budget, out |-> <<>>] /\ \A i \in 1..n : f[i] = step[<<i, f[i - 1]>>]
  <2>1. StepsWithin(step, n, V)  BY <1>2, <1>4 DEF StepsWithin
  <2>2. PICK f \in [0..n -> V] : Iterates(f, n, [budget |-> suffixes.budget, out |-> <<>>], step)  BY <1>1, <1>5, <2>1, Recursion
  <2> QED  BY <2>2 DEF Iterates
<1>7. \A i \in 1..n : f[i] = SumRound(deeper, p, heads, suffixes, i, f[i - 1])
  <2> TAKE i \in 1..n
  <2>1. i - 1 \in 0..n  BY <1>1
  <2>2. f[i - 1] \in V  BY <2>1
  <2> QED  BY <1>4, <1>6, <2>2
<1>8. f = [i \in 0..n |-> IF i = 0 THEN [budget |-> suffixes.budget, out |-> <<>>] ELSE SumRound(deeper, p, heads, suffixes, i, f[i - 1])]
  <2>1. \A i \in 0..n : f[i] = IF i = 0 THEN [budget |-> suffixes.budget, out |-> <<>>] ELSE SumRound(deeper, p, heads, suffixes, i, f[i - 1])
    <3> TAKE i \in 0..n
    <3>1. CASE i = 0  BY <1>6, <3>1
    <3>2. CASE i # 0
      <4>1. i \in 1..n  BY <1>1, <3>2
      <4> QED  BY <1>7, <3>2, <4>1
    <3> QED  BY <3>1, <3>2
  <2> QED  BY <2>1
<1>9. PICK g : g = SumLoop(deeper, p, heads, suffixes)  OBVIOUS
<1>10. g = [i \in 0..n |-> IF i = 0 THEN [budget |-> suffixes.budget, out |-> <<>>] ELSE SumRound(deeper, p, heads, suffixes, i, g[i - 1])]
  BY <1>1, <1>8, <1>9, Zenon DEF SumLoop
<1>11. g[0] = [budget |-> suffixes.budget, out |-> <<>>] /\ \A i \in 1..n : g[i] = SumRound(deeper, p, heads, suffixes, i, g[i - 1])
  <2>1. PICK h : h = [i \in 0..n |-> IF i = 0 THEN [budget |-> suffixes.budget, out |-> <<>>] ELSE SumRound(deeper, p, heads, suffixes, i, g[i - 1])]  OBVIOUS
  <2>2. g = h  BY <1>10, <2>1
  <2>3. h[0] = [budget |-> suffixes.budget, out |-> <<>>] /\ \A i \in 1..n : h[i] = SumRound(deeper, p, heads, suffixes, i, g[i - 1])  BY <1>1, <2>1
  <2> QED  BY <2>2, <2>3
<1>12. \A i \in 1..n : f[i - 1] = g[i - 1] => f[i] = g[i]  BY <1>7, <1>11
<1>13. f[n] = g[n]
  <2>1. Alike(f, g, n)  BY <1>6, <1>11, <1>12 DEF Alike
  <2> QED  BY <1>1, <2>1, SameLoop
<1>14. Sum(deeper, p, heads, suffixes) = g[n]  BY <1>1, <1>9 DEF Sum, SumLoop
<1>15. n \in 0..n  BY <1>1
<1> QED  BY <1>1, <1>6, <1>13, <1>14, <1>15

LEMMA GroupTyped ==
    ASSUME NEW C, NEW deeper \in [Seq(C) -> [Int -> Expansions(C)]], NEW s \in Seq(C),
           NEW budget \in Int, GroupEnd(s) # 0
    PROVE  ExpandGroup(deeper, s, budget) \in Expansions(C)
<1>1. PICK n, e, b : n = Len(s) /\ n \in Nat /\ e = GroupEnd(s) /\ b = GroupStart(s)
                     /\ e \in 1..n /\ b \in 1..e
  BY GroupIs, LenProperties
<1>2. \A i \in 1..n : s[i] \in C  BY <1>1, ElementOfSeq
<1>3. PICK p, h, t : p = SubSeq(s, 1, b - 1) /\ h = SubSeq(s, b + 1, e - 1) /\ t = SubSeq(s, e + 1, n)
  OBVIOUS
<1>4. p \in Seq(C)
  <2>1. \A i \in 1..(b - 1) : s[i] \in C  BY <1>1, <1>2
  <2> QED  BY <1>1, <1>3, <2>1, SubSeqProperties
<1>5. h \in Seq(C)
  <2>1. \A i \in (b + 1)..(e - 1) : s[i] \in C  BY <1>1, <1>2
  <2> QED  BY <1>1, <1>3, <2>1, SubSeqProperties
<1>6. t \in Seq(C)
  <2>1. \A i \in (e + 1)..n : s[i] \in C  BY <1>1, <1>2
  <2> QED  BY <1>1, <1>3, <2>1, SubSeqProperties
<1>7. PICK v, x : v = Alternatives(h) /\ x = deeper[t][budget]  OBVIOUS
<1>8. v \in Seq(Seq(C))  BY <1>5, <1>7, AlternativesTyped
<1>9. x \in Expansions(C)
  <2>1. deeper[t] \in [Int -> Expansions(C)]  BY <1>6
  <2> QED  BY <1>7, <2>1
<1>10. Sum(deeper, p, v, x) \in Expansions(C)  BY <1>4, <1>8, <1>9, SumTyped
<1>11. ExpandGroup(deeper, s, budget) = IF x.budget < 0 THEN Overflow ELSE Sum(deeper, p, v, x)
  BY <1>1, <1>3, <1>7 DEF ExpandGroup, Sum, SumRound
<1>12. Overflow \in Expansions(C)  BY <1>8, <1>9, PushTyped
<1> QED  BY <1>10, <1>11, <1>12

ExpandRound(left, deeper) ==
    [s \in Seq(Chars) |-> [budget \in Int |->
        IF left = 0 \/ budget < 0 THEN Overflow
        ELSE IF GroupEnd(s) = 0 THEN Push([budget |-> budget, out |-> <<>>], <<s>>)
        ELSE ExpandGroup(deeper, s, budget)]]

LEMMA ExpandRoundTyped ==
    ASSUME NEW left, NEW deeper, left # 0 => deeper \in [Seq(Chars) -> [Int -> Expansions(Chars)]]
    PROVE  ExpandRound(left, deeper) \in [Seq(Chars) -> [Int -> Expansions(Chars)]]
<1>1. ASSUME NEW s \in Seq(Chars), NEW budget \in Int
      PROVE  (IF left = 0 \/ budget < 0 THEN Overflow
              ELSE IF GroupEnd(s) = 0 THEN Push([budget |-> budget, out |-> <<>>], <<s>>)
              ELSE ExpandGroup(deeper, s, budget)) \in Expansions(Chars)
  <2>1. PICK x : x = [budget |-> budget, out |-> <<>>]  OBVIOUS
  <2>2. PICK T : T = Seq(Chars)  OBVIOUS
  <2>3. <<>> \in Seq(T) /\ <<s>> \in Seq(T)  BY <2>2
  <2>4. x \in Expansions(Chars)  BY <2>1, <2>2, <2>3 DEF Expansions
  <2>5. Push(x, <<s>>) \in Expansions(Chars) /\ Overflow \in Expansions(Chars)
    BY <2>2, <2>3, <2>4, PushTyped
  <2>6. left # 0 /\ GroupEnd(s) # 0 => ExpandGroup(deeper, s, budget) \in Expansions(Chars)
    BY GroupTyped
  <2> QED  BY <2>1, <2>5, <2>6
<1> QED  BY <1>1 DEF ExpandRound

\* Each level of the expansion expands texts to texts.
LEMMA ExpandTyped == ASSUME NEW s \in Seq(Chars) PROVE ExpandBraces(s) \in Seq(Seq(Chars))
<1>1. PICK n : n = MaxBraceDepth + 1 /\ n \in Nat  BY PatternsAssumption
<1>2. PICK V : V = [Seq(Chars) -> [Int -> Expansions(Chars)]]  OBVIOUS
<1>3. PICK base : base = ExpandRound(0, <<>>)  OBVIOUS
<1>4. base \in V  BY <1>2, <1>3, ExpandRoundTyped
<1>5. \A i \in 1..n, v \in V : ExpandRound(i, v) \in V  BY <1>2, ExpandRoundTyped
<1>6. PICK step : step = [x \in (1..n) \X V |-> ExpandRound(x[1], x[2])]  OBVIOUS
<1>7. \A i \in 1..n, v \in V : step[<<i, v>>] = ExpandRound(i, v)  BY <1>6
<1>8. PICK f \in [0..n -> V] : f[0] = base /\ \A i \in 1..n : f[i] = step[<<i, f[i - 1]>>]
  <2>1. StepsWithin(step, n, V)  BY <1>5, <1>7 DEF StepsWithin
  <2>2. PICK f \in [0..n -> V] : Iterates(f, n, base, step)  BY <1>1, <1>4, <2>1, Recursion
  <2> QED  BY <2>2 DEF Iterates
<1>9. ASSUME NEW i \in 0..n PROVE f[i] = ExpandRound(i, f[i - 1])
  <2>1. CASE i = 0
    <3>1. \A d : ExpandRound(0, d) = base  BY <1>3 DEF ExpandRound
    <3> QED  BY <1>8, <2>1, <3>1
  <2>2. CASE i # 0
    <3>1. i \in 1..n /\ i - 1 \in 0..n  BY <1>1, <2>2
    <3>2. f[i - 1] \in V  BY <3>1
    <3> QED  BY <1>7, <1>8, <3>1, <3>2
  <2> QED  BY <2>1, <2>2
<1>10. f = [i \in 0..n |-> ExpandRound(i, f[i - 1])]  BY <1>9
<1>11. PICK g : g = ExpandBracesInto  OBVIOUS
<1>12. g = [i \in 0..n |-> ExpandRound(i, g[i - 1])]
  <2>1. g = CHOOSE h : h = [i \in 0..(MaxBraceDepth + 1) |-> ExpandRound(i, h[i - 1])]
    BY <1>11, Zenon DEF ExpandBracesInto, ExpandRound, Chars
  <2>2. g = CHOOSE h : h = [i \in 0..n |-> ExpandRound(i, h[i - 1])]  BY <1>1, <2>1
  <2> QED  BY <1>10, <2>2, Zenon
<1>13. \A i \in 0..n : g[i] = ExpandRound(i, g[i - 1])
  <2>1. PICK h : h = [i \in 0..n |-> ExpandRound(i, g[i - 1])]  OBVIOUS
  <2>2. g = h  BY <1>12, <2>1
  <2> QED  BY <2>1, <2>2
<1>14. PICK S : S = {i \in 0..n : g[i] \in V}  OBVIOUS
<1>15. \A i \in 0..n : i \in S
  <2>1. 0 \in S
    <3>1. 0 \in 0..n  BY <1>1
    <3>2. g[0] \in V  BY <1>2, <1>13, <3>1, ExpandRoundTyped
    <3> QED  BY <1>14, <3>1, <3>2
  <2>2. ASSUME NEW i \in 1..n, i - 1 \in S PROVE i \in S
    <3>1. i \in 0..n /\ g[i - 1] \in V  BY <1>1, <1>14, <2>2
    <3>2. ExpandRound(i, g[i - 1]) \in V  BY <1>5, <3>1
    <3> QED  BY <1>13, <1>14, <3>1, <3>2
  <2> QED  BY <1>1, <2>1, <2>2, UpTo
<1>16. g[n] \in V  BY <1>1, <1>14, <1>15
<1>17. ExpandBracesInto[MaxBraceDepth + 1][s][MaxBraceExpansions] \in Expansions(Chars)
  <2>1. MaxBraceExpansions \in Int  BY PatternsAssumption
  <2>2. g[n][s] \in [Int -> Expansions(Chars)]  BY <1>2, <1>16
  <2>3. g[n][s][MaxBraceExpansions] \in Expansions(Chars)  BY <2>1, <2>2
  <2> QED  BY <1>1, <1>11, <2>3
<1>18. <<>> \in Seq(Seq(Chars))
  <2>1. PICK T : T = Seq(Chars)  OBVIOUS
  <2>2. <<>> \in Seq(T)  OBVIOUS
  <2> QED  BY <2>1, <2>2
<1> QED  BY <1>17, <1>18 DEF ExpandBraces, Expansions

(***************************************************************************)
(* Drive as a tree.                                                        *)
(***************************************************************************)
ReachRound(D, S, n, before) ==
    {e \in D : e.name = S[n] /\ \E f \in before : f.folder /\ e.parent = f.id}
PlacesIn(D, S) ==
    LET at[n \in 0..Len(S)] ==
            IF n = 0 THEN {RootFolder} ELSE ReachRound(D, S, n, at[n - 1]) IN
    at
PlacesLoop(D, S) ==
    CHOOSE g : g = [n \in 0..Len(S) |-> IF n = 0 THEN {RootFolder} ELSE ReachRound(D, S, n, g[n - 1])]
Reach(D, S) == PlacesIn(D, S)[Len(S)]

LEMMA PlacesIs ==
    ASSUME NEW D, NEW T, NEW S \in Seq(T)
    PROVE  /\ PlacesIn(D, S)[0] = {RootFolder}
           /\ \A n \in 1..Len(S) : PlacesIn(D, S)[n] = ReachRound(D, S, n, PlacesIn(D, S)[n - 1])
<1>1. PICK n, V : n = Len(S) /\ n \in Nat /\ V = SUBSET (D \cup {RootFolder})  BY LenProperties
<1>2. \A i \in 1..n, v \in V : ReachRound(D, S, i, v) \in V  BY <1>1 DEF ReachRound
<1>3. PICK step : step = [x \in (1..n) \X V |-> ReachRound(D, S, x[1], x[2])]  OBVIOUS
<1>4. \A i \in 1..n, v \in V : step[<<i, v>>] = ReachRound(D, S, i, v)  BY <1>3
<1>5. {RootFolder} \in V  BY <1>1
<1>6. PICK f \in [0..n -> V] : f[0] = {RootFolder} /\ \A i \in 1..n : f[i] = step[<<i, f[i - 1]>>]
  <2>1. StepsWithin(step, n, V)  BY <1>2, <1>4 DEF StepsWithin
  <2>2. PICK f \in [0..n -> V] : Iterates(f, n, {RootFolder}, step)  BY <1>1, <1>5, <2>1, Recursion
  <2> QED  BY <2>2 DEF Iterates
<1>7. \A i \in 1..n : f[i] = ReachRound(D, S, i, f[i - 1])
  <2> TAKE i \in 1..n
  <2>1. i - 1 \in 0..n  BY <1>1
  <2>2. f[i - 1] \in V  BY <2>1
  <2> QED  BY <1>4, <1>6, <2>2
<1>8. f = [i \in 0..n |-> IF i = 0 THEN {RootFolder} ELSE ReachRound(D, S, i, f[i - 1])]
  <2>1. \A i \in 0..n : f[i] = IF i = 0 THEN {RootFolder} ELSE ReachRound(D, S, i, f[i - 1])
    <3> TAKE i \in 0..n
    <3>1. CASE i = 0  BY <1>6, <3>1
    <3>2. CASE i # 0
      <4>1. i \in 1..n  BY <1>1, <3>2
      <4> QED  BY <1>7, <3>2, <4>1
    <3> QED  BY <3>1, <3>2
  <2> QED  BY <2>1
<1>9. PICK g : g = PlacesLoop(D, S)  OBVIOUS
<1>10. g = [i \in 0..n |-> IF i = 0 THEN {RootFolder} ELSE ReachRound(D, S, i, g[i - 1])]
  BY <1>1, <1>8, <1>9, Zenon DEF PlacesLoop
<1>11. g[0] = {RootFolder} /\ \A i \in 1..n : g[i] = ReachRound(D, S, i, g[i - 1])
  <2>1. PICK h : h = [i \in 0..n |-> IF i = 0 THEN {RootFolder} ELSE ReachRound(D, S, i, g[i - 1])]
    OBVIOUS
  <2>2. g = h  BY <1>10, <2>1
  <2>3. h[0] = {RootFolder} /\ \A i \in 1..n : h[i] = ReachRound(D, S, i, g[i - 1])  BY <1>1, <2>1
  <2> QED  BY <2>2, <2>3
<1>12. PlacesIn(D, S) = g  BY <1>9 DEF PlacesIn, PlacesLoop
<1> QED  BY <1>1, <1>11, <1>12

LEMMA PlacesAre == ASSUME NEW S PROVE Places(S) = PlacesIn(drive, S)
BY Zenon DEF Places, PlacesIn, ReachRound

\* Paths that begin alike lead to the same places.
LEMMA PlacesSame ==
    ASSUME NEW D, NEW T, NEW S \in Seq(T), NEW R \in Seq(T), NEW n \in Nat,
           n <= Len(S), n <= Len(R), \A i \in 1..n : S[i] = R[i]
    PROVE  PlacesIn(D, S)[n] = PlacesIn(D, R)[n]
<1>1. PICK f, g : f = PlacesIn(D, S) /\ g = PlacesIn(D, R)  OBVIOUS
<1>2. Len(S) \in Nat /\ Len(R) \in Nat  BY LenProperties
<1>3. f[0] = g[0]  BY <1>1, PlacesIs
<1>4. ASSUME NEW i \in 1..n, f[i - 1] = g[i - 1] PROVE f[i] = g[i]
  <2>1. i \in 1..Len(S) /\ i \in 1..Len(R)  BY <1>2
  <2>2. f[i] = ReachRound(D, S, i, f[i - 1])  BY <1>1, <2>1, PlacesIs
  <2>3. g[i] = ReachRound(D, R, i, g[i - 1])  BY <1>1, <2>1, PlacesIs
  <2>4. S[i] = R[i]  OBVIOUS
  <2> QED  BY <1>4, <2>2, <2>3, <2>4 DEF ReachRound
<1>5. Alike(f, g, n)  BY <1>3, <1>4 DEF Alike
<1>6. f[n] = g[n]  BY <1>5, SameLoop
<1> QED  BY <1>1, <1>6

Within(D, folders, x) == {e \in D : e.name = x /\ \E f \in folders : f.folder /\ e.parent = f.id}
Extends(D, S, R, x) ==
    /\ Reach(D, R) = Within(D, Reach(D, S), x)
    /\ \A n \in 0..Len(S) : PlacesIn(D, R)[n] = PlacesIn(D, S)[n]
    /\ Len(R) = Len(S) + 1
LEMMA ReachAppend ==
    ASSUME NEW D, NEW T, NEW S \in Seq(T), NEW x \in T
    PROVE  Extends(D, S, Append(S, x), x)
<1>1. PICK R : R = Append(S, x)  OBVIOUS
<1>2. PICK l : l = Len(S) /\ l \in Nat  BY LenProperties
<1>3. R \in Seq(T) /\ Len(R) = l + 1 /\ R[l + 1] = x /\ \A i \in 1..l : R[i] = S[i]
  BY <1>1, <1>2, AppendProperties
<1>4. ASSUME NEW n \in 0..l PROVE PlacesIn(D, R)[n] = PlacesIn(D, S)[n]
  <2>1. n \in Nat /\ n <= Len(R) /\ n <= Len(S) /\ \A i \in 1..n : R[i] = S[i]
    <3>1. \A i \in 1..n : i \in 1..l  BY <1>2
    <3> QED  BY <1>2, <1>3, <3>1
  <2> QED  BY <1>3, <2>1, PlacesSame
<1>5. l + 1 \in 1..Len(R) /\ (l + 1) - 1 = l /\ l \in 0..l  BY <1>2, <1>3
<1>6. PlacesIn(D, R)[l + 1] = ReachRound(D, R, l + 1, PlacesIn(D, R)[l])
  <2>1. \A n \in 1..Len(R) : PlacesIn(D, R)[n] = ReachRound(D, R, n, PlacesIn(D, R)[n - 1])
    BY <1>3, PlacesIs
  <2> QED  BY <1>5, <2>1
<1>7. PlacesIn(D, R)[l] = PlacesIn(D, S)[l]  BY <1>4, <1>5
<1>8. Reach(D, R) = ReachRound(D, R, l + 1, Reach(D, S))  BY <1>2, <1>3, <1>6, <1>7 DEF Reach
<1>9. Reach(D, R) = Within(D, Reach(D, S), x)  BY <1>3, <1>8 DEF ReachRound, Within
<1>10. Extends(D, S, R, x)  BY <1>2, <1>3, <1>4, <1>9 DEF Extends
<1> QED  BY <1>1, <1>10

LEMMA ReachNothing == ASSUME NEW D PROVE Reach(D, <<>>) = {RootFolder}
<1>1. PICK S \in Seq({}) : S = <<>> /\ Len(S) = 0  BY EmptySeq
<1>2. PlacesIn(D, S)[0] = {RootFolder}  BY PlacesIs
<1> QED  BY <1>1, <1>2 DEF Reach

OneFolder(D, S, n) ==
    \A y, z \in PlacesIn(D, S)[n] : (y.folder = TRUE) /\ (z.folder = TRUE) => y = z
\* The path leads to e, and to no other but files beside a folder, through one folder only.
Alone(D, S, e) ==
    /\ e \in Reach(D, S)
    /\ \A x \in Reach(D, S) : x # e => (e.folder = TRUE) /\ ~(x.folder = TRUE)
    /\ \A n \in 1..(Len(S) - 1) : OneFolder(D, S, n)

Tree(D) == D \subseteq Entries /\ Holds(D)

LEMMA TreeIs ==
    ASSUME NEW D, Tree(D)
    PROVE  /\ \A e \in D : /\ e.id # Root /\ e.folder \in BOOLEAN
                           /\ e.name \in Names(Chars) /\ ~StartsWithId(e.name)
           /\ \A e, f \in D : e.id = f.id => e = f
           /\ \A e \in D : e.parent = Root \/ \E f \in D : f.id = e.parent /\ f.folder
           /\ IsFiniteSet(D)
<1>1. D \subseteq Entries  BY DEF Tree
<1>2. IsFiniteSet(D)
  <2>1. IsFiniteSet(Entries)  BY GlobAssumption
  <2>2. D \in SUBSET Entries  BY <1>1
  <2> QED  BY <2>1, <2>2, FS_Subset
<1>3. ASSUME NEW e \in D PROVE e.name \in Names(Chars) /\ ~StartsWithId(e.name)
  <2>1. e \in Entries  BY <1>1
  <2>2. PICK t : t = e.name /\ t \in Seq(Chars) /\ ParseGDriveUri(t) = Path(<<t>>)
    <3>1. e.name \in Seq(DOMAIN Code)  BY <2>1, GlobAssumption
    <3>2. ParseGDriveUri(e.name) = Path(<<e.name>>)  BY <2>1, GlobAssumption
    <3> QED  BY <3>1, <3>2 DEF Chars
  <2>3. PICK u : u = ParseGDriveUri(t)  OBVIOUS
  <2>4. u.kind = "PATH" /\ u.segments = <<t>>  BY <2>2, <2>3 DEF Path
  <2>5. ~StartsWithId(t) /\ u.segments = SplitSegments(t)  BY <2>3, <2>4, ParsedIs
  <2>6. PICK v : v = SplitSegments(t) /\ v \in Seq(Names(Chars)) /\ v = <<t>>
    BY <2>2, <2>4, <2>5, SplitMakesNames
  <2>7. v[1] \in Names(Chars)
    <3>1. Len(v) = 1  BY <2>6
    <3>2. 1 \in 1..Len(v)  BY <3>1
    <3> QED  BY <2>6, <3>2, ElementOfSeq
  <2> QED  BY <2>2, <2>5, <2>6, <2>7
<1>4. \A e \in D : e.id # Root /\ e.folder \in BOOLEAN  BY <1>1, GlobAssumption
<1>5. \A e, f \in D : e.id = f.id => e = f  BY <1>1, GlobAssumption
<1>6. \A e \in D : e.parent = Root \/ \E f \in D : f.id = e.parent /\ f.folder  BY DEF Tree, Holds
<1> QED  BY <1>2, <1>3, <1>4, <1>5, <1>6

LEMMA ReachWithin ==
    ASSUME NEW D, NEW T, NEW S \in Seq(T), NEW n \in 0..Len(S)
    PROVE  PlacesIn(D, S)[n] \subseteq D \cup {RootFolder}
<1>1. CASE n = 0  BY <1>1, PlacesIs
<1>2. CASE n # 0
  <2>1. n \in 1..Len(S)
    <3>1. Len(S) \in Nat  BY LenProperties
    <3> QED  BY <1>2, <3>1
  <2>2. PlacesIn(D, S)[n] = ReachRound(D, S, n, PlacesIn(D, S)[n - 1])  BY <2>1, PlacesIs
  <2> QED  BY <2>2 DEF ReachRound
<1> QED  BY <1>1, <1>2

\* What is in the only folder of a path is what its longer paths lead to.
LEMMA Kids ==
    ASSUME NEW D, Tree(D), NEW T, NEW S \in Seq(T), NEW d, Alone(D, S, d), NEW x \in T
    PROVE  Reach(D, Append(S, x)) = {e \in D : e.parent = d.id /\ e.name = x}
<1>1. /\ d \in Reach(D, S)
      /\ \A y \in Reach(D, S) : y # d => (d.folder = TRUE) /\ ~(y.folder = TRUE)
  BY DEF Alone
<1>2. Reach(D, Append(S, x)) =
        {e \in D : e.name = x /\ \E f \in Reach(D, S) : f.folder /\ e.parent = f.id}
  <2>1. Extends(D, S, Append(S, x), x)  BY ReachAppend
  <2> QED  BY <2>1 DEF Extends, Within
<1>3. d \in D \cup {RootFolder}
  <2>1. Len(S) \in 0..Len(S)
    <3>1. Len(S) \in Nat  BY LenProperties
    <3> QED  BY <3>1
  <2>2. Reach(D, S) \subseteq D \cup {RootFolder}  BY <2>1, ReachWithin DEF Reach
  <2> QED  BY <1>1, <2>2
<1>4. \A f \in Reach(D, S) : f.folder => f = d
  <2> TAKE f \in Reach(D, S)
  <2>1. f \in D \cup {RootFolder}
    <3>1. Len(S) \in 0..Len(S)
      <4>1. Len(S) \in Nat  BY LenProperties
      <4> QED  BY <4>1
    <3>2. Reach(D, S) \subseteq D \cup {RootFolder}  BY <3>1, ReachWithin DEF Reach
    <3> QED  BY <3>2
  <2>2. f.folder \in BOOLEAN
    <3>1. CASE f = RootFolder
      <4>1. RootFolder.folder = TRUE  BY DEF RootFolder
      <4> QED  BY <3>1, <4>1
    <3>2. CASE f \in D  BY <3>2, TreeIs
    <3> QED  BY <2>1, <3>1, <3>2
  <2> QED  BY <1>1, <2>2
<1>5. ASSUME NEW e \in D, e.parent = d.id PROVE d.folder
  <2>1. CASE d = RootFolder  BY <2>1 DEF RootFolder
  <2>2. CASE d \in D
    <3>1. d.id # Root /\ \A f \in D : d.id = f.id => d = f  BY <2>2, TreeIs
    <3>2. e.parent = Root \/ \E f \in D : f.id = e.parent /\ f.folder  BY TreeIs
    <3> QED  BY <1>5, <3>1, <3>2
  <2> QED  BY <1>3, <2>1, <2>2
<1>6. \A e \in D : (\E f \in Reach(D, S) : f.folder /\ e.parent = f.id) <=> e.parent = d.id
  BY <1>1, <1>4, <1>5
<1> QED  BY <1>2, <1>6

LEMMA AloneGoesOn ==
    ASSUME NEW D, Tree(D), NEW T, NEW S \in Seq(T), NEW d, Alone(D, S, d), NEW x \in T,
           NEW e \in D, e.parent = d.id, e.name = x,
           \A y \in D : y.parent = d.id /\ y.name = x /\ y # e => (e.folder = TRUE) /\ ~(y.folder = TRUE)
    PROVE  Alone(D, Append(S, x), e)
<1>1. Reach(D, Append(S, x)) = {y \in D : y.parent = d.id /\ y.name = x}  BY Kids
<1>2. PICK l : l = Len(S) /\ l \in Nat  BY LenProperties
<1>3. Len(Append(S, x)) = l + 1 /\ \A n \in 0..l : PlacesIn(D, Append(S, x))[n] = PlacesIn(D, S)[n]
  <2>1. /\ \A n \in 0..Len(S) : PlacesIn(D, Append(S, x))[n] = PlacesIn(D, S)[n]
        /\ Len(Append(S, x)) = Len(S) + 1
    <3>1. Extends(D, S, Append(S, x), x)  BY ReachAppend
    <3> QED  BY <3>1 DEF Extends
  <2> QED  BY <1>2, <2>1
<1>4. ASSUME NEW n \in 1..l PROVE OneFolder(D, Append(S, x), n)
  <2>1. n \in 0..l  BY <1>2
  <2>2. PlacesIn(D, Append(S, x))[n] = PlacesIn(D, S)[n]  BY <1>3, <2>1
  <2>3. CASE n = l
    <3>1. \A y, z \in Reach(D, S) : (y.folder = TRUE) /\ (z.folder = TRUE) => y = z  BY DEF Alone
    <3> QED  BY <1>2, <2>2, <2>3, <3>1 DEF Reach, OneFolder
  <2>4. CASE n # l
    <3>1. n \in 1..(Len(S) - 1)  BY <1>2, <2>4
    <3>2. OneFolder(D, S, n)  BY <3>1 DEF Alone
    <3> QED  BY <2>2, <3>2 DEF OneFolder
  <2> QED  BY <2>3, <2>4
<1>5. \A n \in 1..(Len(Append(S, x)) - 1) : OneFolder(D, Append(S, x), n)
  <2>1. Len(Append(S, x)) - 1 = l  BY <1>2, <1>3
  <2> QED  BY <1>4, <2>1
<1>6. e \in Reach(D, Append(S, x))  BY <1>1
<1>7. \A y \in Reach(D, Append(S, x)) : y # e => (e.folder = TRUE) /\ ~(y.folder = TRUE)  BY <1>1
<1> QED  BY <1>5, <1>6, <1>7 DEF Alone

LEMMA AloneAtRoot == ASSUME NEW D PROVE Alone(D, <<>>, RootFolder)
<1>1. Len(<<>>) = 0  OBVIOUS
<1>2. \A n \in 1..(Len(<<>>) - 1) : OneFolder(D, <<>>, n)  BY <1>1
<1>3. Reach(D, <<>>) = {RootFolder}  BY ReachNothing
<1> QED  BY <1>2, <1>3 DEF Alone

\* A path that begins with an id leads nowhere from the root.
LEMMA IdLeadsNowhere ==
    ASSUME NEW D, Tree(D), NEW T, NEW S \in Seq(T), S # <<>>, StartsWithId(S[1]), NEW n \in 1..Len(S)
    PROVE  PlacesIn(D, S)[n] = {}
<1>1. PICK l : l = Len(S) /\ l \in Nat  BY LenProperties
<1>2. PICK g : g = PlacesIn(D, S)  OBVIOUS
<1>3. \A i \in 1..l : g[i] = ReachRound(D, S, i, g[i - 1])  BY <1>1, <1>2, PlacesIs
<1>4. 1 \in 1..l /\ g[1] = {}
  <2>1. 1 \in 1..l  BY <1>1
  <2>2. g[1] = ReachRound(D, S, 1, g[1 - 1])  BY <1>3, <2>1
  <2>3. \A e \in D : e.name # S[1]  BY TreeIs
  <2> QED  BY <2>1, <2>2, <2>3 DEF ReachRound
<1>5. PICK Z : Z = {i \in 0..l : i # 0 => g[i] = {}}  OBVIOUS
<1>6. 0 \in Z  BY <1>1, <1>5
<1>7. ASSUME NEW i \in 1..l, i - 1 \in Z PROVE i \in Z
  <2>1. CASE i = 1  BY <1>1, <1>4, <1>5, <2>1
  <2>2. CASE i # 1
    <3>1. i \in 0..l /\ i - 1 # 0  BY <1>1, <2>2
    <3>2. g[i - 1] = {}  BY <1>5, <1>7, <3>1
    <3>3. g[i] = ReachRound(D, S, i, {})  BY <1>3, <3>2
    <3> QED  BY <1>5, <3>1, <3>3 DEF ReachRound
  <2> QED  BY <2>1, <2>2
<1>8. \A i \in 0..l : i \in Z  BY <1>1, <1>6, <1>7, UpTo
<1>9. n \in 0..l /\ n # 0  BY <1>1
<1> QED  BY <1>2, <1>5, <1>8, <1>9

(***************************************************************************)
(* TryResolvePath.                                                         *)
(***************************************************************************)
\* The path cache names the entry a path leads to, or is a path from an id.
Known(D, key, e) ==
    \/ Alone(D, SplitSegments(key), e)
    \/ StartsWithId(key) /\ Len(SplitSegments(key)) >= 2
CacheKnown(D, c) == c \subseteq (Seq(Chars) \X D) /\ \A x \in c : Known(D, x[1], x[2])

LEMMA TheOneIs == ASSUME NEW S, S # {} PROVE TheOne(S) \in S
BY DEF TheOne
LEMMA OnlyOne == ASSUME NEW S, IsFiniteSet(S), Cardinality(S) = 1 PROVE S = {TheOne(S)}
<1>1. PICK x : S = {x}  BY FS_Singleton
<1> QED  BY <1>1, TheOneIs

WalkKey(segments, n) == JoinSegments(SubSeq(segments, 1, n))
Cached(segments, n, c) == {e \in drive : <<WalkKey(segments, n), e>> \in c}
Looked(segments, n, folder) ==
    {e \in ChildrenOf(folder.id) : e.name = segments[n] /\ (n < Len(segments) => e.folder)}
WalkFound(segments, n, before) ==
    IF Cached(segments, n, before.cache) # {} THEN Cached(segments, n, before.cache)
    ELSE Looked(segments, n, TheOne(before.found))
WalkRound(segments, n, before) ==
    IF Cardinality(before.found) # 1 THEN before
    ELSE [found |-> WalkFound(segments, n, before),
          cache |-> before.cache \cup
              (IF Cardinality(WalkFound(segments, n, before)) = 1
               THEN {<<WalkKey(segments, n), TheOne(WalkFound(segments, n, before))>>} ELSE {})]
WalkStart == [found |-> {RootFolder}, cache |-> cache]
WalkLoop(segments) ==
    CHOOSE g : g = [n \in 0..Len(segments) |->
                      IF n = 0 THEN WalkStart ELSE WalkRound(segments, n, g[n - 1])]
Walks == [found : SUBSET (drive \cup {RootFolder}), cache : SUBSET (Seq(Chars) \X drive)]

LEMMA WalkFoundTyped == ASSUME NEW s, NEW n, NEW b PROVE WalkFound(s, n, b) \subseteq drive
BY DEF WalkFound, Cached, Looked, ChildrenOf

LEMMA WalkKeyTyped ==
    ASSUME "/" \in Chars, NEW s \in Seq(Seq(Chars)), NEW n \in 1..Len(s)
    PROVE  WalkKey(s, n) \in Seq(Chars)
<1>1. PICK T : T = Seq(Chars)  OBVIOUS
<1>2. s \in Seq(T) /\ n \in 0..Len(s)
  <2>1. Len(s) \in Nat  BY LenProperties
  <2> QED  BY <1>1, <2>1
<1>3. SubSeq(s, 1, n) \in Seq(T)  BY <1>2, FirstOf
<1>4. SubSeq(s, 1, n) \in Seq(Seq(Chars))  BY <1>1, <1>3
<1> QED  BY <1>4, JoinTyped DEF WalkKey

LEMMA WalkTyped ==
    ASSUME Tree(drive), "/" \in Chars, NEW s \in Seq(Seq(Chars)), NEW n \in 1..Len(s), NEW v \in Walks
    PROVE  WalkRound(s, n, v) \in Walks
<1>1. WalkKey(s, n) \in Seq(Chars)  BY WalkKeyTyped
<1>2. PICK F : F = WalkFound(s, n, v)  OBVIOUS
<1>3. F \subseteq drive  BY <1>2, WalkFoundTyped
<1>4. IsFiniteSet(F)
  <2>1. F \in SUBSET drive /\ IsFiniteSet(drive)  BY <1>3, TreeIs
  <2> QED  BY <2>1, FS_Subset
<1>5. Cardinality(F) = 1 => TheOne(F) \in drive
  <2> SUFFICES ASSUME Cardinality(F) = 1 PROVE TheOne(F) \in drive  OBVIOUS
  <2>1. F = {TheOne(F)}  BY <1>4, OnlyOne
  <2> QED  BY <1>3, <2>1
<1> QED  BY <1>1, <1>2, <1>3, <1>5 DEF WalkRound, Walks

LEMMA ResolvedIsLoop ==
    ASSUME Tree(drive), "/" \in Chars, cache \subseteq (Seq(Chars) \X drive), NEW s \in Seq(Seq(Chars))
    PROVE  \E f \in [0..Len(s) -> Walks] :
             /\ f[0] = WalkStart
             /\ \A i \in 1..Len(s) : f[i] = WalkRound(s, i, f[i - 1])
             /\ Resolved(s) = f[Len(s)]
<1>1. PICK n, V : n = Len(s) /\ n \in Nat /\ V = Walks  BY LenProperties
<1>2. \A i \in 1..n, v \in V : WalkRound(s, i, v) \in V
  <2> TAKE i \in 1..n, v \in V
  <2> QED  BY <1>1, WalkTyped
<1>3. PICK step : step = [x \in (1..n) \X V |-> WalkRound(s, x[1], x[2])]  OBVIOUS
<1>4. \A i \in 1..n, v \in V : step[<<i, v>>] = WalkRound(s, i, v)  BY <1>3
<1>5. WalkStart \in V  BY <1>1 DEF Walks, WalkStart
<1>6. PICK f \in [0..n -> V] : f[0] = WalkStart /\ \A i \in 1..n : f[i] = step[<<i, f[i - 1]>>]
  <2>1. StepsWithin(step, n, V)  BY <1>2, <1>4 DEF StepsWithin
  <2>2. PICK f \in [0..n -> V] : Iterates(f, n, WalkStart, step)  BY <1>1, <1>5, <2>1, Recursion
  <2> QED  BY <2>2 DEF Iterates
<1>7. \A i \in 1..n : f[i] = WalkRound(s, i, f[i - 1])
  <2> TAKE i \in 1..n
  <2>1. i - 1 \in 0..n  BY <1>1
  <2>2. f[i - 1] \in V  BY <2>1
  <2> QED  BY <1>4, <1>6, <2>2
<1>8. f = [i \in 0..n |-> IF i = 0 THEN WalkStart ELSE WalkRound(s, i, f[i - 1])]
  <2>1. \A i \in 0..n : f[i] = IF i = 0 THEN WalkStart ELSE WalkRound(s, i, f[i - 1])
    <3> TAKE i \in 0..n
    <3>1. CASE i = 0  BY <1>6, <3>1
    <3>2. CASE i # 0
      <4>1. i \in 1..n  BY <1>1, <3>2
      <4> QED  BY <1>7, <3>2, <4>1
    <3> QED  BY <3>1, <3>2
  <2> QED  BY <2>1
<1>9. PICK g : g = WalkLoop(s)  OBVIOUS
<1>10. g = [i \in 0..n |-> IF i = 0 THEN WalkStart ELSE WalkRound(s, i, g[i - 1])]
  BY <1>1, <1>8, <1>9, Zenon DEF WalkLoop
<1>11. g[0] = WalkStart /\ \A i \in 1..n : g[i] = WalkRound(s, i, g[i - 1])
  <2>1. PICK h : h = [i \in 0..n |-> IF i = 0 THEN WalkStart ELSE WalkRound(s, i, g[i - 1])]  OBVIOUS
  <2>2. g = h  BY <1>10, <2>1
  <2>3. h[0] = WalkStart /\ \A i \in 1..n : h[i] = WalkRound(s, i, g[i - 1])  BY <1>1, <2>1
  <2> QED  BY <2>2, <2>3
<1>12. \A i \in 1..n : f[i - 1] = g[i - 1] => f[i] = g[i]  BY <1>7, <1>11
<1>13. f[n] = g[n]
  <2>1. Alike(f, g, n)  BY <1>6, <1>11, <1>12 DEF Alike
  <2> QED  BY <1>1, <2>1, SameLoop
<1>14. Resolved(s) = g[n]  BY <1>1, <1>9 DEF Resolved, WalkLoop, WalkRound, WalkStart, WalkFound, WalkKey, Cached, Looked
<1> QED  BY <1>1, <1>6, <1>7, <1>13, <1>14

\* The first segment of a text that begins with an id begins with it.
LEMMA SplitKeepsId ==
    ASSUME "/" \in Chars, NEW k \in Seq(Chars), StartsWithId(k),
           NEW R, R = SplitSegments(k)
    PROVE  R # <<>> /\ StartsWithId(R[1])
<1>1. k # <<>> /\ k[1] = "id:" /\ Len(k) \in Nat /\ Len(k) # 0  BY LenProperties, EmptySeq DEF StartsWithId
<1>2. CASE ~HasSlash(k)
  <2>1. R = <<k>>  BY <1>1, <1>2, SplitOne
  <2> QED  BY <2>1
<1>3. CASE HasSlash(k)
  <2>1. PICK i, a, b : i = FirstSlash(k) /\ a = Before(k, i) /\ b = After(k, i)  OBVIOUS
  <2>2. /\ i \in 1..Len(k) /\ a \in Seq(Chars) /\ b \in Seq(Chars) /\ ~HasSlash(a)
        /\ Len(a) = i - 1 /\ k = a \o <<"/">> \o b /\ k[i] = "/"
    BY <1>3, <2>1, AtFirstSlash
  <2>3. i # 1  BY <1>1, <2>2
  <2>4. Len(a) # 0  BY <1>1, <2>2, <2>3
  <2>5. a # <<>>  BY <2>4, EmptySeq
  <2>6. SplitSegments(a) = <<a>>  BY <2>2, <2>5, SplitOne
  <2>7. R = <<a>> \o SplitSegments(b)
    <3>1. SplitSegments(a \o <<"/">> \o b) = SplitSegments(a) \o SplitSegments(b)  BY <2>2, SplitConcat
    <3> QED  BY <2>2, <2>6, <3>1
  <2>8. R # <<>> /\ R[1] = a
    <3>1. PICK T : T = Seq(Chars)  OBVIOUS
    <3>2. PICK u, w : u = <<a>> /\ w = SplitSegments(b)  OBVIOUS
    <3>3. w \in Seq(Names(Chars))  BY <2>2, <3>2, SplitMakesNames
    <3>4. w \in Seq(T)  BY <3>1, <3>3, NamesAreTexts
    <3>5. u \in Seq(T) /\ Len(u) = 1 /\ u[1] = a  BY <2>2, <3>1, <3>2
    <3>6. R = u \o w  BY <2>7, <3>2
    <3>7. R \in Seq(T) /\ Len(R) = Len(u) + Len(w)
          /\ \A j \in 1..(Len(u) + Len(w)) : R[j] = IF j <= Len(u) THEN u[j] ELSE w[j - Len(u)]
      <4>1. PICK z : z = u \o w  OBVIOUS
      <4>2. u \in Seq(T) /\ w \in Seq(T)  BY <3>4, <3>5
      <4>3. z \in Seq(T) /\ Len(z) = Len(u) + Len(w)
            /\ \A j \in 1..(Len(u) + Len(w)) : z[j] = IF j <= Len(u) THEN u[j] ELSE w[j - Len(u)]
        BY <4>1, <4>2, ConcatProperties
      <4> QED  BY <3>6, <4>1, <4>3
    <3>8. Len(w) \in Nat  BY <3>4, LenProperties
    <3>9. 1 \in 1..(Len(u) + Len(w)) /\ Len(R) # 0  BY <3>5, <3>7, <3>8
    <3> QED  BY <3>5, <3>7, <3>9, EmptySeq
  <2>9. a[1] = "id:"
    <3>1. k[1] = a[1]
      <4>1. 1 \in 1..(i - 1)  BY <1>1, <2>2, <2>3
      <4>2. a = SubSeq(k, 1, i - 1) /\ i - 1 \in 0..Len(k)  BY <1>1, <2>1, <2>2 DEF Before
      <4>3. \A j \in 1..(i - 1) : SubSeq(k, 1, i - 1)[j] = k[j]  BY <4>2, FirstOf
      <4> QED  BY <4>1, <4>2, <4>3
    <3> QED  BY <1>1, <3>1
  <2> QED  BY <2>5, <2>8, <2>9 DEF StartsWithId
<1> QED  BY <1>2, <1>3

\* One step of the walk finds the only place of its path, if it finds one thing.
LEMMA WalkKnows ==
    ASSUME Tree(drive), "/" \in Chars, NEW s \in Seq(Names(Chars)), NEW n \in 1..Len(s),
           NEW v \in Walks, CacheKnown(drive, v.cache), NEW d, v.found = {d},
           Alone(drive, SubSeq(s, 1, n - 1), d),
           NEW F, F = WalkFound(s, n, v), NEW e, F = {e}
    PROVE  /\ Alone(drive, SubSeq(s, 1, n), e)
           /\ SplitSegments(WalkKey(s, n)) = SubSeq(s, 1, n)
<1>1. PICK N, l : N = Names(Chars) /\ l = Len(s) /\ l \in Nat  BY LenProperties
<1>2. PICK R, S, x : R = SubSeq(s, 1, n) /\ S = SubSeq(s, 1, n - 1) /\ x = s[n]  OBVIOUS
<1>3. S \in Seq(N) /\ Len(S) = n - 1 /\ x \in N /\ R = Append(S, x)
  BY <1>1, <1>2, PrefixAppend
<1>4. R \in Seq(N) /\ Len(R) = n
  <2>1. n \in 0..Len(s)  BY <1>1
  <2> QED  BY <1>1, <1>2, <2>1, FirstOf
<1>5. SplitSegments(WalkKey(s, n)) = R
  <2>1. R \in Seq(Names(Chars))  BY <1>1, <1>4
  <2>2. SplitSegments(JoinSegments(R)) = R  BY <2>1, SplitJoin
  <2> QED  BY <1>2, <2>2 DEF WalkKey
<1>6. TheOne({d}) = d  BY TheOneIs
<1>7. CASE Cached(s, n, v.cache) # {}
  <2>1. e \in Cached(s, n, v.cache)  BY <1>7 DEF WalkFound
  <2>2. <<WalkKey(s, n), e>> \in v.cache  BY <2>1 DEF Cached
  <2>3. PICK k : k = WalkKey(s, n)  OBVIOUS
  <2>4. Known(drive, k, e)
    <3>1. \A y \in v.cache : Known(drive, y[1], y[2])  BY DEF CacheKnown
    <3>2. <<k, e>> \in v.cache  BY <2>2, <2>3
    <3> QED  BY <3>1, <3>2
  <2>5. CASE Alone(drive, R, e)  BY <1>2, <1>5, <2>5
  <2>6. CASE StartsWithId(k) /\ n >= 2
    <3>1. PICK j : j = n - 1 /\ j \in 1..Len(S) /\ j \in 1..Len(R)  BY <1>1, <1>3, <1>4, <2>6
    <3>2. R # <<>> /\ StartsWithId(R[1])
      <4>1. k \in Seq(Chars)
        <5>1. s \in Seq(Seq(Chars))  BY NamesAreTexts
        <5> QED  BY <2>3, <5>1, WalkKeyTyped
      <4>2. R = SplitSegments(k)  BY <1>5, <2>3
      <4> QED  BY <2>6, <4>1, <4>2, SplitKeepsId
    <3>3. S # <<>> /\ StartsWithId(S[1])
      <4>1. Len(S) \in Nat /\ 1 \in 1..Len(S)  BY <1>1, <1>3, <3>1
      <4>2. R[1] = S[1]  BY <1>3, <4>1, AppendProperties
      <4> QED  BY <3>2, <4>1, <4>2, EmptySeq
    <3>4. PlacesIn(drive, S)[j] = {}  BY <1>3, <3>1, <3>3, IdLeadsNowhere
    <3>5. d \in PlacesIn(drive, S)[j]  BY <1>2, <1>3, <3>1 DEF Alone, Reach
    <3> QED  BY <3>4, <3>5
  <2> QED  BY <1>4, <1>5, <2>3, <2>4, <2>5, <2>6 DEF Known
<1>8. CASE Cached(s, n, v.cache) = {}
  <2>1. Looked(s, n, d) = {e}  BY <1>6, <1>8 DEF WalkFound
  <2>2. e \in drive /\ e.parent = d.id /\ e.name = x /\ (n < l => e.folder)
    <3>1. e \in Looked(s, n, d)  BY <2>1
    <3> QED  BY <1>1, <1>2, <3>1 DEF Looked, ChildrenOf
  <2>3. \A y \in drive : y.parent = d.id /\ y.name = x /\ y # e =>
                           (e.folder = TRUE) /\ ~(y.folder = TRUE)
    <3> TAKE y \in drive
    <3> SUFFICES ASSUME y.parent = d.id, y.name = x, y # e
                 PROVE  (e.folder = TRUE) /\ ~(y.folder = TRUE)
      OBVIOUS
    <3>1. y \notin Looked(s, n, d)  BY <2>1
    <3>2. n < l /\ ~y.folder  BY <1>1, <1>2, <3>1 DEF Looked, ChildrenOf
    <3>3. e.folder \in BOOLEAN  BY <2>2, TreeIs
    <3> QED  BY <2>2, <3>2, <3>3
  <2>4. Alone(drive, S, d)  BY <1>2
  <2>5. Alone(drive, Append(S, x), e)  BY <1>3, <2>2, <2>3, <2>4, AloneGoesOn
  <2> QED  BY <1>2, <1>3, <1>5, <2>5
<1> QED  BY <1>7, <1>8

FoundSound(s, n, b) ==
    /\ b \in Walks /\ CacheKnown(drive, b.cache)
    /\ Cardinality(b.found) = 1 => Alone(drive, SubSeq(s, 1, n), TheOne(b.found))

LEMMA FoundFinite == ASSUME Tree(drive), NEW F, F \subseteq drive \cup {RootFolder} PROVE IsFiniteSet(F)
<1>1. IsFiniteSet(drive) /\ IsFiniteSet({RootFolder})  BY TreeIs, FS_Singleton
<1>2. IsFiniteSet(drive \cup {RootFolder})  BY <1>1, FS_Union
<1> QED  BY <1>2, FS_Subset

LEMMA CacheKnowsMore ==
    ASSUME NEW D, NEW c, CacheKnown(D, c), NEW k \in Seq(Chars), NEW e \in D, Known(D, k, e)
    PROVE  CacheKnown(D, c \cup {<<k, e>>})
BY DEF CacheKnown

LEMMA WalkSound ==
    ASSUME Tree(drive), "/" \in Chars, NEW s \in Seq(Names(Chars)), NEW n \in 1..Len(s),
           NEW v, FoundSound(s, n - 1, v)
    PROVE  FoundSound(s, n, WalkRound(s, n, v))
<1>1. v \in Walks /\ CacheKnown(drive, v.cache)  BY DEF FoundSound
<1>2. PICK w : w = WalkRound(s, n, v)  OBVIOUS
<1>3. s \in Seq(Seq(Chars))  BY NamesAreTexts
<1>4. w \in Walks  BY <1>1, <1>2, <1>3, WalkTyped
<1>5. CASE Cardinality(v.found) # 1
  <2>1. w = v  BY <1>2, <1>5 DEF WalkRound
  <2> QED  BY <1>1, <1>2, <1>5, <2>1 DEF FoundSound
<1>6. CASE Cardinality(v.found) = 1
  <2>1. PICK d : d = TheOne(v.found)  OBVIOUS
  <2>2. v.found = {d}
    <3>1. IsFiniteSet(v.found)
      <4>1. v.found \subseteq drive \cup {RootFolder}  BY <1>1 DEF Walks
      <4> QED  BY <4>1, FoundFinite
    <3> QED  BY <1>6, <2>1, <3>1, OnlyOne
  <2>3. Alone(drive, SubSeq(s, 1, n - 1), d)  BY <1>6, <2>1 DEF FoundSound
  <2>4. PICK F : F = WalkFound(s, n, v)  OBVIOUS
  <2>5. F \subseteq drive  BY <2>4, WalkFoundTyped
  <2>6. w.found = F  BY <1>2, <1>6, <2>4 DEF WalkRound
  <2>7. CASE Cardinality(F) # 1
    <3>1. w.cache = v.cache  BY <1>2, <1>6, <2>4, <2>7 DEF WalkRound
    <3> QED  BY <1>1, <1>2, <1>4, <2>6, <2>7, <3>1 DEF FoundSound
  <2>8. CASE Cardinality(F) = 1
    <3>1. PICK e : e = TheOne(F)  OBVIOUS
    <3>2. F = {e}
      <4>1. IsFiniteSet(F)  BY <2>5, FoundFinite
      <4> QED  BY <2>8, <3>1, <4>1, OnlyOne
    <3>3. PICK k : k = WalkKey(s, n) /\ k \in Seq(Chars)  BY <1>3, WalkKeyTyped
    <3>4. w.cache = v.cache \cup {<<k, e>>}  BY <1>2, <1>6, <2>4, <2>8, <3>1, <3>3 DEF WalkRound
    <3>5. Alone(drive, SubSeq(s, 1, n), e) /\ SplitSegments(k) = SubSeq(s, 1, n)
      <4>1. /\ Alone(drive, SubSeq(s, 1, n), e)
            /\ SplitSegments(WalkKey(s, n)) = SubSeq(s, 1, n)
        BY <1>1, <2>2, <2>3, <2>4, <3>2, WalkKnows
      <4> QED  BY <3>3, <4>1
    <3>6. Known(drive, k, e)  BY <3>5 DEF Known
    <3>7. e \in drive  BY <2>5, <3>2
    <3>8. CacheKnown(drive, w.cache)  BY <1>1, <3>3, <3>4, <3>6, <3>7, CacheKnowsMore
    <3> QED  BY <1>2, <1>4, <2>6, <3>1, <3>5, <3>8 DEF FoundSound
  <2> QED  BY <2>7, <2>8
<1> QED  BY <1>5, <1>6

\* The whole walk.
LEMMA ResolvedSound ==
    ASSUME Tree(drive), "/" \in Chars, CacheKnown(drive, cache), NEW s \in Seq(Names(Chars))
    PROVE  /\ FoundSound(s, Len(s), Resolved(s))
           /\ Resolved(s).found \subseteq drive \/ Resolved(s).found = {RootFolder}
<1>1. PICK l : l = Len(s) /\ l \in Nat  BY LenProperties
<1>2. s \in Seq(Seq(Chars))  BY NamesAreTexts
<1>3. cache \subseteq (Seq(Chars) \X drive)  BY DEF CacheKnown
<1>4. PICK f : /\ f \in [0..l -> Walks] /\ f[0] = WalkStart
               /\ \A i \in 1..l : f[i] = WalkRound(s, i, f[i - 1])
               /\ Resolved(s) = f[l]
  <2>1. \E f \in [0..Len(s) -> Walks] :
          /\ f[0] = WalkStart
          /\ \A i \in 1..Len(s) : f[i] = WalkRound(s, i, f[i - 1])
          /\ Resolved(s) = f[Len(s)]
    BY <1>2, <1>3, ResolvedIsLoop
  <2> QED  BY <1>1, <2>1
<1>5. PICK Z : Z = {i \in 0..l : FoundSound(s, i, f[i]) /\
                      (f[i].found \subseteq drive \/ f[i].found = {RootFolder})}
  OBVIOUS
<1>6. 0 \in Z
  <2>1. f[0] \in Walks  BY <1>1, <1>4
  <2>2. f[0].found = {RootFolder} /\ f[0].cache = cache  BY <1>4 DEF WalkStart
  <2>3. SubSeq(s, 1, 0) = <<>>
    <3>1. 0 \in 0..Len(s)  BY <1>1
    <3>2. PICK w : w = SubSeq(s, 1, 0)  OBVIOUS
    <3>3. w \in Seq(Names(Chars)) /\ Len(w) = 0  BY <3>1, <3>2, FirstOf
    <3> QED  BY <3>2, <3>3, EmptySeq
  <2>4. TheOne({RootFolder}) = RootFolder  BY TheOneIs
  <2>5. FoundSound(s, 0, f[0])  BY <2>1, <2>2, <2>3, <2>4, AloneAtRoot DEF FoundSound
  <2> QED  BY <1>1, <1>5, <2>2, <2>5
<1>7. ASSUME NEW i \in 1..l, i - 1 \in Z PROVE i \in Z
  <2>1. FoundSound(s, i - 1, f[i - 1])  BY <1>5, <1>7
  <2>2. i \in 1..Len(s) /\ i \in 0..l  BY <1>1
  <2>3. f[i] = WalkRound(s, i, f[i - 1])  BY <1>4
  <2>4. FoundSound(s, i, f[i])  BY <2>1, <2>2, <2>3, WalkSound
  <2>5. WalkFound(s, i, f[i - 1]) \subseteq drive  BY WalkFoundTyped
  <2>6. f[i].found \subseteq drive \/ f[i] = f[i - 1]  BY <2>3, <2>5 DEF WalkRound
  <2>7. f[i - 1].found \subseteq drive \/ f[i - 1].found = {RootFolder}  BY <1>5, <1>7
  <2>8. f[i].found \subseteq drive \/ f[i].found = {RootFolder}  BY <2>6, <2>7
  <2> QED  BY <1>5, <2>2, <2>4, <2>8
<1>8. \A i \in 0..l : i \in Z  BY <1>1, <1>6, <1>7, UpTo
<1>9. l \in Z  BY <1>1, <1>8
<1> QED  BY <1>1, <1>4, <1>5, <1>9

\* What an address resolves to: the one place of its path, or what has its id.
Resolves(u, r) ==
    /\ CacheKnown(drive, r.cache)
    /\ r.found \subseteq drive \/ r.found = {RootFolder}
    /\ u.kind = "PATH" /\ Cardinality(r.found) = 1 => Alone(drive, u.segments, TheOne(r.found))

\* TryResolvePath, with a cache that names what its paths lead to, finds the one entry
\* its own path leads to if it finds one, and leaves such a cache, whatever it finds.
THEOREM Resolution ==
    ASSUME Tree(drive), "/" \in Chars, CacheKnown(drive, cache), NEW t \in Seq(Chars),
           NEW u, u = ParseGDriveUri(t), u # Rejected
    PROVE  Resolves(u, TryResolvePath(u))
<1>1. CASE u.kind = "FILE_ID"
  <2>1. PICK F : F = {e \in drive : e.id = u.file_id}  OBVIOUS
  <2>2. TryResolvePath(u) = [found |-> F, cache |-> cache]  BY <1>1, <2>1 DEF TryResolvePath
  <2>3. F \subseteq drive  BY <2>1
  <2> QED  BY <1>1, <2>2, <2>3 DEF Resolves
<1>2. CASE u.kind = "PATH"
  <2>1. PICK s : s = u.segments /\ s \in Seq(Names(Chars))
    <3>1. u.segments = SplitSegments(t)  BY <1>2, ParsedIs
    <3> QED  BY <3>1, SplitMakesNames
  <2>2. TryResolvePath(u) = Resolved(s)  BY <1>2, <2>1 DEF TryResolvePath
  <2>3. PICK r : r = Resolved(s)  OBVIOUS
  <2>4. FoundSound(s, Len(s), r) /\ (r.found \subseteq drive \/ r.found = {RootFolder})
    BY <2>1, <2>3, ResolvedSound
  <2>5. SubSeq(s, 1, Len(s)) = s  BY <2>1, SubSeqFull
  <2> QED  BY <2>1, <2>2, <2>3, <2>4, <2>5 DEF Resolves, FoundSound
<1> QED  BY <1>1, <1>2, ParsedIs

(***************************************************************************)
(* Listing a folder.                                                       *)
(***************************************************************************)
Under(x) == {<<x[1] \o <<"/">> \o e.name, e>> : e \in ChildrenOf(x[2].id)}
LevelStart(folder) == {<<e.name, e>> : e \in ChildrenOf(folder)}
LevelRound(k, before) == UNION {Under(x) : x \in {y \in before : y[2].folder}}
LevelLoop(folder) ==
    CHOOSE g : g = [k \in 0..Cardinality(drive) |->
                      IF k = 0 THEN LevelStart(folder) ELSE LevelRound(k, g[k - 1])]
Level(folder) ==
    LET level[k \in 0..Cardinality(drive)] ==
            IF k = 0 THEN LevelStart(folder) ELSE LevelRound(k, level[k - 1]) IN
    level
Listings == SUBSET (Seq(Chars) \X drive)

LEMMA ListedTyped ==
    ASSUME Tree(drive), "/" \in Chars, NEW x \in Seq(Chars) \X drive
    PROVE  Under(x) \in Listings
<1>1. ASSUME NEW e \in ChildrenOf(x[2].id) PROVE <<x[1] \o <<"/">> \o e.name, e>> \in Seq(Chars) \X drive
  <2>1. e \in drive  BY DEF ChildrenOf
  <2>2. x[1] \in Seq(Chars) /\ e.name \in Seq(Chars) /\ <<"/">> \in Seq(Chars)
    BY <2>1, TreeIs DEF Names
  <2>3. x[1] \o <<"/">> \in Seq(Chars)  BY <2>2, ConcatProperties
  <2>4. x[1] \o <<"/">> \o e.name \in Seq(Chars)  BY <2>2, <2>3, ConcatProperties
  <2> QED  BY <2>1, <2>4
<1> QED  BY <1>1 DEF Under, Listings

LEMMA LevelTyped ==
    ASSUME Tree(drive), "/" \in Chars, NEW folder, NEW i, NEW v \in Listings
    PROVE  LevelStart(folder) \in Listings /\ LevelRound(i, v) \in Listings
<1>1. LevelStart(folder) \in Listings
  <2>1. \A e \in ChildrenOf(folder) : e \in drive /\ e.name \in Seq(Chars)
    BY TreeIs DEF ChildrenOf, Names
  <2> QED  BY <2>1 DEF LevelStart, Listings
<1>2. \A x \in v : Under(x) \in Listings
  <2> TAKE x \in v
  <2>1. x \in Seq(Chars) \X drive  BY DEF Listings
  <2> QED  BY <2>1, ListedTyped
<1>3. LevelRound(i, v) \in Listings  BY <1>2 DEF LevelRound, Listings
<1> QED  BY <1>1, <1>3

LEMMA LevelIsLoop ==
    ASSUME Tree(drive), "/" \in Chars, NEW folder
    PROVE  /\ Level(folder)[0] = LevelStart(folder)
           /\ \A i \in 1..Cardinality(drive) : Level(folder)[i] = LevelRound(i, Level(folder)[i - 1])
<1>1. PICK n, V : n = Cardinality(drive) /\ n \in Nat /\ V = Listings  BY TreeIs, FS_CardinalityType
<1>2. \A i \in 1..n, v \in V : LevelRound(i, v) \in V
  <2> TAKE i \in 1..n, v \in V
  <2> QED  BY <1>1, LevelTyped
<1>3. PICK step : step = [x \in (1..n) \X V |-> LevelRound(x[1], x[2])]  OBVIOUS
<1>4. \A i \in 1..n, v \in V : step[<<i, v>>] = LevelRound(i, v)  BY <1>3
<1>5. LevelStart(folder) \in V  BY <1>1, LevelTyped DEF Listings
<1>6. PICK f \in [0..n -> V] : f[0] = LevelStart(folder) /\ \A i \in 1..n : f[i] = step[<<i, f[i - 1]>>]
  <2>1. StepsWithin(step, n, V)  BY <1>2, <1>4 DEF StepsWithin
  <2>2. PICK f \in [0..n -> V] : Iterates(f, n, LevelStart(folder), step)  BY <1>1, <1>5, <2>1, Recursion
  <2> QED  BY <2>2 DEF Iterates
<1>7. \A i \in 1..n : f[i] = LevelRound(i, f[i - 1])
  <2> TAKE i \in 1..n
  <2>1. i - 1 \in 0..n  BY <1>1
  <2>2. f[i - 1] \in V  BY <2>1
  <2> QED  BY <1>4, <1>6, <2>2
<1>8. f = [i \in 0..n |-> IF i = 0 THEN LevelStart(folder) ELSE LevelRound(i, f[i - 1])]
  <2>1. \A i \in 0..n : f[i] = IF i = 0 THEN LevelStart(folder) ELSE LevelRound(i, f[i - 1])
    <3> TAKE i \in 0..n
    <3>1. CASE i = 0  BY <1>6, <3>1
    <3>2. CASE i # 0
      <4>1. i \in 1..n  BY <1>1, <3>2
      <4> QED  BY <1>7, <3>2, <4>1
    <3> QED  BY <3>1, <3>2
  <2> QED  BY <2>1
<1>9. PICK g : g = LevelLoop(folder)  OBVIOUS
<1>10. g = [i \in 0..n |-> IF i = 0 THEN LevelStart(folder) ELSE LevelRound(i, g[i - 1])]
  BY <1>1, <1>8, <1>9, Zenon DEF LevelLoop
<1>11. g[0] = LevelStart(folder) /\ \A i \in 1..n : g[i] = LevelRound(i, g[i - 1])
  <2>1. PICK h : h = [i \in 0..n |-> IF i = 0 THEN LevelStart(folder) ELSE LevelRound(i, g[i - 1])]  OBVIOUS
  <2>2. g = h  BY <1>10, <2>1
  <2>3. h[0] = LevelStart(folder) /\ \A i \in 1..n : h[i] = LevelRound(i, g[i - 1])  BY <1>1, <2>1
  <2> QED  BY <2>2, <2>3
<1>12. Level(folder) = g  BY <1>9 DEF Level, LevelLoop
<1> QED  BY <1>1, <1>11, <1>12

LEMMA ListingIs ==
    ASSUME NEW folder, NEW recursive
    PROVE  ListFolder(folder, recursive) =
             IF recursive THEN UNION {Level(folder)[k] : k \in 0..Cardinality(drive)}
             ELSE Level(folder)[0]
BY Zenon DEF ListFolder, Level, LevelStart, LevelRound, Under

LEMMA LevelsTyped ==
    ASSUME Tree(drive), "/" \in Chars, NEW folder, NEW k \in 0..Cardinality(drive)
    PROVE  Level(folder)[k] \in Listings
<1>1. PICK n, g : n = Cardinality(drive) /\ n \in Nat /\ g = Level(folder)
  BY TreeIs, FS_CardinalityType
<1>2. g[0] = LevelStart(folder) /\ \A i \in 1..n : g[i] = LevelRound(i, g[i - 1])
  BY <1>1, LevelIsLoop
<1>3. PICK Z : Z = {i \in 0..n : g[i] \in Listings}  OBVIOUS
<1>4. {} \in Listings  BY DEF Listings
<1>5. 0 \in Z  BY <1>1, <1>2, <1>3, <1>4, LevelTyped
<1>6. \A i \in 1..n : i - 1 \in Z => i \in Z
  <2> TAKE i \in 1..n
  <2> SUFFICES ASSUME i - 1 \in Z PROVE i \in Z  OBVIOUS
  <2>1. g[i - 1] \in Listings /\ i \in 0..n  BY <1>1, <1>3
  <2>2. LevelRound(i, g[i - 1]) \in Listings  BY <2>1, LevelTyped
  <2> QED  BY <1>2, <1>3, <2>1, <2>2
<1>7. \A i \in 0..n : i \in Z  BY <1>1, <1>5, <1>6, UpTo
<1> QED  BY <1>1, <1>3, <1>7

LEMMA ImageFinite ==
    ASSUME NEW S, IsFiniteSet(S), NEW f, DOMAIN f = S, f = [x \in S |-> f[x]]
    PROVE  IsFiniteSet({f[x] : x \in S})
<1>1. PICK T : T = {f[x] : x \in S}  OBVIOUS
<1>2. f \in [S -> T]  BY <1>1
<1>3. f \in Surjection(S, T)  BY <1>1, <1>2 DEF Surjection
<1> QED  BY <1>1, <1>3, FS_Surjection

LEMMA ListingFinite ==
    ASSUME Tree(drive), "/" \in Chars, NEW folder, NEW recursive
    PROVE  /\ IsFiniteSet(ListFolder(folder, recursive))
           /\ ListFolder(folder, recursive) \in Listings
<1>1. PICK n, g : n = Cardinality(drive) /\ n \in Nat /\ g = Level(folder) /\ IsFiniteSet(drive)
  BY TreeIs, FS_CardinalityType
<1>2. g[0] = LevelStart(folder) /\ \A i \in 1..n : g[i] = LevelRound(i, g[i - 1])
  BY <1>1, LevelIsLoop
<1>3. ASSUME NEW i PROVE IsFiniteSet(ChildrenOf(i))
  <2>1. ChildrenOf(i) \in SUBSET drive  BY DEF ChildrenOf
  <2> QED  BY <1>1, <2>1, FS_Subset
<1>4. IsFiniteSet(LevelStart(folder))
  <2>1. PICK S, f : S = ChildrenOf(folder) /\ f = [e \in S |-> <<e.name, e>>]  OBVIOUS
  <2>2. IsFiniteSet({f[e] : e \in S})  BY <1>3, <2>1, ImageFinite
  <2>3. {f[e] : e \in S} = LevelStart(folder)  BY <2>1 DEF LevelStart
  <2> QED  BY <2>2, <2>3
<1>5. ASSUME NEW x PROVE IsFiniteSet(Under(x))
  <2>1. PICK S, f : S = ChildrenOf(x[2].id) /\ f = [e \in S |-> <<x[1] \o <<"/">> \o e.name, e>>]
    OBVIOUS
  <2>2. IsFiniteSet({f[e] : e \in S})
    <3>1. IsFiniteSet(S)  BY <1>3, <2>1
    <3>2. DOMAIN f = S /\ f = [e \in S |-> f[e]]  BY <2>1
    <3> QED  BY <3>1, <3>2, ImageFinite
  <2>3. {f[e] : e \in S} = Under(x)  BY <2>1 DEF Under
  <2> QED  BY <2>2, <2>3
<1>6. ASSUME NEW i, NEW v, IsFiniteSet(v) PROVE IsFiniteSet(LevelRound(i, v))
  <2>1. PICK S : S = {y \in v : y[2].folder}  OBVIOUS
  <2>2. S \in SUBSET v  BY <2>1
  <2>3. IsFiniteSet(S)  BY <1>6, <2>2, FS_Subset
  <2>4. PICK f : f = [x \in S |-> Under(x)]  OBVIOUS
  <2>5. IsFiniteSet({f[x] : x \in S})  BY <2>3, <2>4, ImageFinite
  <2>6. \A y \in {f[x] : x \in S} : IsFiniteSet(y)  BY <1>5, <2>4
  <2>7. IsFiniteSet(UNION {f[x] : x \in S})  BY <2>5, <2>6, FS_UNION
  <2>8. {f[x] : x \in S} = {Under(x) : x \in S}  BY <2>4
  <2>9. LevelRound(i, v) = UNION {f[x] : x \in S}  BY <2>1, <2>8 DEF LevelRound
  <2> QED  BY <2>7, <2>9
<1>7. PICK Z : Z = {i \in 0..n : IsFiniteSet(g[i])}  OBVIOUS
<1>8. 0 \in Z  BY <1>1, <1>2, <1>4, <1>7
<1>9. \A i \in 1..n : i - 1 \in Z => i \in Z
  <2> TAKE i \in 1..n
  <2> SUFFICES ASSUME i - 1 \in Z PROVE i \in Z  OBVIOUS
  <2>1. IsFiniteSet(g[i - 1]) /\ i \in 0..n  BY <1>1, <1>7
  <2>2. IsFiniteSet(LevelRound(i, g[i - 1]))  BY <1>6, <2>1
  <2> QED  BY <1>2, <1>7, <2>1, <2>2
<1>10. \A i \in 0..n : i \in Z  BY <1>1, <1>8, <1>9, UpTo
<1>11. PICK L : L = {g[k] : k \in 0..n}  OBVIOUS
<1>12. \A k \in 0..n : IsFiniteSet(g[k]) /\ g[k] \in Listings
  <2> TAKE k \in 0..n
  <2>1. g[k] \in Listings  BY <1>1, LevelsTyped
  <2> QED  BY <1>7, <1>10, <2>1
<1>13. IsFiniteSet(UNION L)
  <2>1. IsFiniteSet(0..n)  BY <1>1, FS_Interval
  <2>2. PICK f : f = [k \in 0..n |-> g[k]]  OBVIOUS
  <2>3. IsFiniteSet({f[k] : k \in 0..n})
    <3>1. PICK S : S = 0..n  OBVIOUS
    <3>2. DOMAIN f = S /\ f = [k \in S |-> f[k]] /\ IsFiniteSet(S)  BY <2>1, <2>2, <3>1
    <3>3. IsFiniteSet({f[k] : k \in S})  BY <3>2, ImageFinite
    <3> QED  BY <3>1, <3>3
  <2>4. {f[k] : k \in 0..n} = L  BY <1>11, <2>2
  <2>5. \A y \in L : IsFiniteSet(y)  BY <1>11, <1>12
  <2> QED  BY <2>3, <2>4, <2>5, FS_UNION
<1>14. UNION L \in Listings  BY <1>11, <1>12 DEF Listings
<1>15. 0 \in 0..n  BY <1>1
<1>16. ListFolder(folder, recursive) = IF recursive THEN UNION L ELSE g[0]
  BY <1>1, <1>11, ListingIs
<1> QED  BY <1>12, <1>13, <1>14, <1>15, <1>16

\* What a text begins with.
LEMMA BeginsWith ==
    ASSUME NEW C, NEW a \in Seq(C), NEW b \in Seq(C)
    PROVE  IsPrefix(a, a \o b)
<1>1. PICK z : z = a \o b  OBVIOUS
<1>2. z \in Seq(C) /\ Len(z) = Len(a) + Len(b) /\ \A i \in 1..Len(a) : z[i] = a[i]
  BY <1>1, ConcatProperties
<1>3. Len(a) \in Nat /\ Len(b) \in Nat  BY LenProperties
<1>4. Len(a) <= Len(z)  BY <1>2, <1>3
<1>5. IsPrefix(a, z)  BY <1>2, <1>4, PrefixIs
<1> QED  BY <1>1, <1>5

LEMMA BeginsFurther ==
    ASSUME NEW C, NEW a \in Seq(C), NEW b \in Seq(C), NEW c \in Seq(C), IsPrefix(a, b), IsPrefix(b, c)
    PROVE  IsPrefix(a, c)
<1>1. Len(a) \in Nat /\ Len(b) \in Nat /\ Len(c) \in Nat  BY LenProperties
<1>2. Len(a) <= Len(b) /\ \A i \in 1..Len(a) : a[i] = b[i]  BY PrefixIs
<1>3. Len(b) <= Len(c) /\ \A i \in 1..Len(b) : b[i] = c[i]  BY PrefixIs
<1>4. Len(a) <= Len(c)  BY <1>1, <1>2, <1>3
<1>5. \A i \in 1..Len(a) : a[i] = c[i]
  <2> TAKE i \in 1..Len(a)
  <2>1. i \in 1..Len(b)  BY <1>1, <1>2
  <2> QED  BY <1>2, <1>3, <2>1
<1> QED  BY <1>4, <1>5, PrefixIs

\* A path begins with those above it.
LEMMA JoinBegins ==
    ASSUME NEW C, "/" \in C, NEW v \in Seq(Seq(C)), NEW j \in 1..(Len(v) - 1)
    PROVE  IsPrefix(JoinSegments(SubSeq(v, 1, j)) \o <<"/">>, JoinSegments(v))
<1>1. PICK l, T : l = Len(v) /\ l \in Nat /\ T = Seq(C)  BY LenProperties
<1>2. <<"/">> \in T  BY <1>1
<1>3. \A i \in 1..l : SubSeq(v, 1, i) \in Seq(T)
  <2> TAKE i \in 1..l
  <2>1. i \in 0..Len(v)  BY <1>1
  <2> QED  BY <1>1, <2>1, FirstOf
<1>4. PICK a : a = JoinSegments(SubSeq(v, 1, j)) \o <<"/">>  OBVIOUS
<1>5. a \in T
  <2>1. j \in 1..l  BY <1>1
  <2>2. JoinSegments(SubSeq(v, 1, j)) \in T  BY <1>1, <1>3, <2>1, JoinTyped
  <2> QED  BY <1>1, <1>2, <1>4, <2>2, ConcatProperties
<1>6. PICK Z : Z = {i \in 0..l : i > j => IsPrefix(a, JoinSegments(SubSeq(v, 1, i)))}  OBVIOUS
<1>7. 0 \in Z  BY <1>1, <1>6
<1>8. ASSUME NEW i \in 1..l, i - 1 \in Z PROVE i \in Z
  <2>1. i \in 0..l  BY <1>1
  <2>2. CASE ~(i > j)  BY <1>6, <2>1, <2>2
  <2>3. CASE i > j
    <3>1. i - 1 \in 1..l /\ i - 1 \in 0..l  BY <1>1, <2>3
    <3>2. PICK w, x : w = SubSeq(v, 1, i - 1) /\ x = v[i] /\ w \in Seq(T) /\ x \in T
                      /\ Len(w) = i - 1 /\ SubSeq(v, 1, i) = Append(w, x)
      <4>1. i \in 1..Len(v)  BY <1>1
      <4> QED  BY <1>1, <4>1, PrefixAppend
    <3>3. w # <<>>
      <4>1. Len(w) # 0  BY <3>1, <3>2
      <4> QED  BY <3>2, <4>1, EmptySeq
    <3>4. PICK p, q : p = JoinSegments(w) /\ q = JoinSegments(Append(w, x)) /\ p \in T /\ q \in T
                      /\ q = p \o <<"/">> \o x
      <4>1. w \in Seq(Seq(C)) /\ x \in Seq(C)  BY <1>1, <3>2
      <4>2. /\ JoinSegments(w) \in Seq(C) /\ JoinSegments(Append(w, x)) \in Seq(C)
            /\ JoinSegments(Append(w, x)) = JoinSegments(w) \o <<"/">> \o x
        BY <3>3, <4>1, JoinAppend
      <4> QED  BY <1>1, <4>2
    <3>5. PICK b : b = p \o <<"/">> /\ b \in T /\ IsPrefix(p, b)
      BY <1>1, <1>2, <3>4, BeginsWith, ConcatProperties
    <3>6. q = b \o x  BY <3>4, <3>5
    <3>7. IsPrefix(b, q)  BY <1>1, <3>2, <3>5, <3>6, BeginsWith
    <3>8. IsPrefix(a, q)
      <4>1. CASE i - 1 = j  BY <1>4, <3>2, <3>4, <3>5, <3>7, <4>1
      <4>2. CASE i - 1 # j
        <5>1. i - 1 > j  BY <1>1, <2>3, <4>2
        <5>2. IsPrefix(a, p)  BY <1>6, <1>8, <3>2, <3>4, <5>1
        <5>3. IsPrefix(a, b)  BY <1>1, <1>5, <3>4, <3>5, <5>2, BeginsFurther
        <5> QED  BY <1>1, <1>5, <3>4, <3>5, <3>7, <5>3, BeginsFurther
      <4> QED  BY <4>1, <4>2
    <3> QED  BY <1>6, <2>1, <3>2, <3>4, <3>8
  <2> QED  BY <2>2, <2>3
<1>9. \A i \in 0..l : i \in Z  BY <1>1, <1>7, <1>8, UpTo
<1>10. l \in Z /\ l > j  BY <1>1, <1>9
<1>11. SubSeq(v, 1, Len(v)) = v  BY SubSeqFull
<1> QED  BY <1>1, <1>4, <1>6, <1>10, <1>11

\* What is listed at level k is k folders below the folder listed.
Listed(S, d, k, x) ==
    \E R \in Seq(Names(Chars)) :
        /\ Len(R) = k + 1 /\ JoinSegments(R) = x[1]
        /\ Alone(drive, S, d) => x[2] \in Reach(drive, S \o R)

LEMMA ListedFirst ==
    ASSUME Tree(drive), "/" \in Chars, NEW S \in Seq(Names(Chars)), NEW d, NEW x \in LevelStart(d.id)
    PROVE  Listed(S, d, 0, x)
<1>1. PICK e \in drive : e.parent = d.id /\ x = <<e.name, e>>  BY DEF LevelStart, ChildrenOf
<1>2. PICK N : N = Names(Chars)  OBVIOUS
<1>3. PICK R : R = <<e.name>>  OBVIOUS
<1>4. e.name \in N /\ e.name \in Seq(Chars)  BY <1>2, TreeIs DEF Names
<1>5. R \in Seq(N) /\ Len(R) = 1  BY <1>3, <1>4
<1>6. JoinSegments(R) = e.name
  <2>1. R = Append(<<>>, e.name)  BY <1>3
  <2>2. PICK T : T = Seq(Chars)  OBVIOUS
  <2>3. <<>> \in Seq(T)  OBVIOUS
  <2> QED  BY <1>4, <2>1, <2>2, <2>3, JoinAppend
<1>7. ASSUME Alone(drive, S, d) PROVE e \in Reach(drive, S \o R)
  <2>1. S \o R = Append(S, e.name)  BY <1>2, <1>3, <1>4, AppendIsConcat
  <2>2. Reach(drive, Append(S, e.name)) = {f \in drive : f.parent = d.id /\ f.name = e.name}
    BY <1>2, <1>4, <1>7, Kids
  <2> QED  BY <1>1, <2>1, <2>2
<1>8. Len(R) = 0 + 1  BY <1>5
<1> QED  BY <1>1, <1>2, <1>5, <1>6, <1>7, <1>8 DEF Listed

LEMMA ListedNext ==
    ASSUME Tree(drive), "/" \in Chars, NEW S \in Seq(Names(Chars)), NEW d, NEW k \in Nat,
           NEW y, y[2].folder, Listed(S, d, k, y), NEW x \in Under(y)
    PROVE  Listed(S, d, k + 1, x)
<1>1. PICK e \in drive : e.parent = y[2].id /\ x = <<y[1] \o <<"/">> \o e.name, e>>
  BY DEF Under, ChildrenOf
<1>2. PICK N : N = Names(Chars)  OBVIOUS
<1>3. e.name \in N /\ e.name \in Seq(Chars)  BY <1>2, TreeIs DEF Names
<1>4. PICK R \in Seq(N) : Len(R) = k + 1 /\ JoinSegments(R) = y[1]
                          /\ (Alone(drive, S, d) => y[2] \in Reach(drive, S \o R))
  BY <1>2 DEF Listed
<1>5. PICK Q : Q = Append(R, e.name)  OBVIOUS
<1>6. Q \in Seq(N) /\ Len(Q) = (k + 1) + 1  BY <1>3, <1>4, <1>5, AppendProperties
<1>7. JoinSegments(Q) = x[1]
  <2>1. R # <<>>  BY <1>4
  <2>2. R \in Seq(Seq(Chars))  BY <1>2, NamesAreTexts
  <2>3. JoinSegments(Append(R, e.name)) = JoinSegments(R) \o <<"/">> \o e.name
    BY <1>3, <2>1, <2>2, JoinAppend
  <2> QED  BY <1>1, <1>4, <1>5, <2>3
<1>8. ASSUME Alone(drive, S, d) PROVE e \in Reach(drive, S \o Q)
  <2>1. PICK T : T = S \o R /\ T \in Seq(N)  BY <1>2, ConcatProperties
  <2>2. S \o Q = Append(T, e.name)
    <3>1. PICK z : z = <<e.name>> /\ z \in Seq(N)
      <4>1. <<e.name>> \in Seq(N)  BY <1>3
      <4> QED  BY <4>1
    <3>2. Q = R \o z  BY <1>3, <1>5, <3>1, AppendIsConcat
    <3>3. Append(T, e.name) = T \o z  BY <1>3, <2>1, <3>1, AppendIsConcat
    <3>4. (S \o R) \o z = S \o (R \o z)  BY <1>2, <3>1, ConcatAssociative, SMTT(60)
    <3> QED  BY <2>1, <3>2, <3>3, <3>4
  <2>3. Extends(drive, T, Append(T, e.name), e.name)  BY <1>3, <2>1, ReachAppend
  <2>4. Reach(drive, Append(T, e.name)) = Within(drive, Reach(drive, T), e.name)
    BY <2>3 DEF Extends
  <2>5. y[2] \in Reach(drive, T)  BY <1>4, <1>8, <2>1
  <2> QED  BY <1>1, <2>2, <2>4, <2>5 DEF Within
<1>9. x[2] = e  BY <1>1
<1> QED  BY <1>2, <1>6, <1>7, <1>8, <1>9 DEF Listed

LEMMA ListedAll ==
    ASSUME Tree(drive), "/" \in Chars, NEW S \in Seq(Names(Chars)), NEW d,
           NEW k \in 0..Cardinality(drive), NEW x \in Level(d.id)[k]
    PROVE  Listed(S, d, k, x)
<1>1. PICK n, g : n = Cardinality(drive) /\ n \in Nat /\ g = Level(d.id)
  BY TreeIs, FS_CardinalityType
<1>2. g[0] = LevelStart(d.id) /\ \A i \in 1..n : g[i] = LevelRound(i, g[i - 1])
  BY <1>1, LevelIsLoop
<1>3. PICK Z : Z = {i \in 0..n : \A y \in g[i] : Listed(S, d, i, y)}  OBVIOUS
<1>4. 0 \in Z
  <2>1. \A y \in g[0] : Listed(S, d, 0, y)  BY <1>2, ListedFirst
  <2> QED  BY <1>1, <1>3, <2>1
<1>5. \A i \in 1..n : i - 1 \in Z => i \in Z
  <2> TAKE i \in 1..n
  <2> SUFFICES ASSUME i - 1 \in Z PROVE i \in Z  OBVIOUS
  <2>1. i - 1 \in Nat /\ (i - 1) + 1 = i /\ i \in 0..n  BY <1>1
  <2>2. ASSUME NEW z \in g[i] PROVE Listed(S, d, i, z)
    <3>1. z \in LevelRound(i, g[i - 1])  BY <1>2, <2>2
    <3>2. PICK y \in g[i - 1] : y[2].folder /\ z \in Under(y)  BY <3>1 DEF LevelRound
    <3>3. Listed(S, d, i - 1, y)  BY <1>3, <3>2
    <3>4. Listed(S, d, (i - 1) + 1, z)  BY <2>1, <3>2, <3>3, ListedNext
    <3> QED  BY <2>1, <3>4
  <2> QED  BY <1>3, <2>1, <2>2
<1>6. \A i \in 0..n : i \in Z  BY <1>1, <1>4, <1>5, UpTo
<1> QED  BY <1>1, <1>3, <1>6

\* And everything that many folders below it is listed at that level.
Lists(S, d, k, level) ==
    \A R \in Seq(Names(Chars)) : Len(R) = k + 1 =>
        \A y \in Reach(drive, S \o R) : <<JoinSegments(R), y>> \in level

LEMMA ListsFirst ==
    ASSUME Tree(drive), "/" \in Chars, NEW S \in Seq(Names(Chars)), NEW d, Alone(drive, S, d)
    PROVE  Lists(S, d, 0, LevelStart(d.id))
<1>1. PICK N : N = Names(Chars)  OBVIOUS
<1>2. SUFFICES ASSUME NEW R \in Seq(N), Len(R) = 0 + 1, NEW y \in Reach(drive, S \o R)
               PROVE  <<JoinSegments(R), y>> \in LevelStart(d.id)
  BY <1>1 DEF Lists
<1>3. PICK x : x = R[1] /\ x \in N /\ R = <<x>>
  <2>1. R[1] \in N
    <3>1. 1 \in 1..Len(R)  BY <1>2
    <3> QED  BY <1>2, <3>1, ElementOfSeq
  <2>2. R = <<R[1]>>  BY <1>2
  <2> QED  BY <2>1, <2>2
<1>4. x \in Seq(Chars)  BY <1>1, <1>3 DEF Names
<1>5. JoinSegments(R) = x
  <2>1. R = Append(<<>>, x)  BY <1>3
  <2>2. PICK T : T = Seq(Chars)  OBVIOUS
  <2>3. <<>> \in Seq(T)  OBVIOUS
  <2> QED  BY <1>4, <2>1, <2>2, <2>3, JoinAppend
<1>6. S \o R = Append(S, x)  BY <1>1, <1>3, AppendIsConcat
<1>7. Reach(drive, Append(S, x)) = {e \in drive : e.parent = d.id /\ e.name = x}
  BY <1>1, <1>3, Kids
<1>8. y \in drive /\ y.parent = d.id /\ y.name = x  BY <1>2, <1>6, <1>7
<1> QED  BY <1>5, <1>8 DEF LevelStart, ChildrenOf

LEMMA ListsNext ==
    ASSUME Tree(drive), "/" \in Chars, NEW S \in Seq(Names(Chars)), NEW d, NEW k \in Nat,
           NEW v, Lists(S, d, k, v)
    PROVE  Lists(S, d, k + 1, LevelRound(k + 1, v))
<1>1. PICK N : N = Names(Chars)  OBVIOUS
<1>2. SUFFICES ASSUME NEW R \in Seq(N), Len(R) = (k + 1) + 1, NEW y \in Reach(drive, S \o R)
               PROVE  <<JoinSegments(R), y>> \in LevelRound(k + 1, v)
  BY <1>1 DEF Lists
<1>3. R # <<>>  BY <1>2
<1>4. PICK F, x : F = Front(R) /\ x = Last(R) /\ F \in Seq(N) /\ x \in N /\ R = Append(F, x)
  BY <1>3, FrontAndLast
<1>5. Len(F) = k + 1
  <2>1. Len(R) = Len(F) + 1 /\ Len(F) \in Nat  BY <1>4, AppendProperties, LenProperties
  <2> QED  BY <1>2, <2>1
<1>6. PICK T : T = S \o F /\ T \in Seq(N)  BY <1>1, <1>4, ConcatProperties
<1>7. S \o R = Append(T, x)
  <2>1. PICK z : z = <<x>> /\ z \in Seq(N)
    <3>1. <<x>> \in Seq(N)  BY <1>4
    <3> QED  BY <3>1
  <2>2. R = F \o z  BY <1>4, <2>1, AppendIsConcat
  <2>3. Append(T, x) = T \o z  BY <1>4, <1>6, <2>1, AppendIsConcat
  <2>4. (S \o F) \o z = S \o (F \o z)  BY <1>1, <1>4, <2>1, ConcatAssociative, SMTT(60)
  <2> QED  BY <1>6, <2>2, <2>3, <2>4
<1>8. Extends(drive, T, Append(T, x), x)  BY <1>4, <1>6, ReachAppend
<1>9. y \in Within(drive, Reach(drive, T), x)  BY <1>2, <1>7, <1>8 DEF Extends
<1>10. PICK f \in Reach(drive, T) : f.folder /\ y.parent = f.id /\ y \in drive /\ y.name = x
  BY <1>9 DEF Within
<1>11. PICK w : w = <<JoinSegments(F), f>> /\ w \in v
  BY <1>1, <1>4, <1>5, <1>6, <1>10 DEF Lists
<1>12. JoinSegments(R) = JoinSegments(F) \o <<"/">> \o x
  <2>1. F # <<>>  BY <1>5
  <2>2. F \in Seq(Seq(Chars)) /\ x \in Seq(Chars)  BY <1>1, <1>4, NamesAreTexts DEF Names
  <2> QED  BY <1>4, <2>1, <2>2, JoinAppend
<1>13. <<JoinSegments(R), y>> \in Under(w)
  <2>1. w[1] = JoinSegments(F) /\ w[2] = f  BY <1>11
  <2>2. y \in ChildrenOf(w[2].id)  BY <1>10, <2>1 DEF ChildrenOf
  <2>3. <<w[1] \o <<"/">> \o y.name, y>> \in Under(w)  BY <2>2 DEF Under
  <2> QED  BY <1>10, <1>12, <2>1, <2>3
<1>14. w[2].folder  BY <1>10, <1>11
<1> QED  BY <1>11, <1>13, <1>14 DEF LevelRound

LEMMA ListsAll ==
    ASSUME Tree(drive), "/" \in Chars, NEW S \in Seq(Names(Chars)), NEW d, Alone(drive, S, d),
           NEW k \in 0..Cardinality(drive)
    PROVE  Lists(S, d, k, Level(d.id)[k])
<1>1. PICK n, g : n = Cardinality(drive) /\ n \in Nat /\ g = Level(d.id)
  BY TreeIs, FS_CardinalityType
<1>2. g[0] = LevelStart(d.id) /\ \A i \in 1..n : g[i] = LevelRound(i, g[i - 1])
  BY <1>1, LevelIsLoop
<1>3. PICK Z : Z = {i \in 0..n : Lists(S, d, i, g[i])}  OBVIOUS
<1>4. 0 \in Z  BY <1>1, <1>2, <1>3, ListsFirst
<1>5. \A i \in 1..n : i - 1 \in Z => i \in Z
  <2> TAKE i \in 1..n
  <2> SUFFICES ASSUME i - 1 \in Z PROVE i \in Z  OBVIOUS
  <2>1. i - 1 \in Nat /\ (i - 1) + 1 = i /\ i \in 0..n  BY <1>1
  <2>2. PICK j, v : j = i - 1 /\ v = g[i - 1]  OBVIOUS
  <2>3. j \in Nat /\ Lists(S, d, j, v)  BY <1>3, <2>1, <2>2
  <2>4. Lists(S, d, j + 1, LevelRound(j + 1, v))  BY <2>3, ListsNext
  <2> QED  BY <1>2, <1>3, <2>1, <2>2, <2>4
<1>6. \A i \in 0..n : i \in Z  BY <1>1, <1>4, <1>5, UpTo
<1> QED  BY <1>1, <1>3, <1>6

LEMMA JoinOfNames ==
    ASSUME "/" \in Chars, NEW R \in Seq(Names(Chars))
    PROVE  JoinSegments(R) \in Seq(Chars)
<1>1. R \in Seq(Seq(Chars))  BY NamesAreTexts
<1> QED  BY <1>1, JoinTyped

\* The segments of a listed path below the prefix.
LEMMA ListedKey ==
    ASSUME "/" \in Chars, NEW L \in Seq(Chars), NEW R \in Seq(Names(Chars))
    PROVE  /\ JoinGDrivePath(L, JoinSegments(R)) \in Seq(Chars)
           /\ SplitSegments(JoinGDrivePath(L, JoinSegments(R))) = SplitSegments(L) \o R
<1>1. PICK r : r = JoinSegments(R) /\ r \in Seq(Chars)  BY JoinOfNames
<1>2. SplitSegments(r) = R  BY <1>1, SplitJoin
<1>3. CASE L = <<>>
  <2>1. JoinGDrivePath(L, r) = r  BY <1>3 DEF JoinGDrivePath
  <2>2. SplitSegments(L) = <<>>  BY <1>3, SplitNothing
  <2>3. <<>> \o R = R  BY ConcatEmptySeq
  <2> QED  BY <1>1, <1>2, <2>1, <2>2, <2>3
<1>4. CASE L # <<>>
  <2>1. JoinGDrivePath(L, r) = L \o <<"/">> \o r  BY <1>4 DEF JoinGDrivePath
  <2>2. SplitSegments(L \o <<"/">> \o r) = SplitSegments(L) \o SplitSegments(r)
    BY <1>1, SplitConcat
  <2>3. L \o <<"/">> \in Seq(Chars)
    <3>1. <<"/">> \in Seq(Chars)  OBVIOUS
    <3> QED  BY <3>1, ConcatProperties
  <2>4. L \o <<"/">> \o r \in Seq(Chars)  BY <1>1, <2>3, ConcatProperties
  <2> QED  BY <1>1, <1>2, <2>1, <2>2, <2>4
<1> QED  BY <1>3, <1>4

\* The levels that are listed.
Deep(k, recursive) == k = 0 \/ recursive
LEMMA LevelListed ==
    ASSUME Tree(drive), NEW folder, NEW recursive, NEW k \in 0..Cardinality(drive),
           Deep(k, recursive)
    PROVE  Level(folder)[k] \subseteq ListFolder(folder, recursive)
<1>1. CASE recursive
  <2>1. ListFolder(folder, recursive) = UNION {Level(folder)[i] : i \in 0..Cardinality(drive)}
    BY <1>1, ListingIs
  <2> QED  BY <2>1
<1>2. CASE ~recursive
  <2>1. ListFolder(folder, recursive) = Level(folder)[0]  BY <1>2, ListingIs
  <2>2. k = 0  BY <1>2 DEF Deep
  <2> QED  BY <2>1, <2>2
<1> QED  BY <1>1, <1>2

LEMMA ListedSomewhere ==
    ASSUME Tree(drive), NEW folder, NEW recursive, NEW x \in ListFolder(folder, recursive)
    PROVE  \E k \in 0..Cardinality(drive) : Deep(k, recursive) /\ x \in Level(folder)[k]
<1>1. Cardinality(drive) \in Nat  BY TreeIs, FS_CardinalityType
<1>2. CASE recursive
  <2>1. ListFolder(folder, recursive) = UNION {Level(folder)[i] : i \in 0..Cardinality(drive)}
    BY <1>2, ListingIs
  <2> QED  BY <1>2, <2>1 DEF Deep
<1>3. CASE ~recursive
  <2>1. ListFolder(folder, recursive) = Level(folder)[0]  BY <1>3, ListingIs
  <2>2. 0 \in 0..Cardinality(drive)  BY <1>1
  <2> QED  BY <2>1, <2>2 DEF Deep
<1> QED  BY <1>2, <1>3

BeginAlike(S, R, n) ==
    n \in Nat /\ n <= Len(S) /\ n <= Len(R) /\ \A i \in 1..n : S[i] = R[i]
LEMMA PlacesAlike ==
    ASSUME NEW D, NEW T, NEW S \in Seq(T), NEW R \in Seq(T), NEW n, BeginAlike(S, R, n)
    PROVE  PlacesIn(D, S)[n] = PlacesIn(D, R)[n]
<1>1. n \in Nat /\ n <= Len(S) /\ n <= Len(R) /\ \A i \in 1..n : S[i] = R[i]  BY DEF BeginAlike
<1> QED  BY <1>1, PlacesSame

\* Glob's listing of a folder that is the only one of its path: an entry is cached
\* (Unambiguous) only if its path leads to it, to no other, and through one folder only.
THEOREM ListedAlone ==
    ASSUME Tree(drive), "/" \in Chars, NEW S \in Seq(Names(Chars)), NEW d, Alone(drive, S, d),
           NEW recursive, NEW listing, listing = ListFolder(d.id, recursive),
           NEW x \in Unambiguous(listing),
           NEW R \in Seq(Names(Chars)), NEW k \in 0..Cardinality(drive), Len(R) = k + 1,
           JoinSegments(R) = x[1], x[2] \in Reach(drive, S \o R), Deep(k, recursive),
           x = <<x[1], x[2]>>
    PROVE  Alone(drive, S \o R, x[2])
<1>1. PICK N, T, y, l : N = Names(Chars) /\ T = S \o R /\ T \in Seq(N) /\ y = x[2]
                        /\ l = Len(S) /\ l \in Nat
  BY ConcatProperties, LenProperties
<1>2. Len(T) = l + k + 1 /\ k \in Nat /\ Cardinality(drive) \in Nat
  <2>1. Len(S \o R) = Len(S) + Len(R)  BY ConcatProperties
  <2>2. Cardinality(drive) \in Nat  BY TreeIs, FS_CardinalityType
  <2> QED  BY <1>1, <2>1, <2>2
<1>3. /\ x \in listing /\ \A w \in listing : w[1] = x[1] => w = x
      /\ \A w \in listing : IsPrefix(w[1] \o <<"/">>, x[1]) => \A z \in listing : z[1] = w[1] => z = w
  BY DEF Unambiguous, UnambiguousItself
<1>4. \A z \in Reach(drive, T) : z = y
  <2> TAKE z \in Reach(drive, T)
  <2>1. Lists(S, d, k, Level(d.id)[k])  BY ListsAll
  <2>2. <<JoinSegments(R), z>> \in Level(d.id)[k]  BY <1>1, <2>1 DEF Lists
  <2>3. PICK w : w = <<x[1], z>> /\ w \in listing  BY <2>2, LevelListed
  <2>4. w = x  BY <1>3, <2>3
  <2> QED  BY <1>1, <2>3, <2>4
<1>5. ASSUME NEW n \in 1..(Len(T) - 1) PROVE OneFolder(drive, T, n)
  <2>1. n \in 0..Len(T) /\ n \in Nat  BY <1>1, <1>2
  <2>2. CASE n <= l
    <3>1. \A i \in 1..n : T[i] = S[i]
      <4>1. \A i \in 1..Len(S) : (S \o R)[i] = S[i]  BY ConcatProperties
      <4> QED  BY <1>1, <2>1, <2>2, <4>1
    <3>2. n <= Len(S) /\ n <= Len(T)  BY <1>1, <1>2, <2>1, <2>2
    <3>3. PlacesIn(drive, T)[n] = PlacesIn(drive, S)[n]
      <4>1. T \in Seq(N) /\ S \in Seq(N) /\ n \in Nat  BY <1>1, <2>1
      <4>2. BeginAlike(T, S, n)  BY <3>1, <3>2, <4>1 DEF BeginAlike
      <4> QED  BY <4>1, <4>2, PlacesAlike
    <3>4. CASE n = l
      <4>1. \A p, q \in Reach(drive, S) : (p.folder = TRUE) /\ (q.folder = TRUE) => p = q  BY DEF Alone
      <4> QED  BY <1>1, <3>3, <3>4, <4>1 DEF Reach, OneFolder
    <3>5. CASE n # l
      <4>1. n \in 1..(Len(S) - 1)  BY <1>1, <2>2, <3>5
      <4>2. OneFolder(drive, S, n)  BY <4>1 DEF Alone
      <4> QED  BY <3>3, <4>2 DEF OneFolder
    <3> QED  BY <3>4, <3>5
  <2>3. CASE n > l
    <3>1. PICK j : j = n - l /\ j \in 1..k /\ j \in Nat /\ j - 1 \in 0..Cardinality(drive)
                   /\ j = (j - 1) + 1 /\ k # 0
      BY <1>1, <1>2, <2>3
    <3>2. PICK Q : Q = SubSeq(R, 1, j) /\ Q \in Seq(N) /\ Len(Q) = j
      <4>1. j \in 0..Len(R)  BY <1>2, <3>1
      <4>2. SubSeq(R, 1, j) \in Seq(Names(Chars)) /\ Len(SubSeq(R, 1, j)) = j  BY <4>1, FirstOf
      <4> QED  BY <1>1, <4>2
    <3>3. PlacesIn(drive, T)[n] = Reach(drive, S \o Q)
      <4>1. PICK P : P = S \o Q /\ P \in Seq(N) /\ Len(P) = n
        <5>1. Len(S \o Q) = Len(S) + Len(Q) /\ S \o Q \in Seq(N)  BY <1>1, <3>2, ConcatProperties
        <5>2. Len(S) + Len(Q) = n  BY <1>1, <2>1, <3>1, <3>2
        <5> QED  BY <5>1, <5>2
      <4>2. \A i \in 1..n : T[i] = P[i]
        <5> TAKE i \in 1..n
        <5>1. T[i] = IF i <= l THEN S[i] ELSE R[i - l]
          <6>1. i \in 1..(Len(S) + Len(R))  BY <1>1, <1>2
          <6> QED  BY <1>1, <6>1, ConcatProperties
        <5>2. P[i] = IF i <= l THEN S[i] ELSE Q[i - l]
          <6>1. i \in 1..(Len(S) + Len(Q))  BY <1>1, <3>1, <3>2
          <6> QED  BY <1>1, <3>2, <4>1, <6>1, ConcatProperties
        <5>3. ~(i <= l) => R[i - l] = Q[i - l]
          <6>1. j \in 0..Len(R)  BY <1>2, <3>1
          <6>2. \A m \in 1..j : SubSeq(R, 1, j)[m] = R[m]  BY <6>1, FirstOf
          <6>3. ~(i <= l) => i - l \in 1..j  BY <1>1, <3>1
          <6> QED  BY <3>2, <6>2, <6>3
        <5> QED  BY <5>1, <5>2, <5>3
      <4>3. n <= Len(T) /\ n <= Len(P)  BY <1>1, <1>2, <2>1, <4>1
      <4>4. PlacesIn(drive, T)[n] = PlacesIn(drive, P)[n]
        <5>1. T \in Seq(N) /\ P \in Seq(N) /\ n \in Nat  BY <1>1, <2>1, <4>1
        <5>2. BeginAlike(T, P, n)  BY <4>2, <4>3, <5>1 DEF BeginAlike
        <5> QED  BY <5>1, <5>2, PlacesAlike
      <4> QED  BY <4>1, <4>4 DEF Reach
    <3>4. \A z \in Reach(drive, S \o Q) : <<JoinSegments(Q), z>> \in listing
      <4> TAKE z \in Reach(drive, S \o Q)
      <4>1. Lists(S, d, j - 1, Level(d.id)[j - 1])  BY <3>1, ListsAll
      <4>2. <<JoinSegments(Q), z>> \in Level(d.id)[j - 1]  BY <1>1, <3>1, <3>2, <4>1 DEF Lists
      <4>3. Deep(j - 1, recursive)  BY <3>1 DEF Deep
      <4> QED  BY <3>1, <4>2, <4>3, LevelListed
    <3>5. IsPrefix(JoinSegments(Q) \o <<"/">>, x[1])
      <4>1. R \in Seq(Seq(Chars))  BY NamesAreTexts
      <4>2. j \in 1..(Len(R) - 1)  BY <1>2, <3>1
      <4>3. IsPrefix(JoinSegments(SubSeq(R, 1, j)) \o <<"/">>, JoinSegments(R))
        BY <4>1, <4>2, JoinBegins
      <4> QED  BY <3>2, <4>3
    <3>6. \A p, q \in Reach(drive, S \o Q) : p = q
      <4> TAKE p, q \in Reach(drive, S \o Q)
      <4>1. PICK v, w : /\ v = <<JoinSegments(Q), p>> /\ v \in listing /\ v[1] = JoinSegments(Q) /\ v[2] = p
                        /\ w = <<JoinSegments(Q), q>> /\ w \in listing /\ w[1] = JoinSegments(Q) /\ w[2] = q
        <5>1. PICK v : v = <<JoinSegments(Q), p>>  OBVIOUS
        <5>2. PICK w : w = <<JoinSegments(Q), q>>  OBVIOUS
        <5>3. v \in listing /\ w \in listing  BY <3>4, <5>1, <5>2
        <5> QED  BY <5>1, <5>2, <5>3
      <4>2. w = v  BY <1>3, <3>5, <4>1
      <4> QED  BY <4>1, <4>2
    <3> QED  BY <3>3, <3>6 DEF OneFolder
  <2> QED  BY <1>1, <2>1, <2>2, <2>3
<1> QED  BY <1>1, <1>4, <1>5 DEF Alone

(***************************************************************************)
(* What Glob has found.                                                    *)
(***************************************************************************)
AppendRound(before) ==
    [left |-> before.left \ {TheOne(before.left)},
     results |-> Append(before.results, TheOne(before.left))]
AppendStart(results, found) == [left |-> found, results |-> results]
AppendLoop(results, found) ==
    CHOOSE g : g = [n \in 0..Cardinality(found) |->
                      IF n = 0 THEN AppendStart(results, found) ELSE AppendRound(g[n - 1])]
Appended(results, found) ==
    LET append[n \in 0..Cardinality(found)] ==
            IF n = 0 THEN AppendStart(results, found) ELSE AppendRound(append[n - 1]) IN
    append[Cardinality(found)]

LEMMA AppendIsLoop ==
    ASSUME NEW found, IsFiniteSet(found), NEW T, found \subseteq T, TheOne({}) \in T,
           NEW results \in Seq(T)
    PROVE  \E f \in [0..Cardinality(found) -> [left : SUBSET found, results : Seq(T)]] :
             /\ f[0] = AppendStart(results, found)
             /\ \A i \in 1..Cardinality(found) : f[i] = AppendRound(f[i - 1])
             /\ Appended(results, found) = f[Cardinality(found)]
<1>1. PICK n, V : n = Cardinality(found) /\ n \in Nat /\ V = [left : SUBSET found, results : Seq(T)]  BY FS_CardinalityType
<1>2. \A i \in 1..n, v \in V : AppendRound(v) \in V
  <2> TAKE i \in 1..n, v \in V
  <2>1. v.left \in SUBSET found /\ v.results \in Seq(T)  BY <1>1
  <2>2. TheOne(v.left) \in T
    <3>1. CASE v.left = {}  BY <3>1
    <3>2. CASE v.left # {}  BY <2>1, <3>2, TheOneIs
    <3> QED  BY <3>1, <3>2
  <2>3. Append(v.results, TheOne(v.left)) \in Seq(T)  BY <2>1, <2>2, AppendProperties
  <2> QED  BY <1>1, <2>1, <2>3 DEF AppendRound
<1>3. PICK step : step = [x \in (1..n) \X V |-> AppendRound(x[2])]  OBVIOUS
<1>4. \A i \in 1..n, v \in V : step[<<i, v>>] = AppendRound(v)  BY <1>3
<1>5. AppendStart(results, found) \in V  BY <1>1 DEF AppendStart
<1>6. PICK f \in [0..n -> V] : f[0] = AppendStart(results, found) /\ \A i \in 1..n : f[i] = step[<<i, f[i - 1]>>]
  <2>1. StepsWithin(step, n, V)  BY <1>2, <1>4 DEF StepsWithin
  <2>2. PICK f \in [0..n -> V] : Iterates(f, n, AppendStart(results, found), step)  BY <1>1, <1>5, <2>1, Recursion
  <2> QED  BY <2>2 DEF Iterates
<1>7. \A i \in 1..n : f[i] = AppendRound(f[i - 1])
  <2> TAKE i \in 1..n
  <2>1. i - 1 \in 0..n  BY <1>1
  <2>2. f[i - 1] \in V  BY <2>1
  <2> QED  BY <1>4, <1>6, <2>2
<1>8. f = [i \in 0..n |-> IF i = 0 THEN AppendStart(results, found) ELSE AppendRound(f[i - 1])]
  <2>1. \A i \in 0..n : f[i] = IF i = 0 THEN AppendStart(results, found) ELSE AppendRound(f[i - 1])
    <3> TAKE i \in 0..n
    <3>1. CASE i = 0  BY <1>6, <3>1
    <3>2. CASE i # 0
      <4>1. i \in 1..n  BY <1>1, <3>2
      <4> QED  BY <1>7, <3>2, <4>1
    <3> QED  BY <3>1, <3>2
  <2> QED  BY <2>1
<1>9. PICK g : g = AppendLoop(results, found)  OBVIOUS
<1>10. g = [i \in 0..n |-> IF i = 0 THEN AppendStart(results, found) ELSE AppendRound(g[i - 1])]
  BY <1>1, <1>8, <1>9, Zenon DEF AppendLoop
<1>11. g[0] = AppendStart(results, found) /\ \A i \in 1..n : g[i] = AppendRound(g[i - 1])
  <2>1. PICK h : h = [i \in 0..n |-> IF i = 0 THEN AppendStart(results, found) ELSE AppendRound(g[i - 1])]  OBVIOUS
  <2>2. g = h  BY <1>10, <2>1
  <2>3. h[0] = AppendStart(results, found) /\ \A i \in 1..n : h[i] = AppendRound(g[i - 1])  BY <1>1, <2>1
  <2> QED  BY <2>2, <2>3
<1>12. \A i \in 1..n : f[i - 1] = g[i - 1] => f[i] = g[i]  BY <1>7, <1>11
<1>13. f[n] = g[n]
  <2>1. Alike(f, g, n)  BY <1>6, <1>11, <1>12 DEF Alike
  <2> QED  BY <1>1, <2>1, SameLoop
<1>14. Appended(results, found) = g[n]  BY <1>1, <1>9 DEF Appended, AppendLoop
<1> QED  BY <1>1, <1>6, <1>7, <1>13, <1>14

LEMMA AppendAllTyped ==
    ASSUME NEW found, IsFiniteSet(found), NEW T, found \subseteq T, NEW results \in Seq(T)
    PROVE  AppendAll(results, found) \in Seq(T)
<1>1. PICK n, U : n = Cardinality(found) /\ n \in Nat /\ U = T \cup {TheOne({})}
  BY FS_CardinalityType
<1>2. results \in Seq(U) /\ found \subseteq U /\ TheOne({}) \in U
  <2>1. T \subseteq U  BY <1>1
  <2>2. results \in Seq(U)  BY <2>1
  <2> QED  BY <1>1, <2>1, <2>2
<1>3. PICK f : /\ f \in [0..n -> [left : SUBSET found, results : Seq(U)]]
               /\ f[0] = AppendStart(results, found)
               /\ \A i \in 1..n : f[i] = AppendRound(f[i - 1])
               /\ Appended(results, found) = f[n]
  <2>1. \E f \in [0..Cardinality(found) -> [left : SUBSET found, results : Seq(U)]] :
             /\ f[0] = AppendStart(results, found)
             /\ \A i \in 1..Cardinality(found) : f[i] = AppendRound(f[i - 1])
             /\ Appended(results, found) = f[Cardinality(found)]
    BY <1>2, AppendIsLoop
  <2> QED  BY <1>1, <2>1
<1>4. PICK Z : Z = {i \in 0..n : /\ f[i].left \subseteq found /\ Cardinality(f[i].left) = n - i
                                 /\ f[i].results \in Seq(T)}
  OBVIOUS
<1>5. 0 \in Z
  <2>1. f[0].left = found /\ f[0].results = results  BY <1>3 DEF AppendStart
  <2> QED  BY <1>1, <1>4, <2>1
<1>6. \A i \in 1..n : i - 1 \in Z => i \in Z
  <2> TAKE i \in 1..n
  <2> SUFFICES ASSUME i - 1 \in Z PROVE i \in Z  OBVIOUS
  <2>1. PICK v : v = f[i - 1]  OBVIOUS
  <2>2. v.left \subseteq found /\ Cardinality(v.left) = n - (i - 1) /\ v.results \in Seq(T)
    BY <1>4, <2>1
  <2>3. IsFiniteSet(v.left)  BY <2>2, FS_Subset
  <2>4. v.left # {}
    <3>1. Cardinality(v.left) # 0  BY <1>1, <2>2
    <3> QED  BY <3>1, FS_EmptySet
  <2>5. PICK e : e = TheOne(v.left) /\ e \in v.left  BY <2>4, TheOneIs
  <2>6. Cardinality(v.left \ {e}) = n - i
    <3>1. Cardinality(v.left \ {e}) = Cardinality(v.left) - 1  BY <2>3, <2>5, FS_RemoveElement
    <3> QED  BY <1>1, <2>2, <3>1
  <2>7. f[i].left = v.left \ {e} /\ f[i].results = Append(v.results, e)
    <3>1. f[i] = AppendRound(v)  BY <1>3, <2>1
    <3>2. AppendRound(v) = [left |-> v.left \ {e}, results |-> Append(v.results, e)]
      BY <2>5 DEF AppendRound
    <3> QED  BY <3>1, <3>2
  <2>8. Append(v.results, e) \in Seq(T)  BY <2>2, <2>5, AppendProperties
  <2>9. i \in 0..n /\ v.left \ {e} \subseteq found  BY <1>1, <2>2
  <2> QED  BY <1>4, <2>6, <2>7, <2>8, <2>9
<1>7. \A i \in 0..n : i \in Z  BY <1>1, <1>5, <1>6, UpTo
<1>8. n \in Z  BY <1>1, <1>7
<1>9. AppendAll(results, found) = Appended(results, found).results
  BY DEF AppendAll, Appended, AppendStart, AppendRound
<1> QED  BY <1>3, <1>4, <1>8, <1>9

DropRound(results, n, kept) ==
    IF results[n] \in Range(kept) THEN kept ELSE Append(kept, results[n])
DropLoop(results) ==
    CHOOSE g : g = [n \in 0..Len(results) |-> IF n = 0 THEN <<>> ELSE DropRound(results, n, g[n - 1])]

LEMMA DropIsLoop ==
    ASSUME NEW T, NEW results \in Seq(T)
    PROVE  \E f \in [0..Len(results) -> Seq(T)] :
             /\ f[0] = <<>>
             /\ \A i \in 1..Len(results) : f[i] = DropRound(results, i, f[i - 1])
             /\ DropRepeated(results) = f[Len(results)]
<1>1. PICK n, V : n = Len(results) /\ n \in Nat /\ V = Seq(T)  BY LenProperties
<1>2. \A i \in 1..n, v \in V : DropRound(results, i, v) \in V
  <2> TAKE i \in 1..n, v \in V
  <2>1. results[i] \in T  BY <1>1, ElementOfSeq
  <2>2. Append(v, results[i]) \in Seq(T)  BY <1>1, <2>1, AppendProperties
  <2> QED  BY <1>1, <2>2 DEF DropRound
<1>3. PICK step : step = [x \in (1..n) \X V |-> DropRound(results, x[1], x[2])]  OBVIOUS
<1>4. \A i \in 1..n, v \in V : step[<<i, v>>] = DropRound(results, i, v)  BY <1>3
<1>5. <<>> \in V  BY <1>1
<1>6. PICK f \in [0..n -> V] : f[0] = <<>> /\ \A i \in 1..n : f[i] = step[<<i, f[i - 1]>>]
  <2>1. StepsWithin(step, n, V)  BY <1>2, <1>4 DEF StepsWithin
  <2>2. PICK f \in [0..n -> V] : Iterates(f, n, <<>>, step)  BY <1>1, <1>5, <2>1, Recursion
  <2> QED  BY <2>2 DEF Iterates
<1>7. \A i \in 1..n : f[i] = DropRound(results, i, f[i - 1])
  <2> TAKE i \in 1..n
  <2>1. i - 1 \in 0..n  BY <1>1
  <2>2. f[i - 1] \in V  BY <2>1
  <2> QED  BY <1>4, <1>6, <2>2
<1>8. f = [i \in 0..n |-> IF i = 0 THEN <<>> ELSE DropRound(results, i, f[i - 1])]
  <2>1. \A i \in 0..n : f[i] = IF i = 0 THEN <<>> ELSE DropRound(results, i, f[i - 1])
    <3> TAKE i \in 0..n
    <3>1. CASE i = 0  BY <1>6, <3>1
    <3>2. CASE i # 0
      <4>1. i \in 1..n  BY <1>1, <3>2
      <4> QED  BY <1>7, <3>2, <4>1
    <3> QED  BY <3>1, <3>2
  <2> QED  BY <2>1
<1>9. PICK g : g = DropLoop(results)  OBVIOUS
<1>10. g = [i \in 0..n |-> IF i = 0 THEN <<>> ELSE DropRound(results, i, g[i - 1])]
  BY <1>1, <1>8, <1>9, Zenon DEF DropLoop
<1>11. g[0] = <<>> /\ \A i \in 1..n : g[i] = DropRound(results, i, g[i - 1])
  <2>1. PICK h : h = [i \in 0..n |-> IF i = 0 THEN <<>> ELSE DropRound(results, i, g[i - 1])]  OBVIOUS
  <2>2. g = h  BY <1>10, <2>1
  <2>3. h[0] = <<>> /\ \A i \in 1..n : h[i] = DropRound(results, i, g[i - 1])  BY <1>1, <2>1
  <2> QED  BY <2>2, <2>3
<1>12. \A i \in 1..n : f[i - 1] = g[i - 1] => f[i] = g[i]  BY <1>7, <1>11
<1>13. f[n] = g[n]
  <2>1. Alike(f, g, n)  BY <1>6, <1>11, <1>12 DEF Alike
  <2> QED  BY <1>1, <2>1, SameLoop
<1>14. DropRepeated(results) = g[n]  BY <1>1, <1>9 DEF DropRepeated, DropLoop, DropRound
<1> QED  BY <1>1, <1>6, <1>7, <1>13, <1>14

LEMMA DropTyped ==
    ASSUME NEW T, NEW results \in Seq(T)
    PROVE  DropRepeated(results) \in Seq(T)
<1>1. PICK n : n = Len(results) /\ n \in Nat  BY LenProperties
<1>2. PICK f : f \in [0..n -> Seq(T)] /\ DropRepeated(results) = f[n]  BY <1>1, DropIsLoop
<1> QED  BY <1>1, <1>2

Paired(results) == \E T : results \in Seq(T) /\ \A r \in T : r[1] \in drive

LEMMA PairedRange == ASSUME NEW results, Paired(results) PROVE \A r \in Range(results) : r[1] \in drive
<1>1. PICK T : results \in Seq(T) /\ \A r \in T : r[1] \in drive  BY DEF Paired
<1>2. \A i \in DOMAIN results : results[i] \in T
  <2>1. DOMAIN results = 1..Len(results)  BY <1>1, LenProperties
  <2> QED  BY <1>1, <2>1, ElementOfSeq
<1> QED  BY <1>1, <1>2 DEF Range

LEMMA PairedNothing == Paired(<<>>)
<1>1. PICK T : T = {}  OBVIOUS
<1>2. <<>> \in Seq(T)  OBVIOUS
<1>3. \A r \in T : r[1] \in drive  BY <1>1
<1> QED  BY <1>2, <1>3 DEF Paired

\* A resolved path is a result only if it is one file.
LEMMA HitPaired ==
    ASSUME Tree(drive), NEW path, NEW found, NEW results, Paired(results),
           found \subseteq drive \/ found = {RootFolder}, Cardinality(found) <= 1
    PROVE  Paired(Hit(path, found, results))
<1>1. CASE ~\E e \in found : ~e.folder  BY <1>1 DEF Hit
<1>2. CASE \E e \in found : ~e.folder
  <2>1. found \subseteq drive
    <3>1. RootFolder.folder = TRUE  BY DEF RootFolder
    <3> QED  BY <1>2, <3>1
  <2>2. PICK e : e = TheOne(found) /\ e \in found  BY <1>2, TheOneIs
  <2>3. PICK T : results \in Seq(T) /\ \A r \in T : r[1] \in drive  BY DEF Paired
  <2>4. PICK x : x = <<e, path>>  OBVIOUS
  <2>5. PICK U : U = T \cup {x}  OBVIOUS
  <2>6. results \in Seq(U) /\ x \in U  BY <2>3, <2>5
  <2>7. Append(results, x) \in Seq(U)  BY <2>6, AppendProperties
  <2>8. \A r \in U : r[1] \in drive  BY <2>1, <2>2, <2>3, <2>4, <2>5
  <2>9. Hit(path, found, results) = Append(results, x)  BY <1>2, <2>2, <2>4 DEF Hit
  <2> QED  BY <2>7, <2>8, <2>9 DEF Paired
<1> QED  BY <1>1, <1>2

LEMMA AppendPaired ==
    ASSUME NEW results, Paired(results), NEW hits, IsFiniteSet(hits), \A r \in hits : r[1] \in drive
    PROVE  Paired(AppendAll(results, hits))
<1>1. PICK T : results \in Seq(T) /\ \A r \in T : r[1] \in drive  BY DEF Paired
<1>2. PICK U : U = T \cup hits  OBVIOUS
<1>3. results \in Seq(U) /\ hits \subseteq U  BY <1>1, <1>2
<1>4. AppendAll(results, hits) \in Seq(U)  BY <1>3, AppendAllTyped
<1>5. \A r \in U : r[1] \in drive  BY <1>1, <1>2
<1> QED  BY <1>4, <1>5 DEF Paired

LEMMA DropPaired == ASSUME NEW results, Paired(results) PROVE Paired(DropRepeated(results))
<1>1. PICK T : results \in Seq(T) /\ \A r \in T : r[1] \in drive  BY DEF Paired
<1>2. DropRepeated(results) \in Seq(T)  BY <1>1, DropTyped
<1> QED  BY <1>1, <1>2 DEF Paired

LEMMA IdGoesOn ==
    ASSUME NEW C, "/" \in C, NEW a \in Seq(C), NEW b \in Seq(C), StartsWithId(a)
    PROVE  StartsWithId(JoinGDrivePath(a, b))
<1>1. a # <<>>  BY DEF StartsWithId
<1>2. JoinGDrivePath(a, b) = a \o (<<"/">> \o b)
  <2>1. JoinGDrivePath(a, b) = (a \o <<"/">>) \o b  BY <1>1 DEF JoinGDrivePath
  <2>2. PICK z : z = <<"/">> /\ z \in Seq(C)
    <3>1. <<"/">> \in Seq(C)  OBVIOUS
    <3> QED  BY <3>1
  <2>3. (a \o z) \o b = a \o (z \o b)  BY <2>2, ConcatAssociative, SMTT(60)
  <2> QED  BY <2>1, <2>2, <2>3
<1>3. PICK w : w = <<"/">> \o b /\ w \in Seq(C)
  <2>1. <<"/">> \in Seq(C)  OBVIOUS
  <2> QED  BY <2>1, ConcatProperties
<1>4. StartsWithId(a \o w)  BY <1>3, StartOfJoin
<1> QED  BY <1>2, <1>3, <1>4

LEMMA LongEnough ==
    ASSUME NEW T, NEW S \in Seq(T), S # <<>>, NEW R \in Seq(T), Len(R) >= 1
    PROVE  Len(S \o R) >= 2
<1>1. Len(S \o R) = Len(S) + Len(R) /\ Len(S) \in Nat /\ Len(R) \in Nat /\ Len(S) # 0
  BY ConcatProperties, LenProperties, EmptySeq
<1> QED  BY <1>1

\* The keys of what a folder's listing caches.
LEMMA ListKnows ==
    ASSUME Tree(drive), "/" \in Chars, NEW L \in Seq(Chars), NEW u, u = ParseGDriveUri(L), u # Rejected,
           NEW r, Resolves(u, r), Cardinality(r.found) = 1,
           NEW recursive, NEW listing, listing = ListFolder(TheOne(r.found).id, recursive),
           NEW x \in Unambiguous(listing)
    PROVE  /\ JoinGDrivePath(L, x[1]) \in Seq(Chars) /\ x[2] \in drive
           /\ Known(drive, JoinGDrivePath(L, x[1]), x[2])
<1>1. PICK d, S : d = TheOne(r.found) /\ S = SplitSegments(L) /\ S \in Seq(Names(Chars))
  BY SplitMakesNames
<1>2. x \in listing  BY DEF Unambiguous, UnambiguousItself
<1>3. x \in Seq(Chars) \X drive
  <2>1. listing \in Listings  BY ListingFinite
  <2> QED  BY <1>2, <2>1 DEF Listings
<1>4. x = <<x[1], x[2]>> /\ x[2] \in drive  BY <1>3
<1>5. PICK k \in 0..Cardinality(drive) : Deep(k, recursive) /\ x \in Level(d.id)[k]
  BY <1>1, <1>2, ListedSomewhere
<1>6. Listed(S, d, k, x)  BY <1>1, <1>5, ListedAll
<1>7. PICK R \in Seq(Names(Chars)) : Len(R) = k + 1 /\ JoinSegments(R) = x[1]
                                     /\ (Alone(drive, S, d) => x[2] \in Reach(drive, S \o R))
  BY <1>6 DEF Listed
<1>8. PICK key : key = JoinGDrivePath(L, x[1]) /\ key \in Seq(Chars)
                 /\ SplitSegments(key) = S \o R
  <2>1. /\ JoinGDrivePath(L, JoinSegments(R)) \in Seq(Chars)
        /\ SplitSegments(JoinGDrivePath(L, JoinSegments(R))) = SplitSegments(L) \o R
    BY ListedKey
  <2> QED  BY <1>1, <1>7, <2>1
<1>9. CASE u.kind = "PATH"
  <2>1. u.segments = S  BY <1>1, <1>9, ParsedIs
  <2>2. Alone(drive, S, d)  BY <1>1, <1>9, <2>1 DEF Resolves
  <2>3. Alone(drive, S \o R, x[2])  BY <1>1, <1>4, <1>5, <1>7, <2>2, ListedAlone
  <2>4. Known(drive, key, x[2])  BY <1>8, <2>3 DEF Known
  <2> QED  BY <1>4, <1>8, <2>4
<1>10. CASE u.kind = "FILE_ID"
  <2>1. StartsWithId(L)  BY <1>10, ParsedIs
  <2>2. x[1] \in Seq(Chars)  BY <1>3
  <2>3. StartsWithId(key)  BY <1>8, <2>1, <2>2, IdGoesOn
  <2>4. S # <<>>  BY <1>1, <2>1, SplitKeepsId
  <2>5. Len(R) >= 1
    <3>1. Cardinality(drive) \in Nat  BY TreeIs, FS_CardinalityType
    <3>2. k \in Nat  BY <3>1
    <3> QED  BY <1>7, <3>2
  <2>6. Len(SplitSegments(key)) >= 2
    <3>1. PICK T : T = Names(Chars)  OBVIOUS
    <3>2. S \in Seq(T) /\ R \in Seq(T)  BY <1>1, <3>1
    <3>3. Len(S \o R) >= 2  BY <2>4, <2>5, <3>2, LongEnough
    <3> QED  BY <1>8, <3>3
  <2>7. Known(drive, key, x[2])  BY <2>3, <2>6 DEF Known
  <2> QED  BY <1>4, <1>8, <2>7
<1> QED  BY <1>9, <1>10, ParsedIs

\* The whole cache after a listing.
LEMMA ListCaches ==
    ASSUME Tree(drive), "/" \in Chars, NEW L \in Seq(Chars), NEW u, u = ParseGDriveUri(L), u # Rejected,
           NEW r, Resolves(u, r), ~Throws(r.found), NEW recursive,
           NEW listing, listing = IF r.found = {} THEN {}
                                  ELSE ListFolder(TheOne(r.found).id, recursive)
    PROVE  CacheKnown(drive, r.cache \cup {<<JoinGDrivePath(L, x[1]), x[2]>> : x \in Unambiguous(listing)})
<1>1. CacheKnown(drive, r.cache)  BY DEF Resolves
<1>2. ASSUME NEW x \in Unambiguous(listing)
      PROVE  /\ JoinGDrivePath(L, x[1]) \in Seq(Chars) /\ x[2] \in drive
             /\ Known(drive, JoinGDrivePath(L, x[1]), x[2])
  <2>1. x \in listing  BY DEF Unambiguous, UnambiguousItself
  <2>2. r.found # {} /\ listing = ListFolder(TheOne(r.found).id, recursive)  BY <2>1
  <2>3. Cardinality(r.found) = 1
    <3>1. r.found \subseteq drive \cup {RootFolder}  BY DEF Resolves
    <3>2. IsFiniteSet(r.found)  BY <3>1, FoundFinite
    <3>3. Cardinality(r.found) \in Nat /\ Cardinality(r.found) # 0
      BY <2>2, <3>2, FS_CardinalityType, FS_EmptySet
    <3> QED  BY <3>3 DEF Throws
  <2> QED  BY <2>2, <2>3, ListKnows
<1>3. PICK new : new = {<<JoinGDrivePath(L, x[1]), x[2]>> : x \in Unambiguous(listing)}  OBVIOUS
<1>4. \A y \in new : y \in Seq(Chars) \X drive /\ Known(drive, y[1], y[2])
  <2> TAKE y \in new
  <2>1. PICK x \in Unambiguous(listing) : y = <<JoinGDrivePath(L, x[1]), x[2]>>  BY <1>3
  <2>2. y[1] = JoinGDrivePath(L, x[1]) /\ y[2] = x[2]  BY <2>1
  <2> QED  BY <1>2, <2>1, <2>2
<1>5. CacheKnown(drive, r.cache \cup new)  BY <1>1, <1>4 DEF CacheKnown
<1> QED  BY <1>3, <1>5

\* What the cache knows is what CachedNamesOne says of it.
LEMMA KnownNamesOne ==
    ASSUME Tree(drive), "/" \in Chars, NEW k \in Seq(Chars), NEW e, Known(drive, k, e)
    PROVE  /\ e \in Denotes(k) \/ StartsWithId(k)
           /\ \A f \in Denotes(k) \ {e} : e.folder /\ ~f.folder
           /\ ~BelowSharedFolder(k)
<1>1. PICK S, l : S = SplitSegments(k) /\ S \in Seq(Names(Chars)) /\ l = Len(S) /\ l \in Nat
  BY SplitMakesNames, LenProperties
<1>2. Denotes(k) = Reach(drive, S)  BY <1>1, PlacesAre DEF Denotes, Reach
<1>3. Places(SplitSegments(k)) = PlacesIn(drive, S)  BY <1>1, PlacesAre
<1>4. CASE Alone(drive, S, e)
  <2>1. e \in Reach(drive, S)  BY <1>4 DEF Alone
  <2>2. \A f \in Reach(drive, S) \ {e} : e.folder /\ ~f.folder
    <3> TAKE f \in Reach(drive, S) \ {e}
    <3>1. (e.folder = TRUE) /\ ~(f.folder = TRUE)  BY <1>4 DEF Alone
    <3>2. f.folder \in BOOLEAN
      <4>1. Len(S) \in 0..Len(S)  BY <1>1
      <4>2. f \in drive \cup {RootFolder}  BY <1>1, <4>1, ReachWithin DEF Reach
      <4>3. RootFolder.folder = TRUE  BY DEF RootFolder
      <4>4. \A g \in drive : g.folder \in BOOLEAN  BY TreeIs
      <4>5. CASE f \in drive  BY <4>4, <4>5
      <4>6. CASE f = RootFolder  BY <4>3, <4>6
      <4> QED  BY <4>2, <4>5, <4>6
    <3> QED  BY <3>1, <3>2
  <2>3. ~BelowSharedFolder(k)
    <3>1. SUFFICES ASSUME BelowSharedFolder(k) PROVE FALSE  OBVIOUS
    <3>2. PICK n \in 1..(Len(S) - 1) : \E y, z \in PlacesIn(drive, S)[n] : y # z /\ y.folder /\ z.folder
      BY <1>1, <1>3, <3>1 DEF BelowSharedFolder
    <3>3. OneFolder(drive, S, n)  BY <1>4 DEF Alone
    <3> QED  BY <3>2, <3>3 DEF OneFolder
  <2> QED  BY <1>2, <2>1, <2>2, <2>3
<1>5. CASE StartsWithId(k) /\ Len(S) >= 2
  <2>1. S # <<>> /\ StartsWithId(S[1])  BY <1>1, <1>5, SplitKeepsId
  <2>2. \A n \in 1..Len(S) : PlacesIn(drive, S)[n] = {}  BY <1>1, <2>1, IdLeadsNowhere
  <2>3. Len(S) \in 1..Len(S)  BY <1>1, <1>5
  <2>4. Reach(drive, S) = {}  BY <2>2, <2>3 DEF Reach
  <2>5. ~BelowSharedFolder(k)
    <3>1. SUFFICES ASSUME BelowSharedFolder(k) PROVE FALSE  OBVIOUS
    <3>2. PICK n \in 1..(Len(S) - 1) : \E y, z \in PlacesIn(drive, S)[n] : y # z /\ y.folder /\ z.folder
      BY <1>1, <1>3, <3>1 DEF BelowSharedFolder
    <3>3. n \in 1..Len(S)  BY <1>1
    <3> QED  BY <2>2, <3>2, <3>3
  <2> QED  BY <1>2, <1>5, <2>4, <2>5
<1> QED  BY <1>1, <1>4, <1>5 DEF Known

Placed(m) == m.pidx \in 1..(Len(m.pattern) + 1) /\ m.sidx \in 1..(Len(m.name) + 1)
Idle(m) ==
    /\ m.result = "idle" /\ m.rounds = 0 /\ m.pidx = 1 /\ m.sidx = 1
    /\ m.pattern = <<>> /\ m.name = <<>>
MatchInv(m) == Idle(m) \/ (Sound(m) /\ Placed(m))

(***************************************************************************)
(* The invariant of Glob: what is cached is known, not only named, to be   *)
(* the one entry its path leads to (or its path begins with an id), so     *)
(* that the next resolution may start from it.                             *)
(***************************************************************************)
Counters == {"idle", "called", "expanded", "done", "failed"}
IInv ==
    /\ MatchInv(match)
    /\ pc \in Counters
    /\ pc = "expanded" => parsed.kind = "PATH"
    /\ Tree(drive)
    /\ glob \in Globs \cup Texts \cup {<<>>}
    /\ todo \in Seq(Seq(Chars))
    /\ CacheKnown(drive, cache)
    /\ Paired(result)

LEMMA SegmentBegins == ASSUME SegmentAssumption, InitMatch PROVE Sound(match) /\ Placed(match)
<1>1. PICK p \in Patterns, s \in Strings : match = Matching(p, s)  BY DEF InitMatch
<1>2. p \in Seq(Chars) /\ s \in Seq(Chars)  BY DEF SegmentAssumption, Chars
<1>3. /\ match \in Matches /\ match.pattern = p /\ match.name = s /\ match.pidx = 1
      /\ match.sidx = 1 /\ match.star_pidx = 0 /\ match.star_sidx = 0
      /\ match.rounds = 0 /\ match.result = "none"
  BY <1>1, <1>2 DEF Matching, Matches
<1>4. Underway(p, s, 1, 1, 0, 0, 0)  BY <1>2, Begins
<1>5. Len(p) \in Nat /\ Len(s) \in Nat  BY <1>2, LenProperties
<1>6. 0 <= (Len(p) + 1) * (Len(s) + 1)
  <2>1. \A x, y \in Nat : (x + 1) * (y + 1) \in Nat  OBVIOUS
  <2>2. (Len(p) + 1) * (Len(s) + 1) \in Nat  BY <1>5, <2>1
  <2> QED  BY <2>2
<1>7. Sound(match)  BY <1>3, <1>4, <1>6 DEF Sound, Going, Bounded
<1>8. Placed(match)  BY <1>3, <1>5 DEF Placed
<1> QED  BY <1>7, <1>8

\* A round that returns leaves the positions where they are.
LEMMA RoundPlaced ==
    ASSUME SegmentAssumption, NEW m, Sound(m), Placed(m), m.result = "none"
    PROVE  Sound(Round(m)) /\ Placed(Round(m))
<1>1. PICK w : w = Round(m)  OBVIOUS
<1>2. Sound(w)  BY <1>1, RoundSound
<1>3. m \in Matches  BY DEF Sound
<1>4. CASE w.result = "none"
  <2>1. Underway(w.pattern, w.name, w.pidx, w.sidx, w.star_pidx, w.star_sidx, w.rounds)
    BY <1>2, <1>4 DEF Sound, Going
  <2>2. Placed(w)  BY <2>1 DEF Underway, Placed
  <2> QED  BY <1>1, <1>2, <2>2
<1>5. CASE w.result # "none"
  <2>1. PICK u : u = Advance(m)  OBVIOUS
  <2>2. w = [u EXCEPT !.rounds = @ + 1]  BY <1>1, <2>1 DEF Round
  <2>3. (\E v \in BOOLEAN : u = Done(m, v)) \/ (u \in Matches /\ u.result = "none")
    <3>1. CASE ~Has(m.name, m.sidx)
      <4>1. u = Done(m, AfterStars(m.pattern, m.pidx) > Len(m.pattern))  BY <2>1, <3>1 DEF Advance
      <4>2. CASE AfterStars(m.pattern, m.pidx) > Len(m.pattern)
        <5>1. u = Done(m, TRUE)  BY <4>1, <4>2 DEF Done
        <5> QED  BY <5>1
      <4>3. CASE ~(AfterStars(m.pattern, m.pidx) > Len(m.pattern))
        <5>1. u = Done(m, FALSE)  BY <4>1, <4>3 DEF Done
        <5> QED  BY <5>1
      <4> QED  BY <4>2, <4>3
    <3>2. CASE Has(m.name, m.sidx) /\ Has(m.pattern, m.pidx) /\ m.pattern[m.pidx] = "*"
      <4>1. CASE AfterStars(m.pattern, m.pidx) > Len(m.pattern)
        <5>1. u = Done(m, TRUE)  BY <2>1, <3>2, <4>1 DEF Advance
        <5> QED  BY <5>1
      <4>2. CASE ~(AfterStars(m.pattern, m.pidx) > Len(m.pattern))
        <5>1. u = [m EXCEPT !.pidx = AfterStars(m.pattern, m.pidx),
                            !.star_pidx = AfterStars(m.pattern, m.pidx), !.star_sidx = m.sidx]
          BY <2>1, <3>2, <4>2 DEF Advance
        <5>2. u.result = "none"  BY <1>3, <5>1 DEF Matches
        <5>3. w.result = "none"  BY <1>3, <2>2, <5>1, <5>2 DEF Matches
        <5> QED  BY <1>5, <5>3
      <4> QED  BY <4>1, <4>2
    <3>3. CASE Has(m.name, m.sidx) /\ ~(Has(m.pattern, m.pidx) /\ m.pattern[m.pidx] = "*")
      <4>1. PICK ok, next : ok = Against(m.pattern, m.pidx, m.name[m.sidx]).ok
                            /\ next = Against(m.pattern, m.pidx, m.name[m.sidx]).next
        OBVIOUS
      <4>2. CASE Has(m.pattern, m.pidx) /\ ok
        <5>1. u = [m EXCEPT !.sidx = @ + 1, !.pidx = next]
          BY <2>1, <3>3, <4>1, <4>2 DEF Advance
        <5>2. w.result = "none"  BY <1>3, <2>2, <5>1 DEF Matches
        <5> QED  BY <1>5, <5>2
      <4>3. CASE ~(Has(m.pattern, m.pidx) /\ ok) /\ m.star_pidx = 0
        <5>1. u = Done(m, FALSE)  BY <2>1, <3>3, <4>1, <4>3 DEF Advance
        <5> QED  BY <5>1
      <4>4. CASE ~(Has(m.pattern, m.pidx) /\ ok) /\ m.star_pidx # 0
        <5>1. u = Backtrack(m)  BY <2>1, <3>3, <4>1, <4>4 DEF Advance
        <5>2. w.result = "none"  BY <1>3, <2>2, <5>1 DEF Backtrack, Matches
        <5> QED  BY <1>5, <5>2
      <4> QED  BY <4>2, <4>3, <4>4
    <3> QED  BY <3>1, <3>2, <3>3
  <2>4. CASE \E v \in BOOLEAN : u = Done(m, v)
    <3>1. /\ w.pattern = m.pattern /\ w.name = m.name /\ w.pidx = m.pidx /\ w.sidx = m.sidx
      BY <1>3, <2>2, <2>4 DEF Done, Matches
    <3> QED  BY <1>1, <1>2, <3>1 DEF Placed
  <2>5. CASE u \in Matches /\ u.result = "none"
    <3>1. w.result = "none"  BY <2>2, <2>5 DEF Matches
    <3> QED  BY <1>5, <3>1
  <2> QED  BY <2>3, <2>4, <2>5
<1> QED  BY <1>4, <1>5

LEMMA Carries ==
    ASSUME IInv, drive' = drive, glob' = glob, MatchInv(match'), pc' \in Counters,
           pc' = "expanded" => parsed.kind = "PATH",
           todo' \in Seq(Seq(Chars)), CacheKnown(drive, cache'), Paired(result')
    PROVE  IInv'
<1>1. parsed' = parsed  BY DEF parsed
<1>2. Paired(result)'  BY DEF Paired
<1>3. CacheKnown(drive, cache)'  BY DEF CacheKnown, Known
<1>4. Tree(drive)'  BY DEF IInv, Tree, Holds
<1>5. MatchInv(match)'
  BY DEF MatchInv, Idle, Placed, Sound, Going, Exact, Bounded
<1>6. glob' \in Globs \cup Texts \cup {<<>>}  BY DEF IInv
<1> QED  BY <1>1, <1>2, <1>3, <1>4, <1>5, <1>6 DEF IInv

LEMMA GlobTyped ==
    ASSUME GlobAssumption, IInv
    PROVE  glob \in Seq(Chars) /\ "/" \in Chars /\ "id:" \in Chars
<1>1. Texts \cup Globs \subseteq Seq(Chars) /\ {"/", "id:"} \subseteq Chars
  BY DEF GlobAssumption, Chars
<1>2. <<>> \in Seq(Chars)  OBVIOUS
<1> QED  BY <1>1, <1>2 DEF IInv

LEMMA Begun == ASSUME SegmentAssumption, GlobAssumption, Init PROVE IInv
<1>1. todo \in Seq(Seq(Chars))
  <2>1. PICK T : T = Seq(Chars)  OBVIOUS
  <2>2. <<>> \in Seq(T)  OBVIOUS
  <2> QED  BY <2>1, <2>2 DEF Init
<1>2. CacheKnown(drive, cache)  BY DEF Init, CacheKnown
<1>3. Paired(result)  BY PairedNothing DEF Init
<1>4. MatchInv(match)
  <2>1. CASE InitSegment  BY <2>1, SegmentBegins DEF InitSegment, MatchInv
  <2>2. CASE InitText \/ InitGlob
    <3>1. match = [Matching(<<>>, <<>>) EXCEPT !.result = "idle"]  BY <2>2 DEF InitText, InitGlob
    <3> QED  BY <3>1 DEF Matching, MatchInv, Idle
  <2> QED  BY <2>1, <2>2 DEF Init
<1>5. Tree(drive)
  <2>1. CASE drive = {}  BY <2>1 DEF Tree, Holds
  <2>2. CASE InitGlob  BY <2>2 DEF InitGlob, Tree
  <2> QED  BY <2>1, <2>2 DEF Init, InitSegment, InitText
<1>6. pc \in Counters /\ pc # "expanded"  BY DEF Init, InitSegment, InitText, InitGlob, Counters
<1>7. glob \in Globs \cup Texts \cup {<<>>}  BY DEF Init, InitSegment, InitText, InitGlob
<1> QED  BY <1>1, <1>2, <1>3, <1>4, <1>5, <1>6, <1>7 DEF IInv

LEMMA AfterRound == ASSUME SegmentAssumption, IInv, RoundOfSegment PROVE IInv'
<1>1. match.result = "none" /\ match' = Round(match)  BY DEF RoundOfSegment, MatchRound
<1>2. Sound(match) /\ Placed(match)  BY <1>1 DEF IInv, MatchInv, Idle
<1>3. MatchInv(match')  BY <1>1, <1>2, RoundPlaced DEF MatchInv
<1>4. UNCHANGED <<drive, glob, pc, todo, cache, result>>  BY DEF RoundOfSegment
<1> QED  BY <1>3, <1>4, Carries DEF IInv

LEMMA AfterRefuse == ASSUME IInv, Refuse PROVE IInv'
<1>1. UNCHANGED <<match, drive, glob, todo, cache, result>> /\ pc' \in {"done", "failed"}
  BY DEF Refuse
<1>2. pc' \in Counters /\ pc' # "expanded"  BY <1>1 DEF Counters
<1> QED  BY <1>1, <1>2, Carries DEF IInv

\* A path that does not throw has at most one entry.
LEMMA OneAtMost ==
    ASSUME Tree(drive), NEW u, NEW r, Resolves(u, r), ~Throws(r.found)
    PROVE  Cardinality(r.found) <= 1
<1>1. r.found \subseteq drive \cup {RootFolder}  BY DEF Resolves
<1>2. IsFiniteSet(r.found)  BY <1>1, FoundFinite
<1>3. Cardinality(r.found) \in Nat  BY <1>2, FS_CardinalityType
<1> QED  BY <1>3 DEF Throws

LEMMA AfterLiteral == ASSUME GlobAssumption, IInv, GlobLiteral PROVE IInv'
<1>1. glob \in Seq(Chars) /\ "/" \in Chars  BY GlobTyped
<1>2. PICK u : u = parsed  OBVIOUS
<1>3. PICK r : r = TryResolvePath(u)  OBVIOUS
<1>4. u # Rejected /\ u = ParseGDriveUri(glob)  BY <1>2 DEF GlobLiteral, parsed
<1>5. Tree(drive) /\ CacheKnown(drive, cache) /\ Paired(result)  BY DEF IInv
<1>6. Resolves(u, r)  BY <1>1, <1>3, <1>4, <1>5, Resolution
<1>7. cache' = r.cache /\ UNCHANGED <<match, drive, glob>>  BY <1>2, <1>3 DEF GlobLiteral
<1>8. CacheKnown(drive, cache')  BY <1>6, <1>7 DEF Resolves
<1>9. CASE Throws(r.found)
  <2>1. pc' = "failed" /\ UNCHANGED <<todo, result>>  BY <1>2, <1>3, <1>9 DEF GlobLiteral, Fail
  <2>2. pc' \in Counters /\ pc' # "expanded"  BY <2>1 DEF Counters
  <2> QED  BY <1>7, <1>8, <2>1, <2>2, Carries DEF IInv
<1>10. CASE ~Throws(r.found)
  <2>1. pc' = "done" /\ result' = Hit(glob, r.found, <<>>) /\ UNCHANGED todo
    BY <1>2, <1>3, <1>10 DEF GlobLiteral
  <2>2. pc' \in Counters /\ pc' # "expanded"  BY <2>1 DEF Counters
  <2>3. Cardinality(r.found) <= 1  BY <1>5, <1>6, <1>10, OneAtMost
  <2>4. r.found \subseteq drive \/ r.found = {RootFolder}  BY <1>6 DEF Resolves
  <2>5. Paired(Hit(glob, r.found, <<>>))  BY <1>5, <2>3, <2>4, HitPaired, PairedNothing
  <2>6. Paired(result')  BY <2>1, <2>5
  <2> QED  BY <1>7, <1>8, <2>1, <2>2, <2>6, Carries DEF IInv
<1> QED  BY <1>9, <1>10

LEMMA AfterExpand == ASSUME GlobAssumption, IInv, Expand PROVE IInv'
<1>1. glob \in Seq(Chars)  BY GlobTyped
<1>2. PICK x : x = ExpandBraces(glob) /\ x \in Seq(Seq(Chars))  BY <1>1, ExpandTyped
<1>3. UNCHANGED <<match, drive, glob, cache>> /\ parsed.kind = "PATH"  BY DEF Expand
<1>4. CASE x = <<>>
  <2>1. pc' = "failed" /\ UNCHANGED <<todo, result>>  BY <1>2, <1>4 DEF Expand, Fail
  <2>2. pc' \in Counters /\ pc' # "expanded"  BY <2>1 DEF Counters
  <2> QED  BY <1>3, <2>1, <2>2, Carries DEF IInv
<1>5. CASE x # <<>>
  <2>1. pc' = "expanded" /\ todo' = x /\ UNCHANGED result  BY <1>2, <1>5 DEF Expand
  <2>2. pc' \in Counters  BY <2>1 DEF Counters
  <2> QED  BY <1>2, <1>3, <2>1, <2>2, Carries DEF IInv
<1> QED  BY <1>4, <1>5

LEMMA HeadAndTail ==
    ASSUME IInv, todo # <<>>
    PROVE  Head(todo) \in Seq(Chars) /\ Tail(todo) \in Seq(Seq(Chars))
<1>1. PICK T : T = Seq(Chars)  OBVIOUS
<1>2. todo \in Seq(T)  BY <1>1 DEF IInv
<1>3. Head(todo) \in T /\ Tail(todo) \in Seq(T)  BY <1>2, HeadTailProperties
<1> QED  BY <1>1, <1>3

LEMMA AfterExpandedLiteral == ASSUME GlobAssumption, IInv, ExpandedLiteral PROVE IInv'
<1>1. glob \in Seq(Chars) /\ "/" \in Chars  BY GlobTyped
<1>2. todo # <<>> /\ UNCHANGED <<match, drive, glob>> /\ pc = "expanded"  BY DEF ExpandedLiteral
<1>3. PICK t : t = Head(todo) /\ t \in Seq(Chars)  BY <1>2, HeadAndTail
<1>4. Tail(todo) \in Seq(Seq(Chars))  BY <1>2, HeadAndTail
<1>5. PICK u : u = ParseGDriveUri(t)  OBVIOUS
<1>6. PICK r : r = IF u = Rejected THEN [found |-> {}, cache |-> cache] ELSE TryResolvePath(u)
  OBVIOUS
<1>7. Tree(drive) /\ CacheKnown(drive, cache) /\ Paired(result)  BY DEF IInv
<1>8. /\ CacheKnown(drive, r.cache) /\ (r.found \subseteq drive \/ r.found = {RootFolder})
      /\ ~Throws(r.found) => Cardinality(r.found) <= 1
  <2>1. CASE u = Rejected
    <3>1. r = [found |-> {}, cache |-> cache]  BY <1>6, <2>1
    <3>2. r.found = {} /\ r.cache = cache  BY <3>1
    <3>3. Cardinality({}) = 0  BY FS_EmptySet
    <3> QED  BY <1>7, <3>2, <3>3
  <2>2. CASE u # Rejected
    <3>1. Resolves(u, r)  BY <1>1, <1>3, <1>5, <1>6, <1>7, <2>2, Resolution
    <3>2. ~Throws(r.found) => Cardinality(r.found) <= 1  BY <1>7, <3>1, OneAtMost
    <3> QED  BY <3>1, <3>2 DEF Resolves
  <2> QED  BY <2>1, <2>2
<1>9. cache' = r.cache  BY <1>3, <1>5, <1>6 DEF ExpandedLiteral
<1>10. CASE Throws(r.found)
  <2>1. pc' = "failed" /\ UNCHANGED <<todo, result>>  BY <1>3, <1>5, <1>6, <1>10 DEF ExpandedLiteral, Fail
  <2>2. pc' \in Counters /\ pc' # "expanded"  BY <2>1 DEF Counters
  <2> QED  BY <1>2, <1>8, <1>9, <2>1, <2>2, Carries DEF IInv
<1>11. CASE ~Throws(r.found)
  <2>1. result' = Hit(t, r.found, result) /\ todo' = Tail(todo) /\ UNCHANGED pc
    BY <1>3, <1>5, <1>6, <1>11 DEF ExpandedLiteral
  <2>2. Paired(Hit(t, r.found, result))  BY <1>7, <1>8, <1>11, HitPaired
  <2>3. Paired(result')  BY <2>1, <2>2
  <2> QED  BY <1>2, <1>4, <1>8, <1>9, <2>1, <2>3, Carries DEF IInv
<1> QED  BY <1>10, <1>11

LEMMA AfterList == ASSUME GlobAssumption, IInv, List PROVE IInv'
<1>1. glob \in Seq(Chars) /\ "/" \in Chars  BY GlobTyped
<1>2. todo # <<>> /\ UNCHANGED <<match, drive, glob>> /\ pc = "expanded"  BY DEF List
<1>3. PICK t : t = Head(todo) /\ t \in Seq(Chars)  BY <1>2, HeadAndTail
<1>4. Tail(todo) \in Seq(Seq(Chars))  BY <1>2, HeadAndTail
<1>5. PICK L, deep : L = SplitGlob(t).literal_prefix /\ deep = SplitGlob(t).recursive /\ L \in Seq(Chars)
  BY <1>1, <1>3, PrefixTyped
<1>6. PICK u : u = ParseGDriveUri(L)  OBVIOUS
<1>7. PICK r : r = IF u = Rejected THEN [found |-> {}, cache |-> cache] ELSE TryResolvePath(u)
  OBVIOUS
<1>8. PICK listing : listing = IF r.found = {} THEN {} ELSE ListFolder(TheOne(r.found).id, deep)
  OBVIOUS
<1>9. Tree(drive) /\ CacheKnown(drive, cache) /\ Paired(result)  BY DEF IInv
<1>10. CASE u = Rejected \/ Throws(r.found)
  <2>1. Fail /\ cache' = r.cache
    BY <1>3, <1>5, <1>6, <1>7, <1>10 DEF List
  <2>2. CacheKnown(drive, r.cache)
    <3>1. CASE u = Rejected
      <4>1. r = [found |-> {}, cache |-> cache]  BY <1>7, <3>1
      <4>2. r.cache = cache  BY <4>1
      <4> QED  BY <1>9, <4>2
    <3>2. CASE u # Rejected
      <4>1. Resolves(u, r)  BY <1>1, <1>5, <1>6, <1>7, <1>9, <3>2, Resolution
      <4> QED  BY <4>1 DEF Resolves
    <3> QED  BY <3>1, <3>2
  <2>3. pc' = "failed" /\ UNCHANGED <<todo, result>>  BY <2>1 DEF Fail
  <2>4. pc' \in Counters /\ pc' # "expanded"  BY <2>3 DEF Counters
  <2>5. CacheKnown(drive, cache')  BY <2>1, <2>2
  <2> QED  BY <1>2, <2>3, <2>4, <2>5, Carries DEF IInv
<1>11. CASE ~(u = Rejected \/ Throws(r.found))
  <2>1. Resolves(u, r)  BY <1>1, <1>5, <1>6, <1>7, <1>9, <1>11, Resolution
  <2>2. PICK new : new = {<<JoinGDrivePath(L, x[1]), x[2]>> : x \in Unambiguous(listing)}  OBVIOUS
  <2>3. CacheKnown(drive, r.cache \cup new)
    BY <1>1, <1>5, <1>6, <1>8, <1>9, <1>11, <2>1, <2>2, ListCaches
  <2> DEFINE FullPath(x) == JoinGDrivePath(L, x[1])
             hits == {x \in listing : MatchPath(t, FullPath(x)) /\ ~x[2].folder}
             Parent(x) == JoinSegments(Front(SplitOnSlash(FullPath(x))))
             Named(x) == <<x[2], DisambiguatePath(Parent(x), x[2].name, x[2].id,
                                                  \E y \in listing \ {x} : y[1] = x[1])>>
             named == {Named(x) : x \in hits}
  <2>4. /\ cache' = r.cache \cup new /\ result' = AppendAll(result, named)
        /\ todo' = Tail(todo) /\ UNCHANGED pc
    BY <1>3, <1>5, <1>6, <1>7, <1>8, <1>11, <2>2, Zenon DEF List
  <2>5. listing \in Listings /\ IsFiniteSet(listing)
    <3>1. CASE r.found = {}
      <4>1. listing = {}  BY <1>8, <3>1
      <4> QED  BY <4>1, FS_EmptySet DEF Listings
    <3>2. CASE r.found # {}
      <4>1. listing = ListFolder(TheOne(r.found).id, deep)  BY <1>8, <3>2
      <4> QED  BY <1>1, <1>9, <4>1, ListingFinite
    <3> QED  BY <3>1, <3>2
  <2>6. IsFiniteSet(named)
    <3>1. hits \in SUBSET listing  OBVIOUS
    <3>2. IsFiniteSet(hits)  BY <2>5, <3>1, FS_Subset
    <3>3. PICK H, f : H = hits /\ f = [x \in H |-> Named(x)]  OBVIOUS
    <3>4. DOMAIN f = H /\ f = [x \in H |-> f[x]] /\ IsFiniteSet(H)  BY <3>2, <3>3
    <3>5. IsFiniteSet({f[x] : x \in H})  BY <3>4, ImageFinite
    <3>6. {f[x] : x \in H} = named  BY <3>3
    <3> QED  BY <3>5, <3>6
  <2>7. \A y \in named : y[1] \in drive
    <3> TAKE y \in named
    <3>1. PICK x \in listing : y = Named(x)  OBVIOUS
    <3>2. y[1] = x[2]  BY <3>1
    <3>3. x[2] \in drive  BY <2>5 DEF Listings
    <3> QED  BY <3>2, <3>3
  <2> HIDE DEF named
  <2>8. Paired(AppendAll(result, named))  BY <1>9, <2>6, <2>7, AppendPaired
  <2>9. Paired(result') /\ CacheKnown(drive, cache')  BY <2>3, <2>4, <2>8
  <2> QED  BY <1>2, <1>4, <2>4, <2>9, Carries DEF IInv
<1> QED  BY <1>10, <1>11

LEMMA AfterFinish == ASSUME GlobAssumption, IInv, Finish PROVE IInv'
<1>1. glob \in Seq(Chars) /\ "/" \in Chars  BY GlobTyped
<1>2. todo = <<>> /\ UNCHANGED <<match, drive, glob>> /\ pc = "expanded"  BY DEF Finish
<1>3. PICK u : u = parsed  OBVIOUS
<1>4. u.kind = "PATH" /\ u = ParseGDriveUri(glob)  BY <1>2, <1>3 DEF IInv, parsed
<1>5. u # Rejected  BY <1>4 DEF Rejected
<1>6. PICK r : r = TryResolvePath(u)  OBVIOUS
<1>7. Tree(drive) /\ CacheKnown(drive, cache) /\ Paired(result)  BY DEF IInv
<1>8. Resolves(u, r)  BY <1>1, <1>4, <1>5, <1>6, <1>7, Resolution
<1>9. PICK x : x = DropRepeated(result)  OBVIOUS
<1>10. CASE x # <<>>
  <2>1. pc' = "done" /\ result' = x /\ UNCHANGED <<todo, cache>>  BY <1>9, <1>10 DEF Finish
  <2>2. pc' \in Counters /\ pc' # "expanded"  BY <2>1 DEF Counters
  <2>3. Paired(x)  BY <1>7, <1>9, DropPaired
  <2>4. Paired(result')  BY <2>1, <2>3
  <2> QED  BY <1>2, <2>1, <2>2, <2>4, Carries DEF IInv
<1>11. CASE x = <<>>
  <2>1. cache' = r.cache  BY <1>3, <1>6, <1>9, <1>11 DEF Finish
  <2>2. CacheKnown(drive, cache')  BY <1>8, <2>1 DEF Resolves
  <2>3. CASE Throws(r.found)
    <3>1. pc' = "failed" /\ UNCHANGED <<todo, result>>
      BY <1>3, <1>6, <1>9, <1>11, <2>3 DEF Finish, Fail
    <3>2. pc' \in Counters /\ pc' # "expanded"  BY <3>1 DEF Counters
    <3> QED  BY <1>2, <2>2, <3>1, <3>2, Carries DEF IInv
  <2>4. CASE ~Throws(r.found)
    <3>1. pc' = "done" /\ result' = Hit(glob, r.found, <<>>) /\ UNCHANGED todo
      BY <1>3, <1>6, <1>9, <1>11, <2>4 DEF Finish
    <3>2. pc' \in Counters /\ pc' # "expanded"  BY <3>1 DEF Counters
    <3>3. Cardinality(r.found) <= 1  BY <1>7, <1>8, <2>4, OneAtMost
    <3>4. r.found \subseteq drive \/ r.found = {RootFolder}  BY <1>8 DEF Resolves
    <3>5. Paired(Hit(glob, r.found, <<>>))  BY <1>7, <3>3, <3>4, HitPaired, PairedNothing
    <3>6. Paired(result')  BY <3>1, <3>5
    <3> QED  BY <1>2, <2>2, <3>1, <3>2, <3>6, Carries DEF IInv
  <2> QED  BY <2>3, <2>4
<1> QED  BY <1>10, <1>11

LEMMA AfterNothing == ASSUME IInv, UNCHANGED vars PROVE IInv'
<1>1. UNCHANGED <<match, drive, glob, pc, todo, cache, result>>  BY DEF vars
<1> QED  BY <1>1, Carries DEF IInv

\* Every step of Glob keeps it.
THEOREM GlobInvariant == Spec => []IInv
<1> USE SegmentAssumption, GlobAssumption
<1>1. Init => IInv  BY Begun
<1>2. IInv /\ [Next]_vars => IInv'
  <2>1. SUFFICES ASSUME IInv, [Next]_vars PROVE IInv'  OBVIOUS
  <2>2. CASE RoundOfSegment  BY <2>1, <2>2, AfterRound
  <2>3. CASE Refuse  BY <2>1, <2>3, AfterRefuse
  <2>4. CASE GlobLiteral  BY <2>1, <2>4, AfterLiteral
  <2>5. CASE Expand  BY <2>1, <2>5, AfterExpand
  <2>6. CASE ExpandedLiteral  BY <2>1, <2>6, AfterExpandedLiteral
  <2>7. CASE List  BY <2>1, <2>7, AfterList
  <2>8. CASE Finish  BY <2>1, <2>8, AfterFinish
  <2>9. CASE Returned  BY <2>1, <2>9, AfterNothing DEF Returned
  <2>10. CASE UNCHANGED vars  BY <2>1, <2>10, AfterNothing
  <2> QED  BY <2>1, <2>2, <2>3, <2>4, <2>5, <2>6, <2>7, <2>8, <2>9, <2>10 DEF Next
<1> QED  BY <1>1, <1>2, PTL DEF Spec

LEMMA Typed == ASSUME IInv PROVE TypeOK
<1>1. match.result \in {"idle", "none", "yes", "no"} /\ match.rounds \in Nat
      /\ match.pidx \in 1..(Len(match.pattern) + 1) /\ match.sidx \in 1..(Len(match.name) + 1)
  <2>1. CASE Idle(match)
    <3>1. Len(<<>>) = 0  OBVIOUS
    <3> QED  BY <2>1, <3>1 DEF Idle
  <2>2. CASE Sound(match) /\ Placed(match)  BY <2>2 DEF Sound, Placed, Matches
  <2> QED  BY <2>1, <2>2 DEF IInv, MatchInv
<1>2. pc \in {"idle", "called", "expanded", "done", "failed"}  BY DEF IInv, Counters
<1>3. drive \subseteq Entries /\ glob \in Globs \cup Texts \cup {<<>>}  BY DEF IInv, Tree
<1>4. cache \subseteq (Seq(DOMAIN Code) \X drive)  BY DEF IInv, CacheKnown, Chars
<1>5. \A r \in Range(result) : r[1] \in drive  BY PairedRange DEF IInv
<1> QED  BY <1>1, <1>2, <1>3, <1>4, <1>5 DEF TypeOK

\* Types: what is cached are paths of entries Drive holds, and every result is an entry
\* it holds, never the root folder.
THEOREM TypeCorrect == Spec => []TypeOK
<1>1. IInv => TypeOK  BY Typed
<1> QED  BY <1>1, GlobInvariant, PTL

\* Addresses: parsing, writing, parents and names, the probe DuckDB makes of a missing
\* id, and immutable prefixes agree on what every text means.
THEOREM AddressesExact == Spec => []UrisExact
<1>1. IInv => UrisExact
  <2>1. SUFFICES ASSUME IInv PROVE UrisExact  OBVIOUS
  <2>2. glob \in Seq(DOMAIN Code)  BY <2>1, GlobAssumption, GlobTyped DEF Chars
  <2> QED  BY <2>2, GlobAssumption, TextsExact
<1> QED  BY <1>1, GlobInvariant, PTL

\* What a glob, or a resolution before it, caches for the opens that follow names the
\* one entry its path leads to: an open that hits the cache guesses nothing.
THEOREM CacheNamesOne == Spec => []CachedNamesOne
<1>1. IInv => CachedNamesOne
  <2>1. SUFFICES ASSUME IInv, NEW x \in cache
                 PROVE  /\ x[2] \in Denotes(x[1]) \/ StartsWithId(x[1])
                        /\ \A e \in Denotes(x[1]) \ {x[2]} : x[2].folder /\ ~e.folder
                        /\ ~BelowSharedFolder(x[1])
    BY DEF CachedNamesOne
  <2>2. x \in Seq(Chars) \X drive /\ Known(drive, x[1], x[2])  BY <2>1 DEF IInv, CacheKnown
  <2>3. PICK k, e : k = x[1] /\ e = x[2] /\ k \in Seq(Chars) /\ e \in drive /\ Known(drive, k, e)
    BY <2>2
  <2>4. Tree(drive) /\ "/" \in Chars  BY <2>1, GlobAssumption, GlobTyped DEF IInv
  <2>5. /\ e \in Denotes(k) \/ StartsWithId(k)
        /\ \A f \in Denotes(k) \ {e} : e.folder /\ ~f.folder
        /\ ~BelowSharedFolder(k)
    BY <2>3, <2>4, KnownNamesOne
  <2> QED  BY <2>3, <2>5
<1> QED  BY <1>1, GlobInvariant, PTL

\* MatchSegment among Glob's own steps: exact, and within its rounds.
THEOREM SegmentsStayExact == Spec => []SegmentsExact
<1>1. IInv => SegmentsExact
  <2>1. SUFFICES ASSUME IInv PROVE SegmentsExact  OBVIOUS
  <2>2. CASE Idle(match)
    <3>1. Len(<<>>) = 0 /\ 0 <= (0 + 1) * (0 + 1)  OBVIOUS
    <3> QED  BY <2>2, <3>1 DEF Idle, SegmentsExact
  <2>3. CASE Sound(match)  BY <2>3 DEF Sound, Exact, Bounded, SegmentsExact
  <2> QED  BY <2>1, <2>2, <2>3 DEF IInv, MatchInv
<1> QED  BY <1>1, GlobInvariant, PTL
=============================================================================
