---------------------------- MODULE Lists_proofs ----------------------------
(***************************************************************************)
(* Facts about sequences that the proofs of the components share: what     *)
(* Only and FlattenSeq compute, for every sequence.  They are proved by    *)
(* induction, which UpTo makes a fact about sets.                          *)
(***************************************************************************)
EXTENDS Lists, SequenceTheorems, WellFoundedInduction, TLAPS

\* A set of naturals that is not empty has its minimum.
LEMMA MinIsMember ==
  ASSUME NEW I, I \subseteq Nat, I # {}
  PROVE  Min(I) \in I /\ \A i \in I : Min(I) =< i
<1> DEFINE Lesser == {p \in Nat \X Nat : p[1] < p[2]}
<1>1. IsWellFoundedOn(Lesser, Nat)
  BY NatLessThanWellFounded DEF OpToRel
<1> HIDE DEF Lesser
<1>2. PICK x \in I : \A y \in I : ~(<<y, x>> \in Lesser)
  BY <1>1, WFMin
<1>3. ASSUME NEW y \in I
      PROVE  x =< y
  <2>1. x \in Nat /\ y \in Nat
    OBVIOUS
  <2>2. y < x => <<y, x>> \in Lesser
    BY <2>1 DEF Lesser
  <2> QED
    BY <1>2, <2>1, <2>2
<1> QED
  BY <1>2, <1>3 DEF Min

\* Induction up to n.
LEMMA UpTo ==
  ASSUME NEW n \in Nat, NEW Q, 0 \in Q,
         \A i \in 1..n : i - 1 \in Q => i \in Q
  PROVE  0..n \subseteq Q
<1> DEFINE Bad == 0..n \ Q
<1> SUFFICES ASSUME Bad # {}
             PROVE  FALSE
  OBVIOUS
<1>1. Bad \subseteq Nat
  OBVIOUS
<1>2. Min(Bad) \in Bad /\ \A i \in Bad : Min(Bad) =< i
  <2> HIDE DEF Bad
  <2> QED
    BY <1>1, MinIsMember
<1>3. PICK m \in Bad : \A i \in Bad : m =< i
  BY <1>2
<1>4. m \in 1..n /\ m - 1 \in 0..n /\ ~(m =< m - 1)
  BY <1>3
<1> QED
  BY <1>3, <1>4

\* g is the function that begins with base and goes on by step.
Unrolls(g, n, V, base, step) ==
  g \in [0..n -> V] /\ g[0] = base /\ \A i \in 1..n : g[i] = step[<<i, g[i - 1]>>]

\* There is such a function: a recursive definition over 0..n defines one.
LEMMA Recursion ==
  ASSUME NEW n \in Nat, NEW V, NEW base \in V, NEW step \in [(1..n) \X V -> V]
  PROVE  \E g : Unrolls(g, n, V, base, step)
<1> DEFINE Built(m) == {g \in [0..m -> V] : g[0] = base /\ \A i \in 1..m : g[i] = step[<<i, g[i - 1]>>]}
           Q == {m \in 0..n : Built(m) # {}}
<1>1. 0 \in Q
  <2>1. [i \in 0..0 |-> base] \in Built(0)
    OBVIOUS
  <2>2. 0 \in 0..n
    OBVIOUS
  <2> HIDE DEF Built
  <2> QED
    BY <2>1, <2>2
<1>2. ASSUME NEW m \in 1..n, m - 1 \in Q
      PROVE  m \in Q
  <2>1. PICK g \in [0..m - 1 -> V] : g[0] = base /\ \A i \in 1..m - 1 : g[i] = step[<<i, g[i - 1]>>]
    BY <1>2
  <2> DEFINE next == step[<<m, g[m - 1]>>]
             h == [i \in 0..m |-> IF i = m THEN next ELSE g[i]]
  <2>2. m \in Nat /\ m - 1 \in 0..m - 1 /\ m \in 0..n /\ m # 0
    OBVIOUS
  <2>3. next \in V
    <3>1. g[m - 1] \in V
      BY <2>1, <2>2
    <3> QED
      BY <3>1
  <2> HIDE DEF next
  <2>4. h \in [0..m -> V]
    <3>1. ASSUME NEW i \in 0..m
          PROVE  (IF i = m THEN next ELSE g[i]) \in V
      BY <2>1, <2>2, <2>3
    <3> QED
      BY <3>1
  <2>5. h[0] = base /\ h[m - 1] = g[m - 1] /\ h[m] = next
    BY <2>1, <2>2
  <2>6. ASSUME NEW i \in 1..m
        PROVE  h[i] = step[<<i, h[i - 1]>>]
    <3>1. CASE i = m
      BY <2>5, <3>1 DEF next
    <3>2. CASE i # m
      <4>1. i \in 1..m - 1 /\ i - 1 \in 0..m - 1 /\ i - 1 # m /\ i \in 0..m /\ i - 1 \in 0..m
        BY <2>2, <3>2
      <4>2. h[i] = g[i] /\ h[i - 1] = g[i - 1]
        BY <3>2, <4>1
      <4> QED
        BY <2>1, <4>1, <4>2
    <3> QED
      BY <3>1, <3>2
  <2>7. h \in Built(m)
    <3> HIDE DEF h
    <3> QED
      BY <2>4, <2>5, <2>6
  <2> HIDE DEF Built, h
  <2> QED
    BY <2>2, <2>7
<1>3. n \in Q
  <2> HIDE DEF Q
  <2>1. 0..n \subseteq Q
    BY <1>1, <1>2, UpTo
  <2> QED
    BY <2>1
<1> QED
  BY <1>3 DEF Unrolls

-----------------------------------------------------------------------------
(* Concatenations *)

\* The elements of two sequences, one after the other.
LEMMA ConcatParts ==
  ASSUME NEW A, NEW a \in Seq(A), NEW b \in Seq(A)
  PROVE  /\ a \o b \in Seq(A) /\ Len(a \o b) = Len(a) + Len(b)
         /\ \A i \in 1..Len(a) : (a \o b)[i] = a[i]
         /\ \A i \in 1..Len(b) : (a \o b)[Len(a) + i] = b[i]
         /\ Len(a) \in Nat /\ Len(b) \in Nat
<1>1. /\ a \o b \in Seq(A) /\ Len(a \o b) = Len(a) + Len(b)
      /\ \A i \in 1..Len(a) + Len(b) :
           (a \o b)[i] = IF i <= Len(a) THEN a[i] ELSE b[i - Len(a)]
  BY ConcatProperties
<1>2. Len(a) \in Nat /\ Len(b) \in Nat
  BY LenProperties
<1>3. ASSUME NEW i \in 1..Len(a)
      PROVE  (a \o b)[i] = a[i]
  <2>1. i \in 1..Len(a) + Len(b) /\ i <= Len(a)
    BY <1>2
  <2> QED
    BY <1>1, <2>1
<1>4. ASSUME NEW i \in 1..Len(b)
      PROVE  (a \o b)[Len(a) + i] = b[i]
  <2>1. /\ Len(a) + i \in 1..Len(a) + Len(b) /\ ~(Len(a) + i <= Len(a))
        /\ Len(a) + i - Len(a) = i
    BY <1>2
  <2> QED
    BY <1>1, <2>1
<1> QED
  BY <1>1, <1>2, <1>3, <1>4

-----------------------------------------------------------------------------
(* Only *)

\* f[i] is what Only makes of the first i elements.
OnlyUpTo(f, s, S, V) ==
  /\ f \in [0..Len(s) -> V]
  /\ f[0] = <<>>
  /\ \A i \in 1..Len(s) : f[i] = IF s[i] \in S THEN Append(f[i - 1], s[i]) ELSE f[i - 1]
  /\ Only(s, S) = f[Len(s)]

\* The recursion of Only defines such a function.
LEMMA OnlyBuilt ==
  ASSUME NEW A, NEW s \in Seq(A), NEW S
  PROVE  \E f : OnlyUpTo(f, s, S, Seq(A \cap S))
<1> DEFINE n == Len(s)
           V == Seq(A \cap S)
           Step(g, i) == IF i = 0 THEN <<>>
                         ELSE IF s[i] \in S THEN Append(g[i - 1], s[i]) ELSE g[i - 1]
           Extend(i, l) == IF s[i] \in S THEN Append(l, s[i]) ELSE l
           F == CHOOSE f : f = [i \in 0..n |-> Step(f, i)]
<1>1. n \in Nat /\ \A i \in 1..n : s[i] \in A
  BY LenProperties
<1>2. <<>> \in V /\ 0 \in 0..n
  BY <1>1
<1>3. ASSUME NEW i \in 1..n, NEW l \in V
      PROVE  Extend(i, l) \in V
  BY <1>1, AppendProperties
<1>4. Only(s, S) = F[n]
  BY DEF Only
<1>5. \E g : g = [i \in 0..n |-> Step(g, i)]
  <2> DEFINE step == [p \in (1..n) \X V |-> Extend(p[1], p[2])]
  <2>1. step \in [(1..n) \X V -> V]
    <3> HIDE DEF Extend, V
    <3> QED
      BY <1>3
  <2>2. PICK g \in [0..n -> V] : g[0] = <<>> /\ \A i \in 1..n : g[i] = step[<<i, g[i - 1]>>]
    <3> HIDE DEF step, V, n
    <3>1. \E g : Unrolls(g, n, V, <<>>, step)
      BY <1>1, <1>2, <2>1, Recursion, Zenon
    <3> QED
      BY <3>1 DEF Unrolls
  <2>3. ASSUME NEW i \in 0..n
        PROVE  g[i] = Step(g, i)
    <3>1. CASE i = 0
      BY <2>2, <3>1
    <3>2. CASE i # 0
      <4>1. i \in 1..n /\ i - 1 \in 0..n
        BY <1>1, <3>2
      <4>2. g[i - 1] \in V
        BY <2>2, <4>1
      <4>3. step[<<i, g[i - 1]>>] = Extend(i, g[i - 1])
        <5> HIDE DEF Extend, V
        <5> QED
          BY <4>1, <4>2
      <4> QED
        BY <2>2, <3>2, <4>1, <4>3
    <3> QED
      BY <3>1, <3>2
  <2>4. g = [i \in 0..n |-> Step(g, i)]
    <3> HIDE DEF Step
    <3> QED
      BY <2>2, <2>3
  <2> QED
    BY <2>4
<1>6. F = [i \in 0..n |-> Step(F, i)]
  BY <1>5
<1> HIDE DEF F
<1>7. ASSUME NEW i \in 0..n
      PROVE  F[i] = Step(F, i)
  <2> HIDE DEF Step
  <2>1. [j \in 0..n |-> Step(F, j)][i] = Step(F, i)
    OBVIOUS
  <2> QED
    BY <1>6, <2>1
<1>8. F[0] = <<>>
  BY <1>2, <1>7
<1>9. ASSUME NEW i \in 1..n
      PROVE  F[i] = Extend(i, F[i - 1])
  BY <1>1, <1>7
<1>10. 0..n \subseteq {i \in 0..n : F[i] \in V}
  <2> DEFINE Q == {i \in 0..n : F[i] \in V}
  <2>1. 0 \in Q
    BY <1>2, <1>8
  <2>2. ASSUME NEW i \in 1..n, i - 1 \in Q
        PROVE  i \in Q
    <3>1. F[i - 1] \in V /\ i \in 0..n
      BY <1>1, <2>2
    <3> HIDE DEF Extend, V
    <3> QED
      BY <1>3, <1>9, <3>1
  <2> HIDE DEF Q
  <2>3. 0..n \subseteq Q
    BY <1>1, <2>1, <2>2, UpTo
  <2> QED
    BY <2>3 DEF Q
<1>11. F \in [0..n -> V]
  BY <1>6, <1>10
<1> QED
  BY <1>4, <1>8, <1>9, <1>11 DEF OnlyUpTo
\* r is made of the elements of s up to m that are in S, the k-th from at[k].
Picks(at, r, s, m, S) ==
  /\ at \in [1..Len(r) -> 1..m]
  /\ \A k, l \in 1..Len(r) : k < l => at[k] < at[l]
  /\ \A k \in 1..Len(r) : r[k] = s[at[k]]
  /\ \A i \in 1..m : s[i] \in S => \E k \in 1..Len(r) : at[k] = i

\* One more element that is in S is picked.
LEMMA PicksMore ==
  ASSUME NEW A, NEW s \in Seq(A), NEW S, NEW m \in 1..Len(s), NEW r \in Seq(A), NEW at,
         Picks(at, r, s, m - 1, S), s[m] \in S
  PROVE  \E more : Picks(more, Append(r, s[m]), s, m, S)
<1> DEFINE n == Len(r)
           q == Append(r, s[m])
           more == [k \in 1..n + 1 |-> IF k = n + 1 THEN m ELSE at[k]]
<1>1. Len(s) \in Nat /\ m \in Nat /\ n \in Nat /\ s[m] \in A
  BY LenProperties
<1>2. Len(q) = n + 1 /\ q[n + 1] = s[m] /\ \A k \in 1..n : q[k] = r[k]
  BY <1>1, AppendProperties
<1>3. /\ at \in [1..n -> 1..m - 1]
      /\ \A k, l \in 1..n : k < l => at[k] < at[l]
      /\ \A k \in 1..n : r[k] = s[at[k]]
      /\ \A i \in 1..m - 1 : s[i] \in S => \E k \in 1..n : at[k] = i
  BY DEF Picks
<1>4. n + 1 \in 1..n + 1 /\ \A k \in 1..n + 1 : k # n + 1 => k \in 1..n
  BY <1>1
<1>5. more[n + 1] = m /\ \A k \in 1..n : more[k] = at[k] /\ at[k] \in 1..m - 1
  <2>1. \A k \in 1..n : k # n + 1 /\ k \in 1..n + 1
    BY <1>1
  <2> QED
    BY <1>3, <1>4, <2>1
<1>6. more \in [1..n + 1 -> 1..m]
  <2>1. more = [k \in 1..n + 1 |-> more[k]]
    OBVIOUS
  <2>2. m \in 1..m /\ 1..m - 1 \subseteq 1..m
    BY <1>1
  <2> HIDE DEF n, more
  <2>3. ASSUME NEW k \in 1..n + 1
        PROVE  more[k] \in 1..m
    BY <1>4, <1>5, <2>2
  <2> QED
    BY <2>1, <2>3
<1> HIDE DEF n, q, more
<1>7. ASSUME NEW k \in 1..n + 1, NEW l \in 1..n + 1, k < l
      PROVE  more[k] < more[l]
  <2>1. k \in 1..n
    BY <1>1, <1>7
  <2>2. CASE l = n + 1
    BY <1>1, <1>5, <2>1, <2>2
  <2>3. CASE l # n + 1
    <3>1. l \in 1..n
      BY <1>4, <2>3
    <3> QED
      BY <1>3, <1>5, <1>7, <2>1, <3>1
  <2> QED
    BY <2>2, <2>3
<1>8. ASSUME NEW k \in 1..n + 1
      PROVE  q[k] = s[more[k]]
  <2>1. CASE k = n + 1
    BY <1>2, <1>5, <2>1
  <2>2. CASE k # n + 1
    BY <1>2, <1>3, <1>4, <1>5, <2>2
  <2> QED
    BY <2>1, <2>2
<1>9. ASSUME NEW i \in 1..m, s[i] \in S
      PROVE  \E k \in 1..n + 1 : more[k] = i
  <2>1. CASE i = m
    BY <1>4, <1>5, <2>1
  <2>2. CASE i # m
    <3>1. i \in 1..m - 1
      BY <1>1, <2>2
    <3>2. PICK k \in 1..n : at[k] = i
      BY <1>3, <1>9, <3>1
    <3>3. k \in 1..n + 1
      BY <1>1
    <3> QED
      BY <1>5, <3>2, <3>3
  <2> QED
    BY <2>1, <2>2
<1>10. Picks(more, q, s, m, S)
  BY <1>2, <1>6, <1>7, <1>8, <1>9 DEF Picks
<1> QED
  BY <1>10 DEF q

\* One that is not in S is passed over.
LEMMA PicksNoMore ==
  ASSUME NEW s, NEW S, NEW m \in Nat \ {0}, NEW r, NEW at,
         Picks(at, r, s, m - 1, S), s[m] \notin S
  PROVE  Picks(at, r, s, m, S)
<1>1. 1..m - 1 \subseteq 1..m /\ \A i \in 1..m : i = m \/ i \in 1..m - 1
  OBVIOUS
<1>2. at \in [1..Len(r) -> 1..m]
  BY <1>1 DEF Picks
<1> QED
  BY <1>1, <1>2 DEF Picks

\* What Only makes of a sequence, and where it takes it from.
LEMMA OnlyPicks ==
  ASSUME NEW A, NEW s \in Seq(A), NEW S
  PROVE  /\ Only(s, S) \in Seq(A \cap S) /\ Only(s, S) \in Seq(A)
         /\ \E at : Picks(at, Only(s, S), s, Len(s), S)
<1> DEFINE n == Len(s)
           V == Seq(A \cap S)
<1>0. PICK f : OnlyUpTo(f, s, S, V)
  BY OnlyBuilt
<1>1. /\ f \in [0..n -> V]
      /\ f[0] = <<>>
      /\ \A i \in 1..n : f[i] = IF s[i] \in S THEN Append(f[i - 1], s[i]) ELSE f[i - 1]
      /\ Only(s, S) = f[n]
  BY <1>0 DEF OnlyUpTo
<1> DEFINE Q == {m \in 0..n : \E at : Picks(at, f[m], s, m, S)}
<1>2. n \in Nat /\ 0 \in 0..n /\ n \in 0..n
  BY LenProperties
<1>3. ASSUME NEW m \in 0..n
      PROVE  f[m] \in V /\ f[m] \in Seq(A)
  <2>1. f[m] \in V
    BY <1>1
  <2> QED
    BY <2>1
<1>4. 0 \in Q
  <2> DEFINE none == [k \in 1..0 |-> 1]
  <2>1. Picks(none, <<>>, s, 0, S)
    BY DEF Picks
  <2> HIDE DEF none
  <2> QED
    BY <1>1, <1>2, <2>1
<1>5. ASSUME NEW m \in 1..n, m - 1 \in Q
      PROVE  m \in Q
  <2>1. m \in 0..n /\ m - 1 \in 0..n /\ m \in Nat \ {0}
    BY <1>2
  <2>2. PICK at : Picks(at, f[m - 1], s, m - 1, S)
    BY <1>5
  <2>3. f[m - 1] \in Seq(A)
    BY <1>3, <2>1
  <2>4. CASE s[m] \in S
    <3>1. \E more : Picks(more, Append(f[m - 1], s[m]), s, m, S)
      BY <2>2, <2>3, <2>4, PicksMore
    <3>2. f[m] = Append(f[m - 1], s[m])
      BY <1>1, <2>4
    <3> QED
      BY <2>1, <3>1, <3>2
  <2>5. CASE s[m] \notin S
    <3>1. Picks(at, f[m - 1], s, m, S)
      BY <2>1, <2>2, <2>5, PicksNoMore
    <3>2. f[m] = f[m - 1]
      BY <1>1, <2>5
    <3> QED
      BY <2>1, <3>1, <3>2
  <2> QED
    BY <2>4, <2>5
<1>6. n \in Q
  <2> HIDE DEF Q
  <2>1. 0..n \subseteq Q
    BY <1>2, <1>4, <1>5, UpTo
  <2> QED
    BY <1>2, <2>1
<1> QED
  BY <1>1, <1>2, <1>3, <1>6

\* Only keeps the elements that are in S.
LEMMA OnlyRange ==
  ASSUME NEW A, NEW s \in Seq(A), NEW S
  PROVE  Range(Only(s, S)) = Range(s) \cap S
<1> DEFINE r == Only(s, S)
<1>1. /\ r \in Seq(A \cap S)
      /\ \E at : Picks(at, r, s, Len(s), S)
  BY OnlyPicks
<1> HIDE DEF r
<1>2. PICK at : Picks(at, r, s, Len(s), S)
  BY <1>1
<1>3. DOMAIN r = 1..Len(r) /\ DOMAIN s = 1..Len(s)
  BY <1>1, LenProperties
<1>4. ASSUME NEW k \in 1..Len(r)
      PROVE  r[k] \in Range(s) \cap S
  <2>1. r[k] = s[at[k]] /\ at[k] \in 1..Len(s)
    BY <1>2 DEF Picks
  <2>2. r[k] \in S
    BY <1>1
  <2> QED
    BY <1>3, <2>1, <2>2 DEF Range
<1>5. ASSUME NEW i \in 1..Len(s), s[i] \in S
      PROVE  s[i] \in Range(r)
  <2>1. PICK k \in 1..Len(r) : at[k] = i
    BY <1>2, <1>5 DEF Picks
  <2>2. r[k] = s[i]
    BY <1>2, <2>1 DEF Picks
  <2> QED
    BY <1>3, <2>2 DEF Range
<1> QED
  BY <1>3, <1>4, <1>5 DEF Range, r

\* When nothing is in S nothing is left ...
LEMMA OnlyNone ==
  ASSUME NEW A, NEW s \in Seq(A), NEW S, \A i \in 1..Len(s) : s[i] \notin S
  PROVE  Only(s, S) = <<>>
<1> DEFINE r == Only(s, S)
<1>1. /\ r \in Seq(A)
      /\ \E at : Picks(at, r, s, Len(s), S)
  BY OnlyPicks
<1>2. \A k \in 1..Len(r) : r[k] \in S
  <2>1. r \in Seq(A \cap S)
    BY OnlyPicks
  <2> HIDE DEF r
  <2> QED
    BY <2>1
<1> HIDE DEF r
<1>3. PICK at : Picks(at, r, s, Len(s), S)
  BY <1>1
<1>4. ASSUME Len(r) # 0
      PROVE  FALSE
  <2>1. 1 \in 1..Len(r)
    BY <1>1, <1>4, LenProperties
  <2>2. at[1] \in 1..Len(s) /\ r[1] = s[at[1]] /\ r[1] \in S
    BY <1>2, <1>3, <2>1 DEF Picks
  <2> QED
    BY <2>2
<1> QED
  BY <1>1, <1>4, EmptySeq DEF r

\* ... and when everything is, everything.
LEMMA OnlyAll ==
  ASSUME NEW A, NEW s \in Seq(A), NEW S, \A i \in 1..Len(s) : s[i] \in S
  PROVE  Only(s, S) = s
<1> DEFINE n == Len(s)
           V == Seq(A \cap S)
<1>0. PICK f : OnlyUpTo(f, s, S, V)
  BY OnlyBuilt
<1>1. /\ \A m \in 0..n : f[m] \in V
      /\ f[0] = <<>>
      /\ \A i \in 1..n : f[i] = Append(f[i - 1], s[i])
      /\ Only(s, S) = f[n]
  BY <1>0 DEF OnlyUpTo
<1>2. n \in Nat /\ 0 \in 0..n /\ n \in 0..n /\ \A i \in 1..n : s[i] \in A \cap S
  BY LenProperties
<1> DEFINE Q == {m \in 0..n : Len(f[m]) = m /\ \A k \in 1..m : f[m][k] = s[k]}
<1>3. 0 \in Q
  BY <1>1, <1>2
<1>4. ASSUME NEW m \in 1..n, m - 1 \in Q
      PROVE  m \in Q
  <2>1. f[m - 1] \in V /\ Len(f[m - 1]) = m - 1 /\ m \in 0..n
    BY <1>1, <1>4
  <2>2. \A k \in 1..m - 1 : f[m - 1][k] = s[k]
    BY <1>4
  <2>3. f[m] = Append(f[m - 1], s[m]) /\ s[m] \in A \cap S
    BY <1>1, <1>2
  <2>4. /\ Len(f[m]) = Len(f[m - 1]) + 1 /\ f[m][Len(f[m - 1]) + 1] = s[m]
        /\ \A k \in 1..Len(f[m - 1]) : f[m][k] = f[m - 1][k]
    BY <2>1, <2>3, AppendProperties
  <2>5. ASSUME NEW k \in 1..m
        PROVE  f[m][k] = s[k]
    <3>1. k \in 1..m - 1 \/ k = m
      BY <2>1
    <3> QED
      BY <2>1, <2>2, <2>4, <3>1
  <2> QED
    BY <2>1, <2>4, <2>5
<1>5. n \in Q
  <2> HIDE DEF Q
  <2>1. 0..n \subseteq Q
    BY <1>2, <1>3, <1>4, UpTo
  <2> QED
    BY <1>2, <2>1
<1>6. f[n] \in Seq(A)
  BY <1>1, <1>2
<1>7. f[n] = s
  BY <1>5, <1>6, SeqEqual
<1> QED
  BY <1>1, <1>7

\* i is the only place with an element in S.
Sole(i, s, S) ==
  i \in 1..Len(s) /\ s[i] \in S /\ \A j \in 1..Len(s) : s[j] \in S => j = i

\* The only element that is in S is all that is kept.
LEMMA OnlyOne ==
  ASSUME NEW A, NEW s \in Seq(A), NEW S, NEW i, Sole(i, s, S)
  PROVE  Len(Only(s, S)) = 1 /\ Only(s, S)[1] = s[i]
<1> DEFINE r == Only(s, S)
<1>1. /\ r \in Seq(A \cap S)
      /\ \E at : Picks(at, r, s, Len(s), S)
  BY OnlyPicks
<1> HIDE DEF r
<1>2. PICK at : Picks(at, r, s, Len(s), S)
  BY <1>1
<1>3. Len(r) \in Nat
  BY <1>1, LenProperties
<1>4. ASSUME NEW k \in 1..Len(r)
      PROVE  at[k] = i
  <2>1. at[k] \in 1..Len(s) /\ r[k] = s[at[k]]
    BY <1>2 DEF Picks
  <2>2. r[k] \in S
    BY <1>1
  <2> QED
    BY <2>1, <2>2 DEF Sole
<1>5. PICK k \in 1..Len(r) : at[k] = i
  BY <1>2 DEF Picks, Sole
<1>6. ASSUME 2 =< Len(r)
      PROVE  FALSE
  <2>1. 1 \in 1..Len(r) /\ 2 \in 1..Len(r)
    BY <1>3, <1>6
  <2>2. at[1] < at[2]
    BY <1>2, <2>1 DEF Picks
  <2>3. at[1] = i /\ at[2] = i /\ i \in Int
    BY <1>4, <2>1 DEF Sole
  <2> QED
    BY <2>2, <2>3
<1>7. Len(r) = 1
  <2> DEFINE n == Len(r)
  <2>1. n \in Nat /\ ~(2 =< n) /\ k \in 1..n
    BY <1>3, <1>5, <1>6
  <2> HIDE DEF n
  <2>2. n = 1
    BY <2>1
  <2> QED
    BY <2>2 DEF n
<1>8. r[1] = s[i]
  <2>1. 1 \in 1..Len(r)
    BY <1>7
  <2>2. r[1] = s[at[1]]
    BY <1>2, <2>1 DEF Picks
  <2> QED
    BY <1>4, <2>1, <2>2
<1> QED
  BY <1>7, <1>8 DEF r

\* As many elements in S, as many there are: at least one, at least two.
LEMMA OnlySome ==
  ASSUME NEW A, NEW s \in Seq(A), NEW S, NEW i \in 1..Len(s), s[i] \in S
  PROVE  /\ Len(Only(s, S)) >= 1
         /\ \A j \in 1..Len(s) \ {i} : s[j] \in S => Len(Only(s, S)) >= 2
<1> DEFINE r == Only(s, S)
<1>1. /\ r \in Seq(A \cap S)
      /\ \E at : Picks(at, r, s, Len(s), S)
  BY OnlyPicks
<1> HIDE DEF r
<1>2. PICK at : Picks(at, r, s, Len(s), S)
  BY <1>1
<1>3. Len(r) \in Nat
  BY <1>1, LenProperties
<1>4. PICK k \in 1..Len(r) : at[k] = i
  BY <1>2 DEF Picks
<1>5. ASSUME NEW j \in 1..Len(s) \ {i}, s[j] \in S
      PROVE  Len(r) >= 2
  <2>1. PICK l \in 1..Len(r) : at[l] = j
    BY <1>2, <1>5 DEF Picks
  <2>2. k # l
    BY <1>4, <2>1
  <2> QED
    BY <1>3, <2>2
<1> QED
  BY <1>3, <1>4, <1>5 DEF r

\* What Only makes of two sequences one after the other.
LEMMA OnlyConcat ==
  ASSUME NEW A, NEW a \in Seq(A), NEW b \in Seq(A), NEW S
  PROVE  Only(a \o b, S) = Only(a, S) \o Only(b, S)
<1> DEFINE s == a \o b
           m == Len(a)
           n == Len(b)
           V == Seq(A \cap S)
           r == Only(a, S)
<1>1. /\ s \in Seq(A) /\ Len(s) = m + n
      /\ \A i \in 1..m : s[i] = a[i]
      /\ \A i \in 1..n : s[m + i] = b[i]
      /\ m \in Nat /\ n \in Nat
  BY ConcatParts
<1> HIDE DEF s
<1>2. PICK f : OnlyUpTo(f, s, S, V)
  BY <1>1, OnlyBuilt
<1>3. PICK g : OnlyUpTo(g, a, S, V)
  BY OnlyBuilt
<1>4. PICK h : OnlyUpTo(h, b, S, V)
  BY OnlyBuilt
<1> HIDE DEF m, n, V, r
<1>5. /\ \A i \in 0..m + n : f[i] \in V
      /\ f[0] = <<>>
      /\ \A i \in 1..m + n : f[i] = IF s[i] \in S THEN Append(f[i - 1], s[i]) ELSE f[i - 1]
      /\ Only(s, S) = f[m + n]
  BY <1>1, <1>2 DEF OnlyUpTo
<1>6. /\ \A i \in 0..m : g[i] \in V
      /\ g[0] = <<>>
      /\ \A i \in 1..m : g[i] = IF a[i] \in S THEN Append(g[i - 1], a[i]) ELSE g[i - 1]
      /\ r = g[m]
  BY <1>3 DEF OnlyUpTo, m, r
<1>7. /\ \A i \in 0..n : h[i] \in V
      /\ h[0] = <<>>
      /\ \A i \in 1..n : h[i] = IF b[i] \in S THEN Append(h[i - 1], b[i]) ELSE h[i - 1]
      /\ Only(b, S) = h[n]
  BY <1>4 DEF OnlyUpTo, n
<1>8. f[m] = r
  <2> DEFINE Q == {i \in 0..m : f[i] = g[i]}
  <2>1. 0 \in Q
    BY <1>1, <1>5, <1>6
  <2>2. ASSUME NEW i \in 1..m, i - 1 \in Q
        PROVE  i \in Q
    <3>1. i \in 1..m + n /\ i \in 0..m
      BY <1>1
    <3>2. f[i - 1] = g[i - 1] /\ s[i] = a[i]
      BY <1>1, <2>2
    <3>3. f[i] = g[i]
      BY <1>5, <1>6, <3>1, <3>2
    <3> QED
      BY <3>1, <3>3
  <2> HIDE DEF Q
  <2>3. 0..m \subseteq Q
    BY <1>1, <2>1, <2>2, UpTo
  <2>4. m \in Q
    BY <1>1, <2>3
  <2> QED
    BY <1>6, <2>4 DEF Q
<1>9. r \in V
  BY <1>1, <1>6
<1>10. f[m + n] = r \o h[n]
  <2> DEFINE Q == {i \in 0..n : f[m + i] = r \o h[i]}
  <2>1. 0 \in Q
    <3>1. r \o <<>> = r
      BY <1>9, ConcatEmptySeq DEF V
    <3>2. f[m + 0] = r \o h[0] /\ 0 \in 0..n
      <4>1. m + 0 = m /\ 0 \in 0..n
        BY <1>1
      <4> QED
        BY <1>7, <1>8, <3>1, <4>1, Zenon
    <3> QED
      BY <3>2
  <2>2. ASSUME NEW i \in 1..n, i - 1 \in Q
        PROVE  i \in Q
    <3>1. m + i \in 1..m + n /\ i \in 0..n /\ i - 1 \in 0..n /\ m + i - 1 = m + (i - 1)
      BY <1>1
    <3>2. f[m + i - 1] = r \o h[i - 1] /\ s[m + i] = b[i]
      BY <1>1, <2>2, <3>1
    <3>3. h[i - 1] \in V
      BY <1>7, <3>1
    <3>4. f[m + i] = IF b[i] \in S THEN Append(r \o h[i - 1], b[i]) ELSE r \o h[i - 1]
      <4> DEFINE j == m + i
      <4>1. j \in 1..m + n /\ f[j - 1] = r \o h[i - 1] /\ s[j] = b[i]
        BY <1>1, <3>1, <3>2
      <4> HIDE DEF j
      <4>2. f[j] = IF s[j] \in S THEN Append(f[j - 1], s[j]) ELSE f[j - 1]
        BY <1>5, <4>1
      <4>3. f[j] = IF b[i] \in S THEN Append(r \o h[i - 1], b[i]) ELSE r \o h[i - 1]
        BY <4>1, <4>2, Zenon
      <4> QED
        BY <4>3 DEF j
    <3>5. CASE b[i] \in S
      <4>1. b[i] \in A \cap S
        BY <3>5 DEF n
      <4>2. Append(r \o h[i - 1], b[i]) = r \o Append(h[i - 1], b[i])
        <5> DEFINE W == A \cap S
                   t == h[i - 1]
                   e == b[i]
        <5>1. r \in Seq(W) /\ t \in Seq(W) /\ e \in W
          BY <1>9, <3>3, <4>1, Zenon DEF V
        <5> HIDE DEF W, t, e
        <5> DEFINE one == <<e>>
        <5>3. one \in Seq(W)
          BY <5>1
        <5>4. Append(r \o t, e) = (r \o t) \o one
          <6>1. r \o t \in Seq(W)
            BY <5>1, ConcatProperties
          <6> QED
            BY <5>1, <6>1, AppendIsConcat
        <5>5. Append(t, e) = t \o one
          BY <5>1, AppendIsConcat
        <5> HIDE DEF one
        <5>2. Append(r \o t, e) = r \o Append(t, e)
          <6>1. (r \o t) \o one = r \o (t \o one)
            BY <5>1, <5>3, ConcatAssociative
          <6> QED
            BY <5>4, <5>5, <6>1, Zenon
        <5> QED
          BY <5>2 DEF t, e
      <4> QED
        BY <1>7, <3>1, <3>4, <3>5, <4>2
    <3>6. CASE b[i] \notin S
      BY <1>7, <3>1, <3>4, <3>6
    <3> QED
      BY <3>5, <3>6
  <2> HIDE DEF Q
  <2>3. 0..n \subseteq Q
    BY <1>1, <2>1, <2>2, UpTo
  <2>4. n \in Q
    BY <1>1, <2>3
  <2> QED
    BY <2>4 DEF Q
<1> QED
  BY <1>5, <1>7, <1>10 DEF s, r
-----------------------------------------------------------------------------
(* FlattenSeq *)

\* f[i] is the concatenation of the first i sequences.
FlatUpTo(f, ss, V) ==
  /\ f \in [0..Len(ss) -> V]
  /\ f[0] = <<>>
  /\ \A i \in 1..Len(ss) : f[i] = f[i - 1] \o ss[i]
  /\ FlattenSeq(ss) = f[Len(ss)]

\* The recursion of FlattenSeq defines such a function.
LEMMA FlatBuilt ==
  ASSUME NEW A, NEW ss \in Seq(Seq(A))
  PROVE  \E f : FlatUpTo(f, ss, Seq(A))
<1> DEFINE n == Len(ss)
           V == Seq(A)
           Extend(i, l) == l \o ss[i]
           Step(g, i) == IF i = 1 THEN ss[i] ELSE g[i - 1] \o ss[i]
           F == CHOOSE f : f = [i \in 1..n |-> Step(f, i)]
<1>1. n \in Nat /\ (\A i \in 1..n : ss[i] \in V) /\ <<>> \in V /\ 0 \in 0..n
  BY LenProperties
<1>2. ASSUME NEW i \in 1..n, NEW l \in V
      PROVE  Extend(i, l) \in V
  <2>1. ss[i] \in V
    BY <1>1
  <2> QED
    BY <2>1, ConcatProperties
<1>3. PICK g : /\ g \in [0..n -> V] /\ g[0] = <<>>
               /\ \A i \in 1..n : g[i] = Extend(i, g[i - 1])
  <2> DEFINE step == [p \in (1..n) \X V |-> Extend(p[1], p[2])]
  <2>1. step \in [(1..n) \X V -> V]
    <3> HIDE DEF Extend, V
    <3> QED
      BY <1>2
  <2>2. PICK g : Unrolls(g, n, V, <<>>, step)
    <3> HIDE DEF step, V, n
    <3> QED
      BY <1>1, <2>1, Recursion, Zenon
  <2>3. ASSUME NEW i \in 1..n
        PROVE  g[i] = Extend(i, g[i - 1])
    <3>1. i - 1 \in 0..n
      BY <1>1
    <3>2. g[i - 1] \in V /\ g[i] = step[<<i, g[i - 1]>>]
      BY <2>2, <3>1 DEF Unrolls
    <3>3. step[<<i, g[i - 1]>>] = Extend(i, g[i - 1])
      <4> HIDE DEF Extend, V
      <4> QED
        BY <3>2
    <3> QED
      BY <3>2, <3>3
  <2> QED
    BY <2>2, <2>3 DEF Unrolls
<1>4. ASSUME NEW i \in 1..n
      PROVE  g[i] = IF i = 1 THEN ss[i] ELSE g[i - 1] \o ss[i]
  <2>1. g[i] = g[i - 1] \o ss[i]
    BY <1>3
  <2>2. i = 1 => g[i - 1] = <<>>
    BY <1>3
  <2>3. <<>> \o ss[i] = ss[i]
    <3>1. ss[i] \in V
      BY <1>1
    <3> QED
      BY <3>1, ConcatEmptySeq
  <2> QED
    BY <2>1, <2>2, <2>3
<1>5. F = [i \in 1..n |-> Step(F, i)]
  <2> DEFINE k == [i \in 1..n |-> g[i]]
  <2>1. ASSUME NEW i \in 1..n
        PROVE  k[i] = Step(k, i)
    <3>1. k[i] = g[i]
      OBVIOUS
    <3>2. i # 1 => k[i - 1] = g[i - 1]
      <4>1. i # 1 => i - 1 \in 1..n
        BY <1>1
      <4> QED
        BY <4>1
    <3> HIDE DEF k
    <3> QED
      BY <1>4, <3>1, <3>2
  <2>2. k = [i \in 1..n |-> Step(k, i)]
    <3>1. k = [i \in 1..n |-> k[i]]
      OBVIOUS
    <3> HIDE DEF k, Step
    <3> QED
      BY <2>1, <3>1
  <2> HIDE DEF k
  <2>3. \E f : f = [i \in 1..n |-> Step(f, i)]
    BY <2>2
  <2> QED
    BY <2>3
<1>6. n # 0 => FlattenSeq(ss) = F[n]
  BY DEF FlattenSeq
<1> HIDE DEF F
<1>7. ASSUME NEW i \in 1..n
      PROVE  F[i] = Step(F, i)
  <2> HIDE DEF Step
  <2>1. [j \in 1..n |-> Step(F, j)][i] = Step(F, i)
    OBVIOUS
  <2> QED
    BY <1>5, <2>1
<1>8. 0..n \subseteq {i \in 0..n : i # 0 => F[i] = g[i]}
  <2> DEFINE Q == {i \in 0..n : i # 0 => F[i] = g[i]}
  <2>1. 0 \in Q
    BY <1>1
  <2>2. ASSUME NEW i \in 1..n, i - 1 \in Q
        PROVE  i \in Q
    <3>1. i - 1 # 0 => F[i - 1] = g[i - 1]
      BY <2>2
    <3>2. F[i] = g[i]
      BY <1>4, <1>7, <3>1
    <3> QED
      BY <1>1, <3>2
  <2> HIDE DEF Q
  <2>3. 0..n \subseteq Q
    BY <1>1, <2>1, <2>2, UpTo
  <2> QED
    BY <2>3 DEF Q
<1>9. FlattenSeq(ss) = g[n]
  <2>1. CASE n = 0
    <3>1. ss = <<>>
      BY <2>1, EmptySeq
    <3>2. FlattenSeq(ss) = ss
      BY <2>1 DEF FlattenSeq
    <3> QED
      BY <1>3, <2>1, <3>1, <3>2
  <2>2. CASE n # 0
    BY <1>1, <1>6, <1>8, <2>2
  <2> QED
    BY <2>1, <2>2
<1>10. FlatUpTo(g, ss, V)
  BY <1>3, <1>9 DEF FlatUpTo
<1> QED
  BY <1>10

\* A concatenation of sequences has their elements.
LEMMA FlatType ==
  ASSUME NEW A, NEW ss \in Seq(Seq(A))
  PROVE  FlattenSeq(ss) \in Seq(A)
<1>1. PICK f : FlatUpTo(f, ss, Seq(A))
  BY FlatBuilt
<1>2. Len(ss) \in 0..Len(ss)
  BY LenProperties
<1> QED
  BY <1>1, <1>2 DEF FlatUpTo

\* The concatenation of no sequences is empty.
LEMMA FlatEmpty == FlattenSeq(<<>>) = <<>>
BY DEF FlattenSeq

\* The concatenation of one sequence is the sequence.
LEMMA FlatOne ==
  ASSUME NEW A, NEW t \in Seq(A)
  PROVE  FlattenSeq(<<t>>) = t
<1> DEFINE ss == <<t>>
<1>1. ss \in Seq(Seq(A)) /\ Len(ss) = 1 /\ ss[1] = t
  OBVIOUS
<1> HIDE DEF ss
<1>2. PICK f : FlatUpTo(f, ss, Seq(A))
  BY <1>1, FlatBuilt
<1>3. f[0] = <<>> /\ f[1] = f[0] \o t /\ FlattenSeq(ss) = f[1]
  <2>1. 1 \in 1..Len(ss) /\ 1 - 1 = 0
    BY <1>1
  <2> QED
    BY <1>1, <1>2, <2>1 DEF FlatUpTo
<1>4. <<>> \o t = t
  BY ConcatEmptySeq
<1> QED
  BY <1>3, <1>4 DEF ss

\* The concatenation of two lists of sequences is that of both.
LEMMA FlatConcat ==
  ASSUME NEW A, NEW a \in Seq(Seq(A)), NEW b \in Seq(Seq(A))
  PROVE  FlattenSeq(a \o b) = FlattenSeq(a) \o FlattenSeq(b)
<1> DEFINE s == a \o b
           m == Len(a)
           n == Len(b)
           V == Seq(A)
           r == FlattenSeq(a)
<1>1. /\ s \in Seq(Seq(A)) /\ Len(s) = m + n
      /\ \A i \in 1..m : s[i] = a[i]
      /\ \A i \in 1..n : s[m + i] = b[i]
      /\ m \in Nat /\ n \in Nat
  BY ConcatParts
<1> HIDE DEF s
<1>2. PICK f : FlatUpTo(f, s, V)
  BY <1>1, FlatBuilt
<1>3. PICK g : FlatUpTo(g, a, V)
  BY FlatBuilt
<1>4. PICK h : FlatUpTo(h, b, V)
  BY FlatBuilt
<1>b. \A i \in 1..n : b[i] \in V
  OBVIOUS
<1> HIDE DEF m, n, V, r
<1>5. /\ \A i \in 0..m + n : f[i] \in V
      /\ f[0] = <<>>
      /\ \A i \in 1..m + n : f[i] = f[i - 1] \o s[i]
      /\ FlattenSeq(s) = f[m + n]
  BY <1>1, <1>2 DEF FlatUpTo
<1>6. /\ \A i \in 0..m : g[i] \in V
      /\ g[0] = <<>>
      /\ \A i \in 1..m : g[i] = g[i - 1] \o a[i]
      /\ r = g[m]
  BY <1>3 DEF FlatUpTo, m, r
<1>7. /\ \A i \in 0..n : h[i] \in V
      /\ h[0] = <<>>
      /\ \A i \in 1..n : h[i] = h[i - 1] \o b[i]
      /\ FlattenSeq(b) = h[n]
  BY <1>4 DEF FlatUpTo, n
<1>8. f[m] = r
  <2> DEFINE Q == {i \in 0..m : f[i] = g[i]}
  <2>1. 0 \in Q
    BY <1>1, <1>5, <1>6
  <2>2. ASSUME NEW i \in 1..m, i - 1 \in Q
        PROVE  i \in Q
    <3>1. i \in 1..m + n /\ i \in 0..m
      BY <1>1
    <3>2. f[i - 1] = g[i - 1] /\ s[i] = a[i]
      BY <1>1, <2>2
    <3>3. f[i] = g[i]
      BY <1>5, <1>6, <3>1, <3>2
    <3> QED
      BY <3>1, <3>3
  <2> HIDE DEF Q
  <2>3. 0..m \subseteq Q
    BY <1>1, <2>1, <2>2, UpTo
  <2>4. m \in Q
    BY <1>1, <2>3
  <2> QED
    BY <1>6, <2>4 DEF Q
<1>9. r \in V
  BY <1>1, <1>6
<1>10. f[m + n] = r \o h[n]
  <2> DEFINE Q == {i \in 0..n : f[m + i] = r \o h[i]}
  <2>1. 0 \in Q
    <3>1. r \o <<>> = r
      BY <1>9, ConcatEmptySeq DEF V
    <3>2. f[m + 0] = r \o h[0] /\ 0 \in 0..n
      <4>1. m + 0 = m /\ 0 \in 0..n
        BY <1>1
      <4> QED
        BY <1>7, <1>8, <3>1, <4>1, Zenon
    <3> QED
      BY <3>2
  <2>2. ASSUME NEW i \in 1..n, i - 1 \in Q
        PROVE  i \in Q
    <3>1. m + i \in 1..m + n /\ i \in 0..n /\ i - 1 \in 0..n
      BY <1>1
    <3> DEFINE j == m + i
               t == h[i - 1]
               e == b[i]
    <3>2. j \in 1..m + n /\ f[j - 1] = r \o t /\ s[j] = e
      BY <1>1, <2>2, <3>1
    <3>3. t \in V /\ e \in V
      BY <1>b, <1>7, <3>1
    <3>h. h[i] = t \o e
      BY <1>7
    <3> HIDE DEF j, t, e
    <3>4. f[j] = f[j - 1] \o s[j]
      BY <1>5, <3>2
    <3>5. (r \o t) \o e = r \o (t \o e)
      BY <1>9, <3>3, ConcatAssociative DEF V
    <3>6. f[j] = r \o h[i]
      BY <3>2, <3>h, <3>4, <3>5, Zenon
    <3> QED
      BY <3>1, <3>6 DEF j
  <2> HIDE DEF Q
  <2>3. 0..n \subseteq Q
    BY <1>1, <2>1, <2>2, UpTo
  <2>4. n \in Q
    BY <1>1, <2>3
  <2> QED
    BY <2>4 DEF Q
<1> QED
  BY <1>5, <1>7, <1>10 DEF s, r

\* One more sequence comes last.
LEMMA FlatAppend ==
  ASSUME NEW A, NEW ss \in Seq(Seq(A)), NEW t \in Seq(A)
  PROVE  FlattenSeq(Append(ss, t)) = FlattenSeq(ss) \o t
<1> DEFINE one == <<t>>
<1>1. one \in Seq(Seq(A))
  OBVIOUS
<1>2. Append(ss, t) = ss \o one
  BY AppendIsConcat
<1>3. FlattenSeq(one) = t
  BY FlatOne
<1> HIDE DEF one
<1>4. FlattenSeq(ss \o one) = FlattenSeq(ss) \o FlattenSeq(one)
  BY <1>1, FlatConcat
<1> QED
  BY <1>2, <1>3, <1>4, Zenon

\* The first sequence comes first.
LEMMA FlatHead ==
  ASSUME NEW A, NEW ss \in Seq(Seq(A)), ss # <<>>
  PROVE  FlattenSeq(ss) = Head(ss) \o FlattenSeq(Tail(ss))
<1> DEFINE one == <<Head(ss)>>
           rest == Tail(ss)
<1>1. Head(ss) \in Seq(A) /\ rest \in Seq(Seq(A)) /\ ss = one \o rest
  BY HeadTailProperties
<1>2. one \in Seq(Seq(A))
  BY <1>1
<1>3. FlattenSeq(one) = Head(ss)
  BY <1>1, FlatOne
<1> HIDE DEF one, rest
<1>4. FlattenSeq(one \o rest) = FlattenSeq(one) \o FlattenSeq(rest)
  BY <1>1, <1>2, FlatConcat
<1> QED
  BY <1>1, <1>3, <1>4, Zenon DEF rest
\* Every element of the concatenation is an element of one of the sequences,
\* the p-th the one at[p][2] of the sequence at[p][1], and of no two.
Pieces(at, r, ss, m) ==
  /\ \A p \in 1..Len(r) : /\ at[p][1] \in 1..m /\ at[p][2] \in 1..Len(ss[at[p][1]])
                          /\ r[p] = ss[at[p][1]][at[p][2]]
  /\ \A p, q \in 1..Len(r) : at[p][1] = at[q][1] /\ at[p][2] = at[q][2] => p = q
  /\ \A i \in 1..m : \A j \in 1..Len(ss[i]) : \E p \in 1..Len(r) : at[p] = <<i, j>>

\* The elements of one more sequence come behind the others.
LEMMA PiecesMore ==
  ASSUME NEW A, NEW ss \in Seq(Seq(A)), NEW m \in 1..Len(ss), NEW r \in Seq(A), NEW at,
         Pieces(at, r, ss, m - 1)
  PROVE  \E more : Pieces(more, r \o ss[m], ss, m)
<1> DEFINE n == Len(r)
           e == ss[m]
           l == Len(e)
           q == r \o e
           more == [p \in 1..n + l |-> IF p <= n THEN at[p] ELSE <<m, p - n>>]
<1>0. Len(ss) \in Nat /\ m \in Nat /\ e \in Seq(A)
  BY LenProperties
<1>1. n \in Nat /\ l \in Nat
  BY <1>0, LenProperties
<1>2. /\ Len(q) = n + l
      /\ \A p \in 1..n : q[p] = r[p]
      /\ \A p \in 1..l : q[n + p] = e[p]
  BY <1>0, ConcatParts
<1>3. /\ \A p \in 1..n : /\ at[p][1] \in 1..m - 1 /\ at[p][2] \in 1..Len(ss[at[p][1]])
                         /\ r[p] = ss[at[p][1]][at[p][2]]
      /\ \A p, k \in 1..n : at[p][1] = at[k][1] /\ at[p][2] = at[k][2] => p = k
      /\ \A i \in 1..m - 1 : \A j \in 1..Len(ss[i]) : \E p \in 1..n : at[p] = <<i, j>>
  BY DEF Pieces
<1>4. \A p \in 1..n + l : p \in 1..n \/ (p - n \in 1..l /\ p = n + (p - n) /\ ~(p <= n))
  BY <1>1
<1>5. \A p \in 1..n : more[p] = at[p]
  BY <1>1
<1>6. \A p \in 1..l : more[n + p] = <<m, p>>
  <2>1. ASSUME NEW p \in 1..l
        PROVE  more[n + p] = <<m, p>>
    <3>1. n + p \in 1..n + l /\ ~(n + p <= n) /\ (n + p) - n = p
      BY <1>1
    <3> QED
      BY <3>1
  <2> QED
    BY <2>1
<1> HIDE DEF n, l, q, more
<1>7. ASSUME NEW p \in 1..n + l
      PROVE  /\ more[p][1] \in 1..m /\ more[p][2] \in 1..Len(ss[more[p][1]])
             /\ q[p] = ss[more[p][1]][more[p][2]]
  <2>1. CASE p \in 1..n
    <3>1. at[p][1] \in 1..m
      BY <1>0, <1>3, <2>1
    <3> QED
      BY <1>2, <1>3, <1>5, <2>1, <3>1, Zenon
  <2>2. CASE p - n \in 1..l /\ p = n + (p - n)
    <3> DEFINE j == p - n
    <3>1. j \in 1..l /\ p = n + j
      BY <2>2
    <3> HIDE DEF j
    <3>2. more[p] = <<m, j>> /\ q[p] = e[j]
      BY <1>2, <1>6, <3>1, Zenon
    <3>3. more[p][1] = m /\ more[p][2] = j /\ m \in 1..m
      BY <1>0, <3>2
    <3> QED
      BY <3>1, <3>2, <3>3, Zenon DEF l
  <2> QED
    BY <1>4, <2>1, <2>2
<1>8. ASSUME NEW p \in 1..n + l, NEW k \in 1..n + l,
             more[p][1] = more[k][1], more[p][2] = more[k][2]
      PROVE  p = k
  <2>1. ASSUME NEW x \in 1..n, NEW y \in 1..n + l, y - n \in 1..l, y = n + (y - n)
        PROVE  more[x][1] # more[y][1]
    <3>1. more[x][1] \in 1..m - 1
      BY <1>3, <1>5
    <3>2. more[y] = <<m, y - n>>
      BY <1>6, <2>1
    <3>3. more[y][1] = m
      BY <3>2
    <3> QED
      BY <1>0, <3>1, <3>3
  <2>2. CASE p \in 1..n /\ k \in 1..n
    BY <1>3, <1>5, <1>8, <2>2
  <2>3. CASE p \notin 1..n /\ k \notin 1..n
    <3>1. /\ p - n \in 1..l /\ p = n + (p - n)
          /\ k - n \in 1..l /\ k = n + (k - n)
      BY <1>4, <2>3
    <3>2. more[p] = <<m, p - n>> /\ more[k] = <<m, k - n>>
      BY <1>6, <3>1
    <3>3. p - n = k - n
      <4>1. more[p][2] = p - n /\ more[k][2] = k - n
        BY <3>2
      <4> QED
        BY <1>8, <4>1, Zenon
    <3> QED
      BY <3>1, <3>3
  <2> QED
    BY <1>4, <1>8, <2>1, <2>2, <2>3
<1>9. ASSUME NEW i \in 1..m, NEW j \in 1..Len(ss[i])
      PROVE  \E p \in 1..n + l : more[p] = <<i, j>>
  <2>1. CASE i = m
    <3>1. n + j \in 1..n + l /\ j \in 1..l
      BY <1>1, <2>1 DEF l
    <3> QED
      BY <1>6, <2>1, <3>1
  <2>2. CASE i # m
    <3>1. i \in 1..m - 1
      BY <1>0, <2>2
    <3>2. PICK p \in 1..n : at[p] = <<i, j>>
      BY <1>3, <3>1
    <3>3. p \in 1..n + l
      BY <1>1
    <3> QED
      BY <1>5, <3>2, <3>3
  <2> QED
    BY <2>1, <2>2
<1>10. Pieces(more, q, ss, m)
  <2>1. Len(q) = n + l
    BY <1>2
  <2>2. \A p \in 1..Len(q) : /\ more[p][1] \in 1..m /\ more[p][2] \in 1..Len(ss[more[p][1]])
                            /\ q[p] = ss[more[p][1]][more[p][2]]
    BY <1>7, <2>1
  <2>3. \A p, k \in 1..Len(q) : more[p][1] = more[k][1] /\ more[p][2] = more[k][2] => p = k
    BY <1>8, <2>1
  <2>4. \A i \in 1..m : \A j \in 1..Len(ss[i]) : \E p \in 1..Len(q) : more[p] = <<i, j>>
    BY <1>9, <2>1
  <2> QED
    BY <2>2, <2>3, <2>4, Zenon DEF Pieces
<1> QED
  BY <1>10 DEF q

\* So FlattenSeq takes every element of every sequence once.
LEMMA FlatPieces ==
  ASSUME NEW A, NEW ss \in Seq(Seq(A))
  PROVE  \E at : Pieces(at, FlattenSeq(ss), ss, Len(ss))
<1> DEFINE n == Len(ss)
<1>0. PICK f : FlatUpTo(f, ss, Seq(A))
  BY FlatBuilt
<1>1. /\ \A i \in 0..n : f[i] \in Seq(A)
      /\ f[0] = <<>>
      /\ \A i \in 1..n : f[i] = f[i - 1] \o ss[i]
      /\ FlattenSeq(ss) = f[n]
  BY <1>0 DEF FlatUpTo
<1>2. n \in Nat /\ 0 \in 0..n /\ n \in 0..n
  BY LenProperties
<1> DEFINE Q == {m \in 0..n : \E at : Pieces(at, f[m], ss, m)}
<1>3. 0 \in Q
  <2>1. Pieces(<<>>, <<>>, ss, 0)
    BY DEF Pieces
  <2> QED
    BY <1>1, <1>2, <2>1
<1>4. ASSUME NEW m \in 1..n, m - 1 \in Q
      PROVE  m \in Q
  <2>1. PICK at : Pieces(at, f[m - 1], ss, m - 1)
    BY <1>4
  <2>2. m \in 0..n /\ m - 1 \in 0..n
    BY <1>2
  <2>3. f[m - 1] \in Seq(A) /\ f[m] = f[m - 1] \o ss[m]
    BY <1>1, <2>2
  <2>4. \E more : Pieces(more, f[m - 1] \o ss[m], ss, m)
    BY <2>1, <2>3, PiecesMore
  <2> QED
    BY <2>2, <2>3, <2>4
<1> HIDE DEF Q
<1>5. 0..n \subseteq Q
  BY <1>2, <1>3, <1>4, UpTo
<1> QED
  BY <1>1, <1>2, <1>5 DEF Q

\* A sequence without its element i.
LEMMA Removed ==
  ASSUME NEW S, NEW s \in Seq(S), NEW i \in 1..Len(s)
  PROVE  /\ RemoveAt(s, i) \in Seq(S)
         /\ Len(RemoveAt(s, i)) = Len(s) - 1
         /\ \A j \in 1..Len(s) - 1 : RemoveAt(s, i)[j] = IF j < i THEN s[j] ELSE s[j + 1]
<1> DEFINE before == SubSeq(s, 1, i - 1)
           behind == SubSeq(s, i + 1, Len(s))
<1>0. Len(s) \in Nat
  BY LenProperties
<1>1. before \in Seq(S) /\ Len(before) = i - 1 /\ \A j \in 1..i - 1 : before[j] = s[j]
  OBVIOUS
<1>2. /\ behind \in Seq(S) /\ Len(behind) = Len(s) - i
      /\ \A j \in 1..Len(s) - i : behind[j] = s[j + i]
  OBVIOUS
<1> HIDE DEF before, behind
<1>3. before \o behind \in Seq(S) /\ Len(before \o behind) = Len(s) - 1
  <2>1. Len(before) + Len(behind) = Len(s) - 1
    BY <1>0, <1>1, <1>2
  <2> QED
    BY <1>1, <1>2, <2>1, ConcatProperties
<1>4. ASSUME NEW j \in 1..Len(s) - 1
      PROVE  (before \o behind)[j] = IF j < i THEN s[j] ELSE s[j + 1]
  <2>1. (before \o behind)[j] = IF j =< Len(before) THEN before[j] ELSE behind[j - Len(before)]
    <3>1. j \in 1..Len(before) + Len(behind)
      BY <1>0, <1>1, <1>2
    <3> QED
      BY <1>1, <1>2, <3>1, ConcatProperties
  <2>2. CASE j < i
    BY <1>1, <2>1, <2>2
  <2>3. CASE j >= i
    <3>1. j - (i - 1) \in 1..Len(s) - i /\ j - (i - 1) + i = j + 1
      BY <2>3
    <3> QED
      BY <1>1, <1>2, <2>1, <2>3, <3>1
  <2>4. j < i \/ j >= i
    BY <1>0
  <2> QED
    BY <2>2, <2>3, <2>4
<1> QED
  BY <1>3, <1>4 DEF RemoveAt, before, behind

\* What is in either of two sequences is in one after the other.
LEMMA RangeOfConcat ==
  ASSUME NEW S, NEW s \in Seq(S), NEW t \in Seq(S)
  PROVE  Range(s \o t) = Range(s) \cup Range(t)
<1>1. /\ s \o t \in Seq(S) /\ Len(s \o t) = Len(s) + Len(t)
      /\ \A i \in 1..Len(s) : (s \o t)[i] = s[i]
      /\ \A i \in 1..Len(t) : (s \o t)[Len(s) + i] = t[i]
      /\ Len(s) \in Nat /\ Len(t) \in Nat
  BY ConcatParts
<1>2. /\ DOMAIN s = 1..Len(s) /\ DOMAIN t = 1..Len(t)
      /\ DOMAIN (s \o t) = 1..Len(s) + Len(t)
  BY <1>1, LenProperties
<1>3. ASSUME NEW i \in 1..Len(s) + Len(t)
      PROVE  i \in 1..Len(s) \/ (i - Len(s) \in 1..Len(t) /\ i = Len(s) + (i - Len(s)))
  BY <1>1
<1>4. ASSUME NEW i \in 1..Len(s)
      PROVE  i \in 1..Len(s) + Len(t)
  BY <1>1
<1>5. ASSUME NEW i \in 1..Len(t)
      PROVE  Len(s) + i \in 1..Len(s) + Len(t)
  BY <1>1
<1> DEFINE u == s \o t
<1>6. /\ \A i \in 1..Len(s) : u[i] = s[i]
      /\ \A i \in 1..Len(t) : u[Len(s) + i] = t[i]
      /\ DOMAIN u = 1..Len(s) + Len(t)
  BY <1>1, <1>2
<1> HIDE DEF u
<1>7. ASSUME NEW x \in Range(u)
      PROVE  x \in Range(s) \cup Range(t)
  <2>1. PICK i \in 1..Len(s) + Len(t) : x = u[i]
    BY <1>6 DEF Range
  <2>2. CASE i \in 1..Len(s)
    BY <1>2, <1>6, <2>1, <2>2 DEF Range
  <2>3. CASE i - Len(s) \in 1..Len(t) /\ i = Len(s) + (i - Len(s))
    <3> DEFINE j == i - Len(s)
    <3>1. j \in 1..Len(t) /\ i = Len(s) + j
      BY <2>3
    <3> HIDE DEF j
    <3>2. x = t[j]
      BY <1>6, <2>1, <3>1
    <3> QED
      BY <1>2, <3>1, <3>2 DEF Range
  <2> QED
    BY <1>3, <2>2, <2>3
<1>8. ASSUME NEW x \in Range(s)
      PROVE  x \in Range(u)
  <2>1. PICK i \in 1..Len(s) : x = s[i]
    BY <1>2 DEF Range
  <2> QED
    BY <1>4, <1>6, <2>1 DEF Range
<1>9. ASSUME NEW x \in Range(t)
      PROVE  x \in Range(u)
  <2>1. PICK i \in 1..Len(t) : x = t[i]
    BY <1>2 DEF Range
  <2> QED
    BY <1>5, <1>6, <2>1 DEF Range
<1> QED
  BY <1>7, <1>8, <1>9 DEF u

\* An element is in the range of its sequence.
LEMMA ContainsRange ==
  ASSUME NEW S, NEW s \in Seq(S), NEW e
  PROVE  Contains(s, e) <=> e \in Range(s)
BY LenProperties DEF Contains, Range

\* Without one of its elements, a sequence has the others.
LEMMA RemovedRange ==
  ASSUME NEW S, NEW s \in Seq(S), NEW i \in 1..Len(s)
  PROVE  /\ Range(RemoveAt(s, i)) \subseteq Range(s)
         /\ Range(s) = Range(RemoveAt(s, i)) \cup {s[i]}
<1> DEFINE r == RemoveAt(s, i)
           n == Len(s)
<1>1. /\ r \in Seq(S) /\ Len(r) = n - 1
      /\ \A j \in 1..n - 1 : r[j] = IF j < i THEN s[j] ELSE s[j + 1]
  BY Removed
<1>2. n \in Nat /\ DOMAIN s = 1..n /\ DOMAIN r = 1..n - 1
  BY <1>1, LenProperties
<1> HIDE DEF r, n
<1>0. i \in 1..n /\ n = Len(s)
  BY DEF n
<1>3. ASSUME NEW j \in 1..n - 1
      PROVE  r[j] \in Range(s)
  <2>1. j \in 1..n /\ j + 1 \in 1..n
    BY <1>2
  <2> QED
    BY <1>1, <1>2, <2>1 DEF Range
<1>4. ASSUME NEW j \in 1..n
      PROVE  s[j] \in Range(r) \cup {s[i]}
  <2>1. CASE j < i
    <3>1. j \in 1..n - 1
      BY <1>0, <1>2, <2>1
    <3> QED
      BY <1>1, <1>2, <2>1, <3>1 DEF Range
  <2>2. CASE j > i
    <3>1. j - 1 \in 1..n - 1 /\ ~(j - 1 < i) /\ (j - 1) + 1 = j
      BY <1>0, <1>2, <2>2
    <3>2. r[j - 1] = s[j]
      BY <1>1, <3>1
    <3> QED
      BY <1>2, <3>1, <3>2 DEF Range
  <2>3. j < i \/ j > i \/ j = i
    BY <1>0, <1>2
  <2> QED
    BY <2>1, <2>2, <2>3
<1>5. Range(r) \subseteq Range(s)
  BY <1>2, <1>3 DEF Range
<1>6. Range(s) \subseteq Range(r) \cup {s[i]}
  BY <1>2, <1>4 DEF Range
<1>7. s[i] \in Range(s)
  BY <1>0, <1>2 DEF Range
<1> QED
  BY <1>5, <1>6, <1>7 DEF r

\* The same, for the first of the elements that are e.
LEMMA RemoveFirstRange ==
  ASSUME NEW S, NEW s \in Seq(S), NEW e, Contains(s, e)
  PROVE  /\ RemoveFirst(s, e) \in Seq(S)
         /\ Range(s) = Range(RemoveFirst(s, e)) \cup {e}
<1> DEFINE I == {i \in 1..Len(s) : s[i] = e}
<1>1. RemoveFirst(s, e) = RemoveAt(s, Min(I)) /\ I # {}
  BY DEF Contains, RemoveFirst, SelectInSeq
<1>2. I \subseteq Nat
  BY LenProperties
<1> HIDE DEF I
<1>3. Min(I) \in I
  BY <1>1, <1>2, MinIsMember
<1>4. Min(I) \in 1..Len(s) /\ s[Min(I)] = e
  BY <1>3 DEF I
<1> QED
  BY <1>1, <1>4, Removed, RemovedRange
\* An element that is in S is all that is kept, unless another one is in S.
LEMMA OnlyIfSole ==
  ASSUME NEW A, NEW s \in Seq(A), NEW S, NEW i \in 1..Len(s), s[i] \in S
  PROVE  /\ (\E j \in 1..Len(s) \ {i} : s[j] \in S) => Len(Only(s, S)) # 1
         /\ ~(\E j \in 1..Len(s) \ {i} : s[j] \in S)
              => Len(Only(s, S)) = 1 /\ Only(s, S)[1] = s[i]
<1> DEFINE r == Only(s, S)
           n == Len(r)
<1>1. n \in Nat
  BY OnlyPicks, LenProperties
<1>2. ASSUME NEW j \in 1..Len(s) \ {i}, s[j] \in S
      PROVE  n # 1
  <2>1. n >= 2
    BY <1>2, OnlySome
  <2> HIDE DEF n
  <2> QED
    BY <1>1, <2>1
<1>3. ASSUME ~(\E j \in 1..Len(s) \ {i} : s[j] \in S)
      PROVE  n = 1 /\ r[1] = s[i]
  <2>1. Sole(i, s, S)
    BY <1>3 DEF Sole
  <2> QED
    BY <2>1, OnlyOne
<1> QED
  BY <1>2, <1>3
\* An element comes behind the second of two sequences.
ComesLast(a, b, e) == Append(a \o b, e) = a \o Append(b, e)

\* It always does.
LEMMA AppendConcat ==
  ASSUME NEW A, NEW a \in Seq(A), NEW b \in Seq(A), NEW e \in A
  PROVE  ComesLast(a, b, e)
<1> DEFINE one == <<e>>
<1>1. one \in Seq(A)
  OBVIOUS
<1>2. a \o b \in Seq(A)
  BY ConcatProperties
<1>3. Append(a \o b, e) = (a \o b) \o one
  BY <1>2, AppendIsConcat
<1>4. Append(b, e) = b \o one
  BY AppendIsConcat
<1> HIDE DEF one
<1>5. (a \o b) \o one = a \o (b \o one)
  BY <1>1, ConcatAssociative
<1> QED
  BY <1>3, <1>4, <1>5, Zenon DEF ComesLast
-----------------------------------------------------------------------------
(* Beginnings and ends *)

\* c comes behind b in a.  (A name, because the provers take a concatenation
\* apart into its elements.)
Joined(a, b, c) == a = b \o c

\* What is moved from the end to the beginning.
LEMMA JoinedShift ==
  ASSUME NEW A, NEW a, NEW b \in Seq(A), NEW c, NEW d \in Seq(A), NEW e \in Seq(A), NEW f,
         Joined(a, b, c), Joined(c, d, e), Joined(f, b, d)
  PROVE  Joined(a, f, e)
<1>1. (b \o d) \o e = b \o (d \o e)
  BY ConcatAssociative
<1> QED
  BY <1>1, Zenon DEF Joined

\* What both the whole and its end get more.
LEMMA JoinedMore ==
  ASSUME NEW A, NEW a, NEW b \in Seq(A), NEW c \in Seq(A), NEW d \in Seq(A), NEW more, NEW end,
         Joined(a, b, c), Joined(more, a, d), Joined(end, c, d)
  PROVE  Joined(more, b, end)
<1>1. (b \o c) \o d = b \o (c \o d)
  BY ConcatAssociative
<1> QED
  BY <1>1, Zenon DEF Joined

\* A beginning is what something comes behind.
LEMMA JoinedPrefix ==
  ASSUME NEW A, NEW a \in Seq(A), NEW b \in Seq(A), NEW c \in Seq(A), Joined(a, b, c)
  PROVE  IsPrefix(b, a)
<1>1. /\ Len(a) = Len(b) + Len(c) /\ Len(b) \in Nat /\ Len(c) \in Nat
      /\ \A i \in 1..Len(b) : a[i] = b[i]
  BY ConcatParts DEF Joined
<1>2. SubSeq(b, 1, Len(b)) = SubSeq(a, 1, Len(b))
  BY <1>1
<1> QED
  BY <1>1, <1>2 DEF IsPrefix

\* And conversely.
LEMMA PrefixJoined ==
  ASSUME NEW A, NEW a \in Seq(A), NEW b \in Seq(A), IsPrefix(b, a)
  PROVE  SubSeq(a, Len(b) + 1, Len(a)) \in Seq(A)
         /\ Joined(a, b, SubSeq(a, Len(b) + 1, Len(a)))
<1> DEFINE c == SubSeq(a, Len(b) + 1, Len(a))
<1>1. /\ Len(b) \in Nat /\ Len(a) \in Nat /\ Len(b) <= Len(a)
      /\ SubSeq(b, 1, Len(b)) = SubSeq(a, 1, Len(b))
  BY LenProperties DEF IsPrefix
<1>2. \A i \in 1..Len(a) : a[i] \in A
  OBVIOUS
<1>3. /\ c \in Seq(A) /\ Len(c) = Len(a) - Len(b)
      /\ \A i \in 1..Len(a) - Len(b) : c[i] = a[Len(b) + i]
  BY <1>1, <1>2
<1>4. \A i \in 1..Len(b) : b[i] = a[i]
  <2>1. ASSUME NEW i \in 1..Len(b)
        PROVE  b[i] = a[i]
    <3>1. SubSeq(b, 1, Len(b))[i] = b[i] /\ SubSeq(a, 1, Len(b))[i] = a[i]
      BY <1>1
    <3> QED
      BY <1>1, <3>1
  <2> QED
    BY <2>1
<1> HIDE DEF c
<1>5. a = b \o c
  <2> DEFINE d == b \o c
  <2>1. /\ d \in Seq(A) /\ Len(d) = Len(b) + Len(c)
        /\ \A i \in 1..Len(b) : d[i] = b[i]
        /\ \A i \in 1..Len(c) : d[Len(b) + i] = c[i]
    BY <1>3, ConcatParts
  <2> HIDE DEF d
  <2>2. ASSUME NEW i \in 1..Len(a)
        PROVE  a[i] = d[i]
    <3>1. CASE i <= Len(b)
      BY <1>1, <1>4, <2>1, <3>1
    <3>2. CASE ~(i <= Len(b))
      <4>1. i - Len(b) \in 1..Len(a) - Len(b) /\ Len(b) + (i - Len(b)) = i
        BY <1>1, <3>2
      <4> QED
        BY <1>3, <2>1, <4>1
    <3> QED
      BY <3>1, <3>2
  <2>3. Len(d) = Len(a)
    BY <1>1, <1>3, <2>1
  <2>4. a = d
    BY <2>1, <2>2, <2>3
  <2> QED
    BY <2>4 DEF d
<1> QED
  BY <1>3, <1>5 DEF Joined, c

\* The rest of a sequence, from some place on and from a later one.
LEMMA RestJoined ==
  ASSUME NEW A, NEW s \in Seq(A), NEW i \in 0..Len(s), NEW j \in i..Len(s)
  PROVE  /\ SubSeq(s, i + 1, j) \in Seq(A) /\ SubSeq(s, j + 1, Len(s)) \in Seq(A)
         /\ Joined(SubSeq(s, i + 1, Len(s)), SubSeq(s, i + 1, j), SubSeq(s, j + 1, Len(s)))
<1> DEFINE a == SubSeq(s, i + 1, Len(s))
           b == SubSeq(s, i + 1, j)
           c == SubSeq(s, j + 1, Len(s))
<1>1. Len(s) \in Nat /\ i \in Nat /\ j \in Nat /\ i <= j /\ j <= Len(s)
  BY LenProperties
<1>2. \A k \in 1..Len(s) : s[k] \in A
  OBVIOUS
<1>3. /\ a \in Seq(A) /\ Len(a) = Len(s) - i
      /\ \A k \in 1..Len(s) - i : a[k] = s[i + k]
  BY <1>1, <1>2
<1>4. /\ b \in Seq(A) /\ Len(b) = j - i
      /\ \A k \in 1..j - i : b[k] = s[i + k]
  BY <1>1, <1>2
<1>5. /\ c \in Seq(A) /\ Len(c) = Len(s) - j
      /\ \A k \in 1..Len(s) - j : c[k] = s[j + k]
  BY <1>1, <1>2
<1> HIDE DEF a, b, c
<1>6. a = b \o c
  <2> DEFINE d == b \o c
  <2>1. /\ d \in Seq(A) /\ Len(d) = Len(b) + Len(c)
        /\ \A k \in 1..Len(b) : d[k] = b[k]
        /\ \A k \in 1..Len(c) : d[Len(b) + k] = c[k]
    <3>1. b \in Seq(A) /\ c \in Seq(A)
      BY <1>4, <1>5
    <3> QED
      BY <3>1, ConcatParts
  <2> HIDE DEF d
  <2>2. ASSUME NEW k \in 1..Len(a)
        PROVE  a[k] = d[k]
    <3>1. CASE k <= Len(b)
      BY <1>1, <1>3, <1>4, <2>1, <3>1
    <3>2. CASE ~(k <= Len(b))
      <4>1. /\ k - Len(b) \in 1..Len(c) /\ Len(b) + (k - Len(b)) = k
            /\ j + (k - Len(b)) = i + k /\ k \in 1..Len(s) - i
        BY <1>1, <1>3, <1>4, <1>5, <3>2
      <4>2. d[k] = c[k - Len(b)]
        BY <2>1, <4>1
      <4>3. c[k - Len(b)] = s[i + k]
        BY <1>5, <4>1
      <4> QED
        BY <1>3, <4>1, <4>2, <4>3
    <3> QED
      BY <3>1, <3>2
  <2>3. Len(d) = Len(a)
    BY <1>1, <1>3, <1>4, <1>5, <2>1
  <2>4. a = d
    <3>1. a \in Seq(A) /\ d \in Seq(A)
      BY <1>3, <2>1
    <3> QED
      BY <2>2, <2>3, <3>1, SeqEqual
  <2> QED
    BY <2>4 DEF d
<1> QED
  BY <1>4, <1>5, <1>6 DEF Joined, a, b, c
\* What is within the first of two sequences.
WithinFirst(s, t, i, j) == SubSeq(s \o t, i + 1, j) = SubSeq(s, i + 1, j)

\* Nothing else is looked at.
LEMMA FirstOfConcat ==
  ASSUME NEW A, NEW s \in Seq(A), NEW t \in Seq(A), NEW i \in 0..Len(s), NEW j \in i..Len(s)
  PROVE  WithinFirst(s, t, i, j)
<1> DEFINE st == s \o t
           a == SubSeq(st, i + 1, j)
           b == SubSeq(s, i + 1, j)
<1>1. /\ st \in Seq(A) /\ Len(st) = Len(s) + Len(t) /\ Len(s) \in Nat /\ Len(t) \in Nat
      /\ \A k \in 1..Len(s) : st[k] = s[k]
  BY ConcatParts
<1> HIDE DEF st
<1>2. i \in Nat /\ j \in Nat /\ i <= j /\ j <= Len(s) /\ j <= Len(st)
  BY <1>1
<1>3. \A k \in 1..Len(st) : st[k] \in A
  BY <1>1
<1>4. \A k \in 1..Len(s) : s[k] \in A
  OBVIOUS
<1>5. /\ a \in Seq(A) /\ Len(a) = j - i
      /\ \A k \in 1..j - i : a[k] = st[i + k]
  BY <1>1, <1>2, <1>3
<1>6. /\ b \in Seq(A) /\ Len(b) = j - i
      /\ \A k \in 1..j - i : b[k] = s[i + k]
  BY <1>2, <1>4
<1> HIDE DEF a, b
<1>7. ASSUME NEW k \in 1..Len(a)
      PROVE  a[k] = b[k]
  <2>1. k \in 1..j - i /\ i + k \in 1..Len(s)
    BY <1>2, <1>5
  <2> QED
    BY <1>1, <1>5, <1>6, <2>1
<1>8. a = b
  <2>1. a \in Seq(A) /\ b \in Seq(A) /\ Len(a) = Len(b)
    BY <1>5, <1>6
  <2> QED
    BY <1>7, <2>1, SeqEqual
<1> QED
  BY <1>8 DEF WithinFirst, a, b, st
=============================================================================
