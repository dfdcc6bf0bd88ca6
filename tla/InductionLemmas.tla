-------------------------- MODULE InductionLemmas --------------------------
(***************************************************************************)
(* Facts about the natural numbers and about parts of sequences that the   *)
(* proofs about data rest on.  The induction theorem of the library takes  *)
(* a predicate as a parameter; here the predicate is the set of the        *)
(* numbers it holds of.                                                    *)
(***************************************************************************)
EXTENDS Integers, Sequences, FiniteSetTheorems, WellFoundedInduction, TLAPS

\* A set of natural numbers that is not empty has a least element.
LEMMA NatMinimum ==
  ASSUME NEW T \in SUBSET Nat, T # {}
  PROVE  \E n \in T : \A m \in T : n <= m
<1>1. IsWellFoundedOn(OpToRel(<,Nat), Nat)
  BY NatLessThanWellFounded
<1> DEFINE R == OpToRel(<,Nat)
<1>2. \A x, y \in Nat : x < y => <<x, y>> \in R
  BY DEF OpToRel
<1>3. \E x \in T : \A y \in T : ~ (<<y, x>> \in R)
  <2> HIDE DEF R
  <2> QED BY <1>1, WFMin DEF R
<1>4. PICK n \in T : \A y \in T : ~ (<<y, n>> \in R)
  BY <1>3
<1>5. ASSUME NEW m \in T PROVE n <= m
  <2>1. ~ (m < n)
    BY <1>2, <1>4
  <2> QED
    BY <2>1
<1> QED
  BY <1>5

\* Induction: a set that holds 0 and the successor of each of its numbers
\* holds all of them.
LEMMA NatSetInduction ==
  ASSUME NEW S, 0 \in S, \A n \in Nat : n \in S => n + 1 \in S
  PROVE  Nat \subseteq S
<1> DEFINE T == {n \in Nat : n \notin S}
<1> SUFFICES ASSUME T # {} PROVE FALSE
  OBVIOUS
<1>1. PICK n \in T : \A m \in T : n <= m
  BY NatMinimum
<1>2. n # 0 /\ n - 1 \in Nat
  BY <1>1
<1>3. n - 1 \notin T
  BY <1>1, <1>2
<1> QED
  BY <1>1, <1>2, <1>3

\* The largest element of a finite set of numbers: a non-empty set of numbers
\* up to n has one.
LEMMA NatMaximum ==
  ASSUME NEW n \in Nat, NEW T \in SUBSET (0..n), T # {}
  PROVE  \E m \in T : \A k \in T : k <= m
<1> DEFINE U == {k \in 0..n : \A j \in T : j <= k}
<1>1. U # {} /\ U \in SUBSET Nat
  <2>1. n \in U
    OBVIOUS
  <2> QED
    BY <2>1
<1>2. PICK m \in U : \A k \in U : m <= k
  BY <1>1, NatMinimum
<1>3. m \in T
  <2> SUFFICES ASSUME m \notin T PROVE FALSE
    OBVIOUS
  <2>1. \A j \in T : j \in 0..n /\ j <= m /\ j # m
    BY <1>2
  <2>2. PICK j \in T : TRUE
    OBVIOUS
  <2>3. m # 0 /\ m \in 0..n
    BY <2>1, <2>2
  <2>4. m - 1 \in U
    BY <2>1, <2>3
  <2> QED
    BY <1>2, <2>3, <2>4
<1> QED
  BY <1>2, <1>3

\* The powers of two: the subsets of 1..(n + 1) are those of 1..n, with n + 1
\* and without it.
LEMMA PowerStep ==
  ASSUME NEW n \in Nat
  PROVE  2^n \in Nat /\ 2^(n + 1) = 2 * 2^n
<1> DEFINE A == SUBSET (1..n)
           B == {T \cup {n + 1} : T \in A}
<1>1. /\ IsFiniteSet(1..n) /\ Cardinality(1..n) = n
      /\ IsFiniteSet(1..(n + 1)) /\ Cardinality(1..(n + 1)) = n + 1
  BY FS_Interval
<1>2. /\ IsFiniteSet(A) /\ Cardinality(A) = 2^n
      /\ Cardinality(SUBSET (1..(n + 1))) = 2^(n + 1)
  BY <1>1, FS_SUBSET
<1>3. Cardinality(A) \in Nat
  BY <1>2, FS_CardinalityType
<1>4. IsFiniteSet(B) /\ Cardinality(B) = Cardinality(A)
  <2> DEFINE f == [T \in A |-> T \cup {n + 1}]
  <2>1. f \in Bijection(A, B)
    <3>1. \A S, T \in A : f[S] = f[T] => S = T
      <4> SUFFICES ASSUME NEW S \in A, NEW T \in A, f[S] = f[T] PROVE S = T
        OBVIOUS
      <4>1. n + 1 \notin S /\ n + 1 \notin T
        OBVIOUS
      <4>2. S \cup {n + 1} = T \cup {n + 1}
        OBVIOUS
      <4> QED
        BY <4>1, <4>2
    <3>2. f \in [A -> B] /\ \A b \in B : \E T \in A : f[T] = b
      OBVIOUS
    <3> QED
      BY <3>1, <3>2, Zenon DEF Bijection, Injection, Surjection, IsInjective
  <2>2. ExistsBijection(A, B)
    BY <2>1 DEF ExistsBijection
  <2> QED
    BY <1>2, <2>2, FS_Bijection
<1>5. SUBSET (1..(n + 1)) = A \cup B
  <2>1. ASSUME NEW T \in SUBSET (1..(n + 1)) PROVE T \in A \cup B
    <3>1. CASE n + 1 \in T
      <4>1. T \ {n + 1} \in A /\ T = (T \ {n + 1}) \cup {n + 1}
        BY <3>1
      <4> QED
        BY <4>1
    <3>2. CASE n + 1 \notin T
      BY <3>2
    <3> QED
      BY <3>1, <3>2
  <2>2. A \subseteq SUBSET (1..(n + 1))
    OBVIOUS
  <2>3. ASSUME NEW T \in A PROVE T \cup {n + 1} \in SUBSET (1..(n + 1))
    OBVIOUS
  <2>4. ASSUME NEW T \in B PROVE T \in SUBSET (1..(n + 1))
    BY <2>3
  <2> HIDE DEF A, B
  <2> QED
    BY <2>1, <2>2, <2>4
<1>6. A \cap B = {}
  OBVIOUS
<1>7. Cardinality(A \cup B) = Cardinality(A) + Cardinality(B)
  <2>1. Cardinality(A \cup B) = Cardinality(A) + Cardinality(B) - Cardinality(A \cap B)
    BY <1>2, <1>4, FS_Union
  <2> HIDE DEF A, B
  <2> QED
    BY <1>3, <1>4, <1>6, <2>1, FS_EmptySet
<1> HIDE DEF A, B
<1>8. 2^(n + 1) = Cardinality(A) + Cardinality(A)
  BY <1>2, <1>4, <1>5, <1>7, Zenon
<1>9. Cardinality(A) + Cardinality(A) = 2 * Cardinality(A)
  BY <1>3
<1> QED
  BY <1>2, <1>3, <1>8, <1>9, Zenon
\* What a recursion collects that follows g through S until it meets a stop.
Follows(f, S, stop, g) == f = [b \in S |-> IF b \in stop THEN {} ELSE {b} \cup f[g[b]]]

\* A recursion that follows a function through a set until it meets a stop has a
\* solution: the elements that every closed set has.
LEMMA WalkExists ==
  ASSUME NEW S, NEW stop, NEW g, \A b \in S \ stop : g[b] \in S
  PROVE  \E f : Follows(f, S, stop, g)
<1> DEFINE Closed(T) == \A x \in T : x \notin stop /\ (g[x] \notin stop => g[x] \in T)
           Good(b, T) == Closed(T) /\ (b \notin stop => b \in T)
           Reach(b) == {c \in S : \A T \in SUBSET S : Good(b, T) => c \in T}
           f == [b \in S |-> Reach(b)]
<1>1. ASSUME NEW b \in S, b \in stop PROVE Reach(b) = {}
  <2>1. {} \in SUBSET S /\ Good(b, {})
    BY <1>1
  <2> QED BY <2>1, Zenon
<1>2. ASSUME NEW b \in S, b \notin stop PROVE Reach(b) = {b} \cup Reach(g[b])
  <2>1. g[b] \in S
    BY <1>2
  <2>2. b \in Reach(b)
    BY <1>2
  <2>3. ASSUME NEW c \in Reach(g[b]) PROVE c \in Reach(b)
    <3>1. ASSUME NEW T \in SUBSET S, Good(b, T) PROVE Good(g[b], T)
      BY <1>2, <3>1
    <3> HIDE DEF Good
    <3> QED BY <3>1
  <2>4. ASSUME NEW c \in Reach(b), c # b PROVE c \in Reach(g[b])
    <3> SUFFICES ASSUME NEW T \in SUBSET S, Good(g[b], T) PROVE c \in T
      OBVIOUS
    <3>1. T \cup {b} \in SUBSET S
      OBVIOUS
    <3>2. Good(b, T \cup {b})
      BY <1>2
    <3>3. c \in T \cup {b}
      <4> HIDE DEF Good
      <4> QED BY <3>1, <3>2
    <3> QED BY <2>4, <3>3
  <2> HIDE DEF Reach
  <2> QED BY <2>2, <2>3, <2>4
<1> HIDE DEF Reach
<1>3. \A b \in S : f[b] = IF b \in stop THEN {} ELSE {b} \cup f[g[b]]
  <2> TAKE b \in S
  <2> QED BY <1>1, <1>2
<1>4. f = [b \in S |-> f[b]]
  OBVIOUS
<1> HIDE DEF f
<1>5. Follows(f, S, stop, g)
  BY <1>3, <1>4 DEF Follows
<1> QED
  BY <1>5



-----------------------------------------------------------------------------
(* Descents: from a number along links to smaller ones. *)

\* The descents of all numbers up to n, as a recursive function.
Descents(f, n, s) ==
  f = [g \in 1..n |-> <<g>> \o IF s[g] \in 1..(g - 1) THEN f[s[g]] ELSE <<>>]

\* The sequence c goes from g along s as long as s goes down.
DescendsFrom(c, g, n, s) ==
  /\ c \in Seq(1..n) /\ Len(c) \in Nat /\ Len(c) > 0 /\ c[1] = g
  /\ \A i \in 1..(Len(c) - 1) : i \in 1..Len(c) /\ i + 1 \in 1..Len(c) /\ c[i + 1] = s[c[i]] /\ c[i + 1] < c[i]
  /\ s[c[Len(c)]] \notin 1..(c[Len(c)] - 1)

\* Nothing after one element.
LEMMA EmptyTail ==
  ASSUME NEW x
  PROVE  <<x>> \o <<>> = <<x>>
<1>1. <<x>> \in Seq({x}) /\ <<>> \in Seq({x})
  OBVIOUS
<1> QED
  BY <1>1

\* The recursion is well founded.
LEMMA DescentsExist ==
  ASSUME NEW s, NEW n \in Nat
  PROVE  \E f : Descents(f, n, s)
<1> DEFINE S == {m \in Nat : \E f : Descents(f, m, s)}
<1>1. 0 \in S
  <2>1. Descents([g \in {} |-> 0], 0, s)
    BY DEF Descents
  <2> QED BY <2>1
<1>2. ASSUME NEW m \in Nat, m \in S PROVE m + 1 \in S
  <2>1. PICK f : Descents(f, m, s)
    BY <1>2
  <2>2. PICK top : top = <<m + 1>> \o IF s[m + 1] \in 1..m THEN f[s[m + 1]] ELSE <<>>
    OBVIOUS
  <2>3. PICK h : h = [g \in 1..(m + 1) |-> IF g = m + 1 THEN top ELSE f[g]]
    OBVIOUS
  <2>4. \A g \in 1..m : g \in 1..(m + 1) /\ g # m + 1 /\ h[g] = f[g]
    BY <2>3
  <2>5. ASSUME NEW g \in 1..(m + 1)
        PROVE  h[g] = <<g>> \o IF s[g] \in 1..(g - 1) THEN h[s[g]] ELSE <<>>
    <3>1. CASE g = m + 1
      <4>1. (m + 1) - 1 = m
        OBVIOUS
      <4>2. h[m + 1] = top
        BY <2>3
      <4>3. s[m + 1] \in 1..m => h[s[m + 1]] = f[s[m + 1]]
        BY <2>4
      <4> QED BY <2>2, <3>1, <4>1, <4>2, <4>3
    <3>2. CASE g # m + 1
      <4>1. g \in 1..m
        BY <3>2
      <4>2. s[g] \in 1..(g - 1) => s[g] \in 1..m
        BY <4>1
      <4>3. f[g] = <<g>> \o IF s[g] \in 1..(g - 1) THEN f[s[g]] ELSE <<>>
        BY <2>1, <4>1 DEF Descents
      <4> QED BY <2>4, <4>1, <4>2, <4>3
    <3> QED BY <3>1, <3>2
  <2>6. h = [g \in 1..(m + 1) |-> h[g]]
    BY <2>3
  <2>7. Descents(h, m + 1, s)
    BY <2>5, <2>6, Zenon DEF Descents
  <2> QED BY <2>7
<1> HIDE DEF S
<1>3. Nat \subseteq S
  BY <1>1, <1>2, NatSetInduction
<1> QED
  BY <1>3 DEF S

\* Each value of the recursion descends.
LEMMA DescentsDescend ==
  ASSUME NEW s, NEW n \in Nat, NEW f, Descents(f, n, s), NEW g \in 1..n
  PROVE  DescendsFrom(f[g], g, n, s)
<1> DEFINE S == {m \in Nat : \A x \in 1..n : x <= m => DescendsFrom(f[x], x, n, s)}
<1>1. 0 \in S
  OBVIOUS
<1>2. ASSUME NEW m \in Nat, m \in S PROVE m + 1 \in S
  <2> SUFFICES ASSUME NEW x \in 1..n, x <= m + 1 PROVE DescendsFrom(f[x], x, n, s)
    OBVIOUS
  <2>1. f[x] = <<x>> \o IF s[x] \in 1..(x - 1) THEN f[s[x]] ELSE <<>>
    BY DEF Descents
  <2>2. CASE s[x] \notin 1..(x - 1)
    <3>1. f[x] = <<x>>
      <4>1. f[x] = <<x>> \o <<>>
        BY <2>1, <2>2
      <4> QED BY <4>1, EmptyTail
    <3> QED BY <2>2, <3>1 DEF DescendsFrom
  <2>3. CASE s[x] \in 1..(x - 1)
    <3>1. PICK y \in 1..n : y = s[x] /\ y < x
      BY <2>3
    <3>2. y <= m
      BY <3>1
    <3>3. PICK c : c = f[y]
      OBVIOUS
    <3>4. DescendsFrom(c, y, n, s)
      BY <1>2, <3>2, <3>3
    <3>5. PICK l \in Nat : l = Len(c)
      BY <3>4 DEF DescendsFrom
    <3>6. /\ c \in Seq(1..n) /\ l > 0 /\ c[1] = y
          /\ \A i \in 1..(l - 1) : i \in 1..l /\ i + 1 \in 1..l /\ c[i + 1] = s[c[i]] /\ c[i + 1] < c[i]
          /\ s[c[l]] \notin 1..(c[l] - 1)
      BY <3>4, <3>5 DEF DescendsFrom
    <3>7. PICK d : d = <<x>> \o c
      OBVIOUS
    <3>8. f[x] = d
      BY <2>1, <2>3, <3>1, <3>3, <3>7
    <3>9. d \in Seq(1..n) /\ Len(d) = l + 1 /\ d[1] = x /\ \A i \in 1..l : d[i + 1] = c[i]
      BY <3>5, <3>6, <3>7
    <3>10. ASSUME NEW i \in 1..l
           PROVE  i \in 1..(l + 1) /\ i + 1 \in 1..(l + 1) /\ d[i + 1] = s[d[i]] /\ d[i + 1] < d[i]
      <4>1. CASE i = 1
        BY <3>1, <3>6, <3>9, <4>1
      <4>2. CASE i # 1
        <5>1. PICK j \in 1..(l - 1) : i = j + 1
          <6>1. i - 1 \in 1..(l - 1) /\ i = (i - 1) + 1
            BY <4>2
          <6> QED BY <6>1
        <5>2. d[i] = c[j] /\ d[i + 1] = c[j + 1]
          BY <3>9, <5>1
        <5> QED BY <3>6, <5>1, <5>2
      <4> QED BY <4>1, <4>2
    <3>11. d[l + 1] = c[l]
      BY <3>6, <3>9
    <3>12. Len(d) - 1 = l /\ Len(d) \in Nat /\ Len(d) > 0
      BY <3>9
    <3>13. DescendsFrom(d, x, n, s)
      BY <3>6, <3>9, <3>10, <3>11, <3>12 DEF DescendsFrom
    <3> QED BY <3>8, <3>13
  <2> QED BY <2>2, <2>3
<1> HIDE DEF S
<1>3. Nat \subseteq S
  BY <1>1, <1>2, NatSetInduction
<1>4. n \in S
  BY <1>3
<1> QED
  BY <1>4 DEF S


\* Numbers that go down step by step go down.
LEMMA StepsDown ==
  ASSUME NEW l \in Nat, NEW c, \A i \in 1..l : c[i] \in Nat, \A i \in 1..(l - 1) : c[i + 1] < c[i]
  PROVE  \A i, j \in 1..l : i < j => c[j] < c[i]
<1> DEFINE S == {d \in Nat : \A i \in 1..l : i + d + 1 \in 1..l => c[i + d + 1] < c[i]}
<1>1. 0 \in S
  <2> SUFFICES ASSUME NEW i \in 1..l, i + 0 + 1 \in 1..l PROVE c[i + 0 + 1] < c[i]
    OBVIOUS
  <2>1. i \in 1..(l - 1) /\ i + 0 + 1 = i + 1
    OBVIOUS
  <2> QED BY <2>1
<1>2. ASSUME NEW d \in Nat, d \in S PROVE d + 1 \in S
  <2> SUFFICES ASSUME NEW i \in 1..l, i + (d + 1) + 1 \in 1..l PROVE c[i + (d + 1) + 1] < c[i]
    OBVIOUS
  <2>1. PICK j \in 1..(l - 1) : j = i + d + 1
    OBVIOUS
  <2>2. j \in 1..l /\ j + 1 \in 1..l /\ j + 1 = i + (d + 1) + 1
    BY <2>1
  <2>3. c[j] < c[i] /\ c[j + 1] < c[j]
    BY <1>2, <2>1, <2>2
  <2>4. c[j] \in Nat /\ c[i] \in Nat /\ c[j + 1] \in Nat
    BY <2>2
  <2>5. c[j + 1] < c[i]
    BY <2>3, <2>4
  <2> QED BY <2>2, <2>5
<1> HIDE DEF S
<1>3. Nat \subseteq S
  BY <1>1, <1>2, NatSetInduction
<1> TAKE i, j \in 1..l
<1> HAVE i < j
<1>4. PICK d \in Nat : j = i + d + 1
  <2>1. j - i - 1 \in Nat /\ j = i + (j - i - 1) + 1
    OBVIOUS
  <2> QED BY <2>1
<1>5. d \in S
  BY <1>3
<1> QED
  BY <1>4, <1>5 DEF S

-----------------------------------------------------------------------------
(* Recursions along 0..n. *)

\* What holds at 0 and is handed on from each number to the next holds of all.
LEMMA RecursionStays ==
  ASSUME NEW n \in Nat, NEW V, NEW f, f[0] \in V, \A e \in 1..n : f[e - 1] \in V => f[e] \in V
  PROVE  \A e \in 0..n : f[e] \in V
<1> DEFINE S == {m \in Nat : m <= n => f[m] \in V}
<1>1. 0 \in S
  OBVIOUS
<1>2. ASSUME NEW m \in Nat, m \in S PROVE m + 1 \in S
  <2>1. CASE m + 1 <= n
    <3>1. m + 1 \in 1..n /\ (m + 1) - 1 = m /\ m <= n
      BY <2>1
    <3> QED BY <1>2, <3>1
  <2>2. CASE ~(m + 1 <= n)
    BY <2>2
  <2> QED BY <2>1, <2>2
<1> HIDE DEF S
<1>3. Nat \subseteq S
  BY <1>1, <1>2, NatSetInduction
<1> QED
  BY <1>3 DEF S

\* A recursion that takes each value from the one before, by F, has a solution
\* within V.
Solvable(n, V, z, F) ==
  \E f \in [0..n -> V] : f[0] = z /\ \A e \in 1..n : f[e] = F[<<e, f[e - 1]>>]

LEMMA RecursionExists ==
  ASSUME NEW n \in Nat, NEW V, NEW z \in V, NEW F, \A e \in 1..n, x \in V : F[<<e, x>>] \in V
  PROVE  Solvable(n, V, z, F)
<1> DEFINE Solved(m) == \E f \in [0..m -> V] : f[0] = z /\ \A e \in 1..m : f[e] = F[<<e, f[e - 1]>>]
           S == {m \in Nat : m <= n => Solved(m)}
<1>1. 0 \in S
  <2>1. PICK f : f = [e \in 0..0 |-> z]
    OBVIOUS
  <2>2. f \in [0..0 -> V] /\ f[0] = z /\ \A e \in 1..0 : f[e] = F[<<e, f[e - 1]>>]
    BY <2>1
  <2>3. Solved(0)
    BY <2>2
  <2> HIDE DEF Solved
  <2> QED BY <2>3
<1>2. ASSUME NEW m \in Nat, m \in S PROVE m + 1 \in S
  <2> SUFFICES ASSUME m + 1 <= n PROVE Solved(m + 1)
    <3> HIDE DEF Solved
    <3> QED OBVIOUS
  <2>0. Solved(m)
    <3>1. m <= n
      OBVIOUS
    <3> HIDE DEF Solved
    <3> QED BY <1>2, <3>1
  <2>1. PICK f \in [0..m -> V] : f[0] = z /\ \A e \in 1..m : f[e] = F[<<e, f[e - 1]>>]
    BY <2>0
  <2>2. PICK v \in V : v = F[<<m + 1, f[m]>>]
    <3>1. m + 1 \in 1..n /\ f[m] \in V
      BY <2>1
    <3> QED BY <3>1
  <2>3. PICK h : h = [e \in 0..(m + 1) |-> IF e = m + 1 THEN v ELSE f[e]]
    OBVIOUS
  <2>4. h \in [0..(m + 1) -> V] /\ h[0] = z /\ h[m + 1] = v /\ \A e \in 0..m : h[e] = f[e]
    BY <2>1, <2>3
  <2>5. ASSUME NEW e \in 1..(m + 1) PROVE h[e] = F[<<e, h[e - 1]>>]
    <3>1. CASE e = m + 1
      <4>1. e - 1 = m /\ m \in 0..m
        BY <3>1
      <4> QED BY <2>2, <2>4, <3>1, <4>1
    <3>2. CASE e # m + 1
      <4>1. e \in 1..m /\ e \in 0..m /\ e - 1 \in 0..m
        BY <3>2
      <4> QED BY <2>1, <2>4, <4>1
    <3> QED BY <3>1, <3>2
  <2> QED BY <2>4, <2>5
<1> HIDE DEF S, Solved
<1>3. Nat \subseteq S
  BY <1>1, <1>2, NatSetInduction
<1>4. Solved(n)
  BY <1>3 DEF S
<1> QED
  BY <1>4 DEF Solved, Solvable

-----------------------------------------------------------------------------
(* Sequences and their parts. *)

\* A sequence over a set is one over a larger set.
LEMMA WiderSeq ==
  ASSUME NEW A, NEW B, A \subseteq B, NEW s \in Seq(A)
  PROVE  s \in Seq(B)
OBVIOUS

\* A sequence is the function of its elements.
LEMMA SeqIsFunction ==
  ASSUME NEW W, NEW s \in Seq(W)
  PROVE  s = [i \in 1..Len(s) |-> s[i]]
OBVIOUS

\* Two sequences in one.
LEMMA JoinedSeq ==
  ASSUME NEW S, NEW a \in Seq(S), NEW b \in Seq(S)
  PROVE  /\ a \o b \in Seq(S) /\ Len(a \o b) = Len(a) + Len(b)
         /\ \A j \in 1..Len(a) : (a \o b)[j] = a[j]
         /\ \A i \in 1..Len(b) : (a \o b)[Len(a) + i] = b[i]
<1>1. a \o b \in Seq(S) /\ Len(a \o b) = Len(a) + Len(b) /\ Len(a) \in Nat /\ Len(b) \in Nat
  OBVIOUS
<1>2. ASSUME NEW j \in 1..Len(a) PROVE (a \o b)[j] = a[j]
  BY <1>1
<1>3. ASSUME NEW i \in 1..Len(b) PROVE (a \o b)[Len(a) + i] = b[i]
  BY <1>1
<1> QED
  BY <1>1, <1>2, <1>3

\* The words of a part of a sequence.
LEMMA SubSeqIs ==
  ASSUME NEW W, NEW s \in Seq(W), NEW b \in Nat, NEW e \in Nat, b <= e, e <= Len(s)
  PROVE  SubSeq(s, b + 1, e) = [i \in 1..(e - b) |-> s[b + i]]
<1>1. PICK q : q = SubSeq(s, b + 1, e)
  OBVIOUS
<1>2. q = [i \in 1..(e - (b + 1) + 1) |-> s[i + (b + 1) - 1]]
  BY <1>1
<1>3. e - (b + 1) + 1 = e - b /\ \A i \in 1..(e - b) : i + (b + 1) - 1 = b + i
  OBVIOUS
<1> QED
  BY <1>1, <1>2, <1>3

\* One more element of a sequence.
Longer(a, l, x) == [j \in 1..(l + 1) |-> IF j = l + 1 THEN x ELSE a[j]]

\* Append adds it.
LEMMA AppendedSeq ==
  ASSUME NEW W, NEW a \in Seq(W), NEW x, NEW l, l = Len(a)
  PROVE  Append(a, x) = Longer(a, l, x)
<1>1. PICK U, c : U = W \cup {x} /\ c = Append(a, x)
  OBVIOUS
<1>2. a \in Seq(U) /\ x \in U /\ l \in Nat
  BY <1>1, WiderSeq
<1>3. c \in Seq(U) /\ Len(c) = l + 1 /\ c[l + 1] = x /\ \A j \in 1..l : c[j] = a[j]
  BY <1>1, <1>2
<1>4. c = [j \in 1..(l + 1) |-> c[j]]
  BY <1>3, SeqIsFunction, Zenon
<1>5. \A j \in 1..(l + 1) : c[j] = IF j = l + 1 THEN x ELSE a[j]
  <2> TAKE j \in 1..(l + 1)
  <2>1. j = l + 1 \/ j \in 1..l
    BY <1>2
  <2> QED BY <1>2, <1>3, <2>1
<1> QED
  BY <1>1, <1>4, <1>5, Zenon DEF Longer

\* A part of a sequence, and the next element.
LEMMA SubSeqPushed ==
  ASSUME NEW W, NEW s \in Seq(W), NEW b \in Nat, NEW e \in Nat, b <= e, e + 1 <= Len(s)
  PROVE  SubSeq(s, b + 1, e + 1) = Append(SubSeq(s, b + 1, e), s[e + 1])
<1>1. PICK q, r : q = SubSeq(s, b + 1, e) /\ r = SubSeq(s, b + 1, e + 1)
  OBVIOUS
<1>2. e <= Len(s) /\ e + 1 \in Nat /\ b <= e + 1 /\ e + 1 <= Len(s)
  OBVIOUS
<1>3. q = [i \in 1..(e - b) |-> s[b + i]]
  <2>1. SubSeq(s, b + 1, e) = [i \in 1..(e - b) |-> s[b + i]]
    BY <1>2, SubSeqIs
  <2> QED BY <1>1, <2>1
<1>4. r = [i \in 1..(e + 1 - b) |-> s[b + i]]
  <2>1. SubSeq(s, b + 1, e + 1) = [i \in 1..(e + 1 - b) |-> s[b + i]]
    BY <1>2, SubSeqIs
  <2> QED BY <1>1, <2>1
<1>5. q \in Seq(W) /\ Len(q) = e - b
  <2>1. \A i \in 1..(e - b) : s[b + i] \in W
    <3> TAKE i \in 1..(e - b)
    <3>1. b + i \in 1..Len(s)
      BY <1>2
    <3> QED BY <3>1
  <2>2. \A i \in 1..(e - b) : q[i] \in W
    BY <1>3, <2>1
  <2> QED BY <1>3, <2>2
<1>6. PICK l \in Nat : l = e - b
  OBVIOUS
<1>7. Append(q, s[e + 1]) = [j \in 1..(l + 1) |-> IF j = l + 1 THEN s[e + 1] ELSE q[j]]
  BY <1>5, <1>6, AppendedSeq DEF Longer
<1>8. \A j \in 1..(l + 1) : s[b + j] = IF j = l + 1 THEN s[e + 1] ELSE q[j]
  <2> TAKE j \in 1..(l + 1)
  <2>1. CASE j = l + 1
    <3>1. b + j = e + 1
      BY <1>6, <2>1
    <3> QED BY <2>1, <3>1
  <2>2. CASE j # l + 1
    <3>1. j \in 1..(e - b)
      BY <1>6, <2>2
    <3> QED BY <1>3, <2>2, <3>1
  <2> QED BY <2>1, <2>2
<1>9. e + 1 - b = l + 1
  BY <1>6
<1> QED
  BY <1>1, <1>4, <1>7, <1>8, <1>9

\* A part of a part of a sequence.
LEMMA PartOfPart ==
  ASSUME NEW W, NEW s \in Seq(W), NEW b \in Nat, NEW L \in Nat, b <= L, L <= Len(s),
         NEW o, o = SubSeq(s, b + 1, L), NEW h \in Nat, NEW e \in Nat, h <= e, b + e <= L
  PROVE  Len(o) = L - b /\ SubSeq(o, h + 1, e) = [i \in 1..(e - h) |-> s[b + h + i]]
<1>1. PICK k \in Nat : k = L - b
  OBVIOUS
<1>2. o = [i \in 1..k |-> s[b + i]]
  BY <1>1, SubSeqIs
<1>3. \A i \in 1..k : b + i \in 1..Len(s) /\ s[b + i] \in W
  <2> TAKE i \in 1..k
  <2>1. Len(s) \in Nat
    OBVIOUS
  <2>2. b + i \in 1..Len(s)
    BY <1>1, <2>1
  <2> QED BY <2>2
<1>4. o \in Seq(W) /\ Len(o) = k
  <2>1. [i \in 1..k |-> s[b + i]] \in Seq(W)
    BY <1>3
  <2> QED BY <1>2, <2>1
<1>5. SubSeq(o, h + 1, e) = [i \in 1..(e - h) |-> o[h + i]]
  <2>1. e <= Len(o)
    BY <1>1, <1>4
  <2> QED BY <1>4, <2>1, SubSeqIs
<1>6. \A i \in 1..(e - h) : o[h + i] = s[b + h + i]
  <2> TAKE i \in 1..(e - h)
  <2>1. h + i \in 1..k /\ b + (h + i) = b + h + i
    BY <1>1
  <2>2. o[h + i] = s[b + (h + i)]
    BY <1>2, <2>1
  <2> QED BY <2>1, <2>2
<1> QED
  BY <1>1, <1>4, <1>5, <1>6

\* The words o of s from b to L.
OperandsOf(o, s, W, b, L) ==
  /\ s \in Seq(W) /\ b \in Nat /\ L \in Nat /\ L = Len(s) /\ b <= L /\ o = SubSeq(s, b + 1, L)

\* The first of them.
LEMMA FirstOperands ==
  ASSUME NEW W, NEW s \in Seq(W), NEW b \in Nat, NEW L, L = Len(s), NEW e \in Nat, b <= e, e <= L, NEW o,
         o = SubSeq(s, b + 1, L), NEW n \in Nat, n = L - e
  PROVE  SubSeq(o, 1, Len(o) - n) = SubSeq(s, b + 1, e)
<1>1. L \in Nat /\ b <= L /\ L <= Len(s) /\ e <= Len(s)
  OBVIOUS
<1>2. PICK k \in Nat : k = e - b
  BY <1>1
<1>3. 0 \in Nat /\ 0 <= k /\ b + k <= L
  BY <1>1, <1>2
<1>4. Len(o) = L - b /\ SubSeq(o, 0 + 1, k) = [i \in 1..(k - 0) |-> s[b + 0 + i]]
  BY <1>1, <1>3, PartOfPart
<1>5. SubSeq(s, b + 1, e) = [i \in 1..(e - b) |-> s[b + i]]
  BY <1>1, SubSeqIs
<1>6. Len(o) - n = k /\ k - 0 = k /\ 0 + 1 = 1 /\ b + 0 = b
  BY <1>1, <1>2, <1>4
<1> QED
  BY <1>2, <1>4, <1>5, <1>6

\* The last n words of st.
LastOf(st, n) == [j \in 1..n |-> st[Len(st) - n + j]]

\* ... as a part of the sequence.
EndOf(o, n) == SubSeq(o, Len(o) - n + 1, Len(o))

\* The last words of a part are those of the whole.
LEMMA LastOperands ==
  ASSUME NEW W, NEW s, NEW b, NEW L, NEW o, OperandsOf(o, s, W, b, L), NEW n \in Nat, b + n <= L
  PROVE  EndOf(o, n) = LastOf(s, n)
<1> USE DEF OperandsOf
<1>1. L \in Nat /\ L <= Len(s)
  OBVIOUS
<1>2. PICK k \in Nat : k = L - b
  <2>1. L - b \in Nat
    BY <1>1
  <2> QED BY <2>1
<1>3. PICK h \in Nat : h = k - n
  <2>1. k - n \in Nat
    BY <1>1, <1>2
  <2> QED BY <2>1
<1>4. h <= k /\ b + k <= L
  BY <1>1, <1>2, <1>3
<1>5. Len(o) = L - b /\ SubSeq(o, h + 1, k) = [i \in 1..(k - h) |-> s[b + h + i]]
  BY <1>1, <1>4, PartOfPart
<1>6. k - h = n /\ Len(o) - n + 1 = h + 1 /\ Len(o) = k /\ b + h = L - n
  BY <1>1, <1>2, <1>3, <1>5
<1>7. LastOf(s, n) = [i \in 1..n |-> s[L - n + i]]
  BY Zenon DEF LastOf
<1>8. EndOf(o, n) = SubSeq(o, Len(o) - n + 1, Len(o))
  BY Zenon DEF EndOf
<1>9. EndOf(o, n) = SubSeq(o, h + 1, k)
  BY <1>6, <1>8
<1>10. [i \in 1..(k - h) |-> s[b + h + i]] = [i \in 1..n |-> s[L - n + i]]
  BY <1>6, Zenon
<1> QED
  BY <1>5, <1>7, <1>9, <1>10, Zenon

\* No last words.
LEMMA LastOfNone ==
  ASSUME NEW st, NEW n, n = 0
  PROVE  LastOf(st, n) = <<>>
<1>1. PICK f : f = [j \in 1..n |-> st[Len(st) - n + j]]
  OBVIOUS
<1>2. f \in Seq({}) /\ Len(f) = 0
  BY <1>1
<1>3. f = <<>>
  BY ONLY <1>2
<1> QED
  BY <1>1, <1>3, Zenon DEF LastOf

\* A sequence of l elements.
Indexed(a, l) == l \in Nat /\ l > 0 /\ a = [j \in 1..l |-> a[j]]

\* It is one.
LEMMA IndexedSeq ==
  ASSUME NEW a, NEW l, Indexed(a, l)
  PROVE  a \in Seq({a[j] : j \in 1..l}) /\ Len(a) = l
<1>1. PICK W : W = {a[j] : j \in 1..l}
  OBVIOUS
<1>2. \A j \in 1..l : a[j] \in W
  BY <1>1
<1>3. a \in Seq(W) /\ Len(a) = l
  BY <1>2 DEF Indexed
<1> QED BY <1>1, <1>3

\* The first m elements, the last of which is now r.
LastIs(a, m, r) == [j \in 1..m |-> IF j = m THEN r ELSE a[j]]

\* The same, and x on it.
NewOn(a, m, r, x) ==
  [j \in 1..(m + 1) |-> IF j = m + 1 THEN x ELSE IF j = m THEN r ELSE a[j]]

\* One more element, on r in place of the last.
LEMMA AppendedOn ==
  ASSUME NEW a, NEW l, Indexed(a, l), NEW r, NEW x
  PROVE  /\ Append(a, x) = Longer(a, l, x)
         /\ Append(LastIs(a, l, r), x) = NewOn(a, l, r, x)
<1>1. ASSUME NEW c, Indexed(c, l) PROVE Append(c, x) = Longer(c, l, x)
  <2>1. PICK W : W = {c[j] : j \in 1..l}
    OBVIOUS
  <2>2. c \in Seq(W) /\ l = Len(c)
    BY <1>1, <2>1, IndexedSeq
  <2> QED BY <2>2, AppendedSeq
<1>2. PICK b : b = LastIs(a, l, r)
  OBVIOUS
<1>3. l \in Nat /\ b = [j \in 1..l |-> IF j = l THEN r ELSE a[j]]
  BY <1>2 DEF LastIs, Indexed
<1>4. Indexed(b, l)
  BY <1>3 DEF Indexed
<1>5. Append(b, x) = Longer(b, l, x)
  BY <1>1, <1>4
<1>6. \A j \in 1..(l + 1) : (IF j = l + 1 THEN x ELSE b[j]) =
              IF j = l + 1 THEN x ELSE IF j = l THEN r ELSE a[j]
  <2> TAKE j \in 1..(l + 1)
  <2>1. j = l + 1 \/ j \in 1..l
    BY <1>3
  <2> QED BY <1>3, <2>1
<1>7. Longer(b, l, x) = NewOn(a, l, r, x)
  BY <1>6, Zenon DEF Longer, NewOn
<1> QED
  BY <1>1, <1>2, <1>5, <1>7

=============================================================================
