--------------------------- MODULE SequenceLemmas ---------------------------
(* Induction over the naturals in a form the provers can use, with a set for   *)
(* the predicate; what it shows of the flattening of a sequence of sequences;  *)
(* and boxes that hand their contents on.                                      *)
EXTENDS Integers, Selections, SequenceTheorems, WellFoundedInduction, TLAPS

\* What holds of 0 and is passed on holds of every natural number.
LEMMA SetInduction ==
  ASSUME NEW S, 0 \in S, \A n \in Nat : n \in S => n + 1 \in S
  PROVE  Nat \subseteq S
<1> DEFINE T == Nat \ S
<1> SUFFICES ASSUME T # {} PROVE FALSE
  OBVIOUS
<1>1. IsWellFoundedOn(OpToRel(<, Nat), Nat)
  BY NatLessThanWellFounded
<1>2. T \subseteq Nat
  OBVIOUS
<1>3. \E x \in T : \A y \in T : ~ (<<y, x>> \in OpToRel(<, Nat))
  <2> HIDE DEF T
  <2> QED BY <1>1, <1>2, WFMin
<1>4. \A x, y \in Nat : y < x => <<y, x>> \in OpToRel(<, Nat)
  BY DEF OpToRel
<1>5. \E x \in T : \A y \in T : ~ (y < x)
  BY <1>2, <1>3, <1>4, Zenon
<1>6. PICK x \in T : \A y \in T : ~ (y < x)
  BY <1>5
<1>7. x # 0 /\ x - 1 \in Nat /\ x - 1 < x /\ x - 1 + 1 = x
  BY <1>6
<1>8. x - 1 \notin T
  BY <1>6, <1>7
<1> QED BY <1>6, <1>7, <1>8

-----------------------------------------------------------------------------
(* FlattenSeq.                                                             *)

\* The function FlattenSeq is defined by, and the equation it satisfies.
Flattening(f, s) ==
  f = [i \in 1..Len(s) |-> IF i = 1 THEN s[i] ELSE f[i - 1] \o s[i]]

\* The recursion of FlattenSeq has a solution.
LEMMA FlatteningExists ==
  ASSUME NEW P, NEW s \in Seq(Seq(P))
  PROVE  \E f : Flattening(f, s)
<1> DEFINE Upto(n, f) == f = [i \in 1..n |-> IF i = 1 THEN s[i] ELSE f[i - 1] \o s[i]]
           S == {n \in Nat : \E f : Upto(n, f)}
<1>1. 0 \in S
  <2> DEFINE f == [i \in 1..0 |-> 0]
  <2>1. Upto(0, f)
    OBVIOUS
  <2> QED BY <2>1
<1>2. ASSUME NEW n \in Nat, n \in S PROVE n + 1 \in S
  <2>1. PICK f : Upto(n, f)
    BY <1>2
  <2> DEFINE g == [i \in 1..(n + 1) |-> IF i <= n THEN f[i] ELSE IF i = 1 THEN s[i] ELSE f[i - 1] \o s[i]]
  <2>2. \A i \in 1..n : g[i] = f[i]
    OBVIOUS
  <2>3. ASSUME NEW i \in 1..(n + 1) PROVE g[i] = IF i = 1 THEN s[i] ELSE g[i - 1] \o s[i]
    <3>1. CASE i <= n
      <4>1. f[i] = IF i = 1 THEN s[i] ELSE f[i - 1] \o s[i]
        <5>1. i \in 1..n
          BY <3>1
        <5>2. f = [j \in 1..n |-> IF j = 1 THEN s[j] ELSE f[j - 1] \o s[j]]
          BY <2>1
        <5>3. f[i] = [j \in 1..n |-> IF j = 1 THEN s[j] ELSE f[j - 1] \o s[j]][i]
          BY <5>2, Zenon
        <5> QED BY <5>1, <5>3, Zenon
      <4>2. i # 1 => g[i - 1] = f[i - 1]
        BY <3>1
      <4> QED BY <3>1, <4>1, <4>2
    <3>2. CASE i = n + 1
      <4>1. i # 1 => g[i - 1] = f[i - 1]
        BY <3>2
      <4> QED BY <3>2, <4>1
    <3> QED BY <3>1, <3>2
  <2>4. Upto(n + 1, g)
    <3> HIDE DEF g
    <3>1. g = [i \in 1..(n + 1) |-> g[i]]
      BY DEF g
    <3> QED BY <3>1, <2>3
  <2>5. \E h : Upto(n + 1, h)
    <3> HIDE DEF g, Upto
    <3> QED BY <2>4
  <2> HIDE DEF g, Upto
  <2> QED BY <2>5
<1>3. Nat \subseteq S
  <2> HIDE DEF S
  <2> QED BY <1>1, <1>2, SetInduction
<1>4. Len(s) \in S
  <2> HIDE DEF S
  <2> QED BY <1>3
<1> QED BY <1>4 DEF Flattening

\* FlattenSeq is where the recursion ends.
LEMMA FlattenSeqIs ==
  ASSUME NEW P, NEW s \in Seq(Seq(P)), Len(s) # 0
  PROVE  \E f : Flattening(f, s) /\ FlattenSeq(s) = f[Len(s)]
<1> DEFINE f == CHOOSE f : f = [i \in 1..Len(s) |-> IF i = 1 THEN s[i] ELSE f[i - 1] \o s[i]]
<1>1. FlattenSeq(s) = f[Len(s)]
  BY DEF FlattenSeq
<1>2. \E g : g = [i \in 1..Len(s) |-> IF i = 1 THEN s[i] ELSE g[i - 1] \o s[i]]
  BY FlatteningExists DEF Flattening
<1>3. f = [i \in 1..Len(s) |-> IF i = 1 THEN s[i] ELSE f[i - 1] \o s[i]]
  BY <1>2
<1> QED BY <1>1, <1>3 DEF Flattening

\* The equation has one solution, and a shorter sequence's is the beginning of it.
Solves(f, s, n) ==
  /\ n >= 1 => f[1] = s[1]
  /\ \A i \in Nat \ {0} : i + 1 <= n => f[i + 1] = f[i] \o s[i + 1]

\* A solution of the recursion solves its two equations.
LEMMA FlatteningSolves ==
  ASSUME NEW s, Len(s) \in Nat, NEW f, Flattening(f, s)
  PROVE  Solves(f, s, Len(s))
<1> DEFINE N == Len(s)
<1>1. ASSUME NEW i \in 1..N PROVE f[i] = IF i = 1 THEN s[i] ELSE f[i - 1] \o s[i]
  <2>1. f[i] = [j \in 1..N |-> IF j = 1 THEN s[j] ELSE f[j - 1] \o s[j]][i]
    BY Zenon DEF Flattening
  <2> QED BY <2>1, Zenon
<1>2. N >= 1 => f[1] = s[1]
  BY <1>1
<1>3. ASSUME NEW i \in Nat \ {0}, i + 1 <= N PROVE f[i + 1] = f[i] \o s[i + 1]
  <2> DEFINE k == i + 1
  <2>1. k \in 1..N /\ k # 1 /\ k - 1 = i
    BY <1>3
  <2> HIDE DEF k
  <2>2. f[k] = f[k - 1] \o s[k]
    BY <1>1, <2>1, Zenon
  <2>3. f[k] = f[i] \o s[k]
    BY <2>1, <2>2, Zenon
  <2> QED BY <2>3 DEF k
<1> QED BY <1>2, <1>3 DEF Solves

\* Two solutions agree as far as the shorter one goes.
LEMMA FlatteningUnique ==
  ASSUME NEW s, NEW n \in Nat, NEW m \in Nat, n <= m, NEW f, NEW g,
         Solves(f, s, n), Solves(g, s, m)
  PROVE  \A i \in 1..n : f[i] = g[i]
<1> DEFINE S == {i \in Nat : i \in 1..n => f[i] = g[i]}
<1>1. 0 \in S
  OBVIOUS
<1>2. ASSUME NEW i \in Nat, i \in S PROVE i + 1 \in S
  <2> SUFFICES ASSUME i + 1 \in 1..n PROVE f[i + 1] = g[i + 1]
    OBVIOUS
  <2>1. CASE i = 0
    BY <2>1 DEF Solves
  <2>2. CASE i # 0
    <3>1. f[i] = g[i]
      BY <1>2, <2>2
    <3>2. i \in Nat \ {0} /\ i + 1 <= n /\ i + 1 <= m
      BY <2>2
    <3>3. f[i + 1] = f[i] \o s[i + 1] /\ g[i + 1] = g[i] \o s[i + 1]
      BY <3>2, Zenon DEF Solves
    <3> QED BY <3>1, <3>3, Zenon
  <2> QED BY <2>1, <2>2
<1>3. Nat \subseteq S
  <2> HIDE DEF S
  <2> QED BY <1>1, <1>2, SetInduction
<1> QED BY <1>3

\* The sequences s begins with, flattened.
Prefix(s, n) == FlattenSeq([i \in 1..n |-> s[i]])

\* One more sequence adds its elements at the end.
LEMMA PrefixGrows ==
  ASSUME NEW P, NEW s \in Seq(Seq(P))
  PROVE  /\ Prefix(s, 0) = <<>> /\ FlattenSeq(s) = Prefix(s, Len(s))
         /\ \A n \in Nat : n + 1 <= Len(s) => Prefix(s, n + 1) = Prefix(s, n) \o s[n + 1]
<1>1. Prefix(s, 0) = <<>>
  <2>1. [i \in 1..0 |-> s[i]] = <<>>
    OBVIOUS
  <2> QED BY <2>1 DEF Prefix, FlattenSeq
<1>2. FlattenSeq(s) = Prefix(s, Len(s))
  <2>1. s = [i \in 1..Len(s) |-> s[i]]
    OBVIOUS
  <2> QED BY <2>1 DEF Prefix
<1>3. PICK g : Flattening(g, s)
  BY FlatteningExists
<1>4. Solves(g, s, Len(s))
  <2>1. Len(s) \in Nat
    OBVIOUS
  <2> QED BY <1>3, <2>1, FlatteningSolves, Zenon
<1>5. ASSUME NEW n \in 1..Len(s) PROVE Prefix(s, n) = g[n]
  <2> DEFINE t == [i \in 1..n |-> s[i]]
  <2>1. t \in Seq(Seq(P)) /\ Len(t) = n /\ n \in Nat /\ n # 0 /\ Len(s) \in Nat /\ n <= Len(s)
    OBVIOUS
  <2>2. PICK f : Flattening(f, t) /\ FlattenSeq(t) = f[n]
    <3> HIDE DEF t
    <3> QED BY <2>1, FlattenSeqIs
  <2>3. Solves(f, t, n)
    <3> HIDE DEF t
    <3>1. Solves(f, t, Len(t))
      BY <2>1, <2>2, FlatteningSolves, Zenon
    <3> QED BY <2>1, <3>1
  <2>4. Solves(f, s, n)
    <3>1. \A i \in 1..n : t[i] = s[i]
      OBVIOUS
    <3>2. n >= 1 /\ 1 \in 1..n /\ \A i \in Nat \ {0} : i + 1 <= n => i + 1 \in 1..n
      BY <2>1
    <3> HIDE DEF t
    <3> QED BY <2>3, <3>1, <3>2, Zenon DEF Solves
  <2>5. f[n] = g[n]
    <3> HIDE DEF t
    <3>1. \A i \in 1..n : f[i] = g[i]
      <4>1. n \in Nat /\ Len(s) \in Nat /\ n <= Len(s)
        BY <2>1
      <4> QED BY <4>1, <2>4, <1>4, FlatteningUnique
    <3> QED BY <3>1
  <2> QED BY <2>2, <2>5 DEF Prefix
<1>6. ASSUME NEW n \in Nat, n + 1 <= Len(s)
      PROVE  Prefix(s, n + 1) = Prefix(s, n) \o s[n + 1]
  <2>1. n + 1 \in 1..Len(s)
    BY <1>6
  <2>2. CASE n = 0
    <3>1. Prefix(s, 1) = s[1] /\ s[1] \in Seq(P)
      BY <1>4, <1>5, <2>1, <2>2 DEF Solves
    <3>2. <<>> \o s[1] = s[1]
      BY <3>1, ConcatEmptySeq, Zenon
    <3> QED BY <1>1, <2>2, <3>1, <3>2
  <2>3. CASE n # 0
    <3>1. n \in 1..Len(s) /\ n \in Nat \ {0}
      BY <2>1, <2>3
    <3> QED BY <1>4, <1>5, <1>6, <2>1, <3>1 DEF Solves
  <2> QED BY <2>2, <2>3
<1> QED BY <1>1, <1>2, <1>6

\* What a sequence of sequences begins with stays where it is.
LEMMA PrefixStays ==
  ASSUME NEW P, NEW s \in Seq(Seq(P)), NEW n \in 0..Len(s)
  PROVE  \A m \in n..Len(s) :
           /\ Prefix(s, m) \in Seq(P) /\ Len(Prefix(s, n)) <= Len(Prefix(s, m))
           /\ \A j \in 1..Len(Prefix(s, n)) : Prefix(s, m)[j] = Prefix(s, n)[j]
<1> DEFINE Stays(m) == /\ Prefix(s, m) \in Seq(P) /\ Len(Prefix(s, n)) <= Len(Prefix(s, m))
                       /\ \A j \in 1..Len(Prefix(s, n)) : Prefix(s, m)[j] = Prefix(s, n)[j]
<1>g. /\ Prefix(s, 0) = <<>> /\ FlattenSeq(s) = Prefix(s, Len(s))
      /\ \A k \in Nat : k + 1 <= Len(s) => Prefix(s, k + 1) = Prefix(s, k) \o s[k + 1]
  BY PrefixGrows, Zenon
<1>s. Len(s) \in Nat /\ \A k \in 1..Len(s) : s[k] \in Seq(P)
  OBVIOUS
<1>1. ASSUME NEW m \in 0..Len(s) PROVE Prefix(s, m) \in Seq(P)
  <2> DEFINE S == {i \in Nat : i <= Len(s) => Prefix(s, i) \in Seq(P)}
  <2>1. 0 \in S
    <3>1. <<>> \in Seq(P)
      OBVIOUS
    <3> QED BY <1>g, <3>1
  <2>2. ASSUME NEW i \in Nat, i \in S PROVE i + 1 \in S
    <3> SUFFICES ASSUME i + 1 <= Len(s) PROVE Prefix(s, i + 1) \in Seq(P)
      OBVIOUS
    <3>1. i + 1 \in 1..Len(s) /\ i + 1 - 1 = i /\ Prefix(s, i) \in Seq(P)
      BY <2>2
    <3>2. Prefix(s, i + 1) = Prefix(s, i) \o s[i + 1] /\ s[i + 1] \in Seq(P)
      BY <3>1, <1>g, <1>s
    <3> QED BY <3>1, <3>2, ConcatProperties, Zenon
  <2>3. Nat \subseteq S
    <3> HIDE DEF S
    <3> QED BY <2>1, <2>2, SetInduction
  <2> QED BY <2>3
<1> DEFINE T == {i \in Nat : n + i <= Len(s) => Stays(n + i)}
<1>2. 0 \in T
  BY <1>1
<1>3. ASSUME NEW i \in Nat, i \in T PROVE i + 1 \in T
  <2> SUFFICES ASSUME n + (i + 1) <= Len(s) PROVE Stays(n + (i + 1))
    OBVIOUS
  <2> DEFINE m == n + i
  <2>1. m \in Nat /\ m + 1 \in 1..Len(s) /\ m + 1 - 1 = m /\ n + (i + 1) = m + 1 /\ Stays(m)
    BY <1>3
  <2>2. Prefix(s, m + 1) = Prefix(s, m) \o s[m + 1] /\ s[m + 1] \in Seq(P)
    BY <2>1, <1>g, <1>s
  <2>3. Prefix(s, n) \in Seq(P) /\ Prefix(s, m) \in Seq(P)
    BY <1>1, <2>1
  <2>4. Stays(m + 1)
    <3> HIDE DEF m
    <3> DEFINE p == Prefix(s, m)
    <3>1. /\ p \o s[m + 1] \in Seq(P) /\ Len(p \o s[m + 1]) = Len(p) + Len(s[m + 1])
          /\ \A j \in 1..Len(p) + Len(s[m + 1]) :
               (p \o s[m + 1])[j] = IF j <= Len(p) THEN p[j] ELSE s[m + 1][j - Len(p)]
      BY <2>2, <2>3, ConcatProperties, Zenon
    <3>2. Len(p) \in Nat /\ Len(s[m + 1]) \in Nat /\ Len(Prefix(s, n)) \in Nat
      BY <2>2, <2>3, LenProperties, Zenon
    <3>3. /\ Len(Prefix(s, n)) <= Len(p)
          /\ \A j \in 1..Len(Prefix(s, n)) : p[j] = Prefix(s, n)[j]
      BY <2>1
    <3> HIDE DEF p
    <3>4. \A j \in 1..Len(Prefix(s, n)) : j \in 1..Len(p) + Len(s[m + 1]) /\ j <= Len(p)
      BY <3>2, <3>3
    <3>5. /\ Prefix(s, m + 1) = p \o s[m + 1]
      BY <2>2 DEF p
    <3>6. Len(Prefix(s, n)) <= Len(p \o s[m + 1])
      BY <3>1, <3>2, <3>3
    <3>7. \A j \in 1..Len(Prefix(s, n)) : (p \o s[m + 1])[j] = Prefix(s, n)[j]
      BY <3>1, <3>3, <3>4, Zenon
    <3> QED BY <3>1, <3>5, <3>6, <3>7, Zenon
  <2> QED BY <2>1, <2>4
<1>4. Nat \subseteq T
  <2> HIDE DEF T
  <2> QED BY <1>2, <1>3, SetInduction
<1>5. ASSUME NEW m \in n..Len(s) PROVE Stays(m)
  <2>1. m - n \in Nat /\ n + (m - n) = m /\ m <= Len(s)
    OBVIOUS
  <2>2. m - n \in T
    <3> HIDE DEF T
    <3> QED BY <1>4, <2>1
  <2> HIDE DEF Stays
  <2> QED BY <2>1, <2>2
<1> QED BY <1>5

\* What is cut out of a sequence, counted from where the cut begins.
IsCut(r, w, a, l, P) == r \in Seq(P) /\ Len(r) = l /\ \A j \in 1..l : r[j] = w[a + j]

\* A part of a sequence, element by element.
LEMMA CutOut ==
  ASSUME NEW P, NEW w, NEW a \in Nat, NEW l \in Nat, \A j \in 1..l : w[a + j] \in P
  PROVE  IsCut(SubSeq(w, a + 1, a + l), w, a, l, P)
<1>1. \A j \in a + 1..a + l : w[j] \in P
  <2> SUFFICES ASSUME NEW j \in a + 1..a + l PROVE w[j] \in P
    OBVIOUS
  <2> DEFINE k == j - a
  <2>1. k \in 1..l /\ a + k = j
    OBVIOUS
  <2> HIDE DEF k
  <2> QED BY <2>1
<1>2. /\ SubSeq(w, a + 1, a + l) \in Seq(P)
      /\ Len(SubSeq(w, a + 1, a + l)) = IF a + 1 <= a + l THEN a + l - (a + 1) + 1 ELSE 0
      /\ \A j \in 1..a + l - (a + 1) + 1 : SubSeq(w, a + 1, a + l)[j] = w[a + 1 + j - 1]
  BY <1>1
<1> QED BY <1>2 DEF IsCut

\* Each of the sequences is found in the whole where the ones before it end.
LEMMA FoundAt ==
  ASSUME NEW P, NEW s \in Seq(Seq(P)), NEW t \in Seq(P), NEW i \in 1..Len(s)
  PROVE  LET a == Len(Prefix(s, i - 1))
         IN  SubSeq(FlattenSeq(s) \o t, a + 1, a + Len(s[i])) = s[i]
<1> DEFINE a == Len(Prefix(s, i - 1))
           whole == FlattenSeq(s) \o t
           p == Prefix(s, i)
<1>g. /\ Prefix(s, 0) = <<>> /\ FlattenSeq(s) = Prefix(s, Len(s))
      /\ \A k \in Nat : k + 1 <= Len(s) => Prefix(s, k + 1) = Prefix(s, k) \o s[k + 1]
  BY PrefixGrows, Zenon
<1>s. Len(s) \in Nat /\ s[i] \in Seq(P)
  OBVIOUS
<1>1. /\ Prefix(s, i - 1) \in Seq(P) /\ p = Prefix(s, i - 1) \o s[i] /\ s[i] \in Seq(P)
      /\ a \in Nat
  <2>1. i - 1 \in 0..Len(s) /\ i - 1 \in (i - 1)..Len(s)
    OBVIOUS
  <2>2. Prefix(s, i - 1) \in Seq(P)
    BY <2>1, PrefixStays, Zenon
  <2>3. p = Prefix(s, i - 1) \o s[i]
    <3> DEFINE k == i - 1
    <3>1. k \in Nat /\ k + 1 = i /\ k + 1 <= Len(s)
      OBVIOUS
    <3>2. Prefix(s, k + 1) = Prefix(s, k) \o s[k + 1]
      <4> HIDE DEF k
      <4> QED BY <1>g, <3>1
    <3> QED BY <3>1, <3>2
  <2> QED BY <1>s, <2>2, <2>3
<1>2. /\ FlattenSeq(s) \in Seq(P) /\ Len(p) <= Len(FlattenSeq(s))
      /\ \A j \in 1..Len(p) : FlattenSeq(s)[j] = p[j]
  <2>1. i \in 0..Len(s) /\ Len(s) \in i..Len(s)
    OBVIOUS
  <2>2. /\ Prefix(s, Len(s)) \in Seq(P) /\ Len(Prefix(s, i)) <= Len(Prefix(s, Len(s)))
        /\ \A j \in 1..Len(Prefix(s, i)) : Prefix(s, Len(s))[j] = Prefix(s, i)[j]
    BY <2>1, PrefixStays, Zenon
  <2> QED BY <1>g, <2>2
<1>3. /\ Len(p) = a + Len(s[i])
      /\ \A j \in 1..a + Len(s[i]) : p[j] = IF j <= a THEN Prefix(s, i - 1)[j] ELSE s[i][j - a]
  <2> DEFINE q == Prefix(s, i - 1)
  <2>1. q \in Seq(P) /\ s[i] \in Seq(P) /\ p = q \o s[i] /\ a = Len(q)
    BY <1>1
  <2> HIDE DEF q, p, a
  <2>2. /\ Len(p) = a + Len(s[i])
        /\ \A j \in 1..a + Len(s[i]) : p[j] = IF j <= a THEN q[j] ELSE s[i][j - a]
    BY <2>1, ConcatProperties, Zenon
  <2> QED BY <2>2, Zenon DEF q
<1>4. /\ whole \in Seq(P) /\ Len(whole) = Len(FlattenSeq(s)) + Len(t)
      /\ \A j \in 1..Len(FlattenSeq(s)) + Len(t) :
           whole[j] = IF j <= Len(FlattenSeq(s)) THEN FlattenSeq(s)[j] ELSE t[j - Len(FlattenSeq(s))]
  BY <1>2, ConcatProperties, Zenon
<1>5. a \in Nat /\ Len(s[i]) \in Nat /\ Len(FlattenSeq(s)) \in Nat /\ Len(t) \in Nat
  BY <1>1, <1>2, LenProperties, Zenon
<1>s2. s[i] \in Seq(P) /\ \A j \in 1..Len(s[i]) : s[i][j] \in P
  BY <1>1, ElementOfSeq, Zenon
<1> HIDE DEF whole, a, p
<1>6. ASSUME NEW j \in 1..Len(s[i]) PROVE whole[a + j] = s[i][j] /\ s[i][j] \in P
  <2> DEFINE k == a + j
  <2>1. /\ k \in 1..a + Len(s[i]) /\ ~(k <= a) /\ k \in 1..Len(FlattenSeq(s)) + Len(t)
        /\ k <= Len(FlattenSeq(s)) /\ k \in 1..Len(p) /\ k - a = j
    BY <1>2, <1>3, <1>5
  <2> HIDE DEF k
  <2>2. whole[k] = FlattenSeq(s)[k]
    BY <1>4, <2>1, Zenon
  <2>3. FlattenSeq(s)[k] = p[k]
    BY <1>2, <2>1, Zenon
  <2>4. p[k] = s[i][k - a]
    BY <1>3, <2>1, Zenon
  <2>5. whole[k] = s[i][j]
    BY <2>1, <2>2, <2>3, <2>4
  <2> QED BY <1>s2, <2>5 DEF k
<1> DEFINE r == SubSeq(whole, a + 1, a + Len(s[i]))
<1>7. r \in Seq(P) /\ Len(r) = Len(s[i]) /\ \A j \in 1..Len(s[i]) : r[j] = whole[a + j]
  <2>1. \A j \in 1..Len(s[i]) : whole[a + j] \in P
    BY <1>6
  <2>2. IsCut(r, whole, a, Len(s[i]), P)
    BY <1>5, <2>1, CutOut, Zenon
  <2> HIDE DEF r
  <2> QED BY <2>2 DEF IsCut
<1> HIDE DEF r
<1>8. r = s[i]
  <2>1. Len(r) = Len(s[i]) /\ \A j \in 1..Len(r) : r[j] = s[i][j]
    BY <1>6, <1>7
  <2> QED BY <1>7, <1>s2, <2>1, SeqEqual
<1> QED BY <1>8 DEF whole, a, r

-----------------------------------------------------------------------------
(* Boxes that hand their contents on.                                      *)

\* What leaves the front of one box for the end of the one before it is still there once.
LEMMA MoveHead ==
  ASSUME NEW S, NEW a \in Seq(S), NEW b \in Seq(S), b # <<>>
  PROVE  /\ Append(a, Head(b)) \in Seq(S) /\ Tail(b) \in Seq(S)
         /\ Append(a, Head(b)) \o Tail(b) = a \o b
<1>1. /\ Head(b) \in S /\ Tail(b) \in Seq(S) /\ Len(Tail(b)) = Len(b) - 1
      /\ \A i \in 1..Len(Tail(b)) : Tail(b)[i] = b[i + 1]
  BY HeadTailProperties
<1>2. Append(a, Head(b)) \in Seq(S)
  BY <1>1
<1>3. Append(a, Head(b)) \o Tail(b) = a \o b
  BY <1>1
<1> QED BY <1>1, <1>2, <1>3

\* So it is when another box stands before the two.
Handover(a, b, c) == (a \o Append(b, Head(c))) \o Tail(c) = (a \o b) \o c

\* A frame that moves between the last two boxes leaves the whole as it was.
LEMMA MoveBehind ==
  ASSUME NEW S, NEW a \in Seq(S), NEW b \in Seq(S), NEW c \in Seq(S), c # <<>>
  PROVE  Handover(a, b, c)
<1>1. /\ Append(b, Head(c)) \in Seq(S) /\ Tail(c) \in Seq(S)
      /\ Append(b, Head(c)) \o Tail(c) = b \o c
  BY MoveHead
<1>2. (a \o Append(b, Head(c))) \o Tail(c) = a \o (Append(b, Head(c)) \o Tail(c))
  <2> DEFINE d == Append(b, Head(c))
             e == Tail(c)
  <2>1. d \in Seq(S) /\ e \in Seq(S)
    BY <1>1
  <2> HIDE DEF d, e
  <2>2. (a \o d) \o e = a \o (d \o e)
    BY <2>1, ConcatAssociative, SMTT(60)
  <2> QED BY <2>2 DEF d, e
<1>3. (a \o b) \o c = a \o (b \o c)
  BY ConcatAssociative, SMTT(60)
<1> QED BY <1>1, <1>2, <1>3 DEF Handover

\* What is put at the end of the last box is at the end of them all.
PutLast(a, b, x) == a \o Append(b, x) = Append(a \o b, x)

\* What is put in the last box comes last of all.
LEMMA AppendLast ==
  ASSUME NEW S, NEW a \in Seq(S), NEW b \in Seq(S), NEW x \in S
  PROVE  a \o b \in Seq(S) /\ PutLast(a, b, x)
BY DEF PutLast

\* What a longer sequence holds.
LEMMA AppendHolds ==
  ASSUME NEW S, NEW a \in Seq(S), NEW x \in S
  PROVE  /\ ToSet(Append(a, x)) = ToSet(a) \cup {x}
         /\ DOMAIN Append(a, x) = DOMAIN a \cup {Len(a) + 1}
         /\ \A i \in DOMAIN a : Append(a, x)[i] = a[i]
         /\ Append(a, x)[Len(a) + 1] = x
<1>1. Append(a, x) \in Seq(S) /\ Len(Append(a, x)) = Len(a) + 1
  OBVIOUS
<1>2. DOMAIN Append(a, x) = DOMAIN a \cup {Len(a) + 1}
  BY <1>1
<1>3. \A i \in DOMAIN a : Append(a, x)[i] = a[i]
  OBVIOUS
<1>4. Append(a, x)[Len(a) + 1] = x
  OBVIOUS
<1>5. ToSet(Append(a, x)) = ToSet(a) \cup {x}
  BY <1>2, <1>3, <1>4, Zenon DEF ToSet
<1> QED BY <1>2, <1>3, <1>4, <1>5
-----------------------------------------------------------------------------
(* Selected.                                                               *)

\* r is what K keeps of s: f says where each of its elements was.
Picks(f, s, K, r) ==
  /\ f \in [1..Len(r) -> DOMAIN s]
  /\ \A j \in 1..Len(r) : r[j] = s[f[j]]
  /\ \A i, j \in 1..Len(r) : i < j => f[i] < f[j]
  /\ \A i \in DOMAIN s : s[i] \in K <=> \E j \in 1..Len(r) : f[j] = i

\* Each element, or nothing in its place.
Single(x, K) == IF x \in K THEN <<x>> ELSE <<>>
Singles(s, K) == [i \in DOMAIN s |-> Single(s[i], K)]

\* It is a sequence of one or none.
LEMMA SingleIs ==
  ASSUME NEW S, NEW x \in S, NEW K
  PROVE  /\ Single(x, K) \in Seq(S)
         /\ x \in K => Single(x, K) = <<x>>
         /\ x \notin K => Single(x, K) = <<>>
<1>1. CASE x \in K
  BY <1>1 DEF Single
<1>2. CASE x \notin K
  BY <1>2 DEF Single
<1> QED BY <1>1, <1>2

\* They are as many as the elements, and sequences.
LEMMA SinglesAre ==
  ASSUME NEW S, NEW s \in Seq(S), NEW K
  PROVE  /\ Singles(s, K) \in Seq(Seq(S)) /\ Len(Singles(s, K)) = Len(s)
         /\ \A i \in 1..Len(s) : Singles(s, K)[i] = Single(s[i], K)
<1>1. DOMAIN s = 1..Len(s) /\ Len(s) \in Nat /\ \A i \in 1..Len(s) : s[i] \in S
  OBVIOUS
<1>2. \A i \in 1..Len(s) : Single(s[i], K) \in Seq(S)
  BY <1>1, SingleIs
<1>3. Singles(s, K) = [i \in 1..Len(s) |-> Single(s[i], K)]
  BY <1>1 DEF Singles
<1> HIDE DEF Single, Singles
<1> QED BY <1>1, <1>2, <1>3

\* What picks its elements from a sequence can be followed by one more.
LEMMA PicksOn ==
  ASSUME NEW S, NEW s \in Seq(S), NEW K, NEW n \in Nat, n + 1 <= Len(s), NEW r \in Seq(S),
         NEW f, Picks(f, [i \in 1..n |-> s[i]], K, r)
  PROVE  /\ r \o Single(s[n + 1], K) \in Seq(S)
         /\ \E g : Picks(g, [i \in 1..n + 1 |-> s[i]], K, r \o Single(s[n + 1], K))
<1> DEFINE q == r \o Single(s[n + 1], K)
           a == [i \in 1..n |-> s[i]]
           b == [i \in 1..n + 1 |-> s[i]]
           l == Len(r)
<1>1. s[n + 1] \in S /\ l \in Nat /\ DOMAIN a = 1..n /\ DOMAIN b = 1..n + 1
  OBVIOUS
<1>2. \A i \in 1..n + 1 : b[i] = s[i]
  OBVIOUS
<1>3. f \in [1..l -> 1..n] /\ \A j \in 1..l : f[j] \in 1..n
  BY <1>1 DEF Picks
<1>4. /\ \A j \in 1..l : r[j] = s[f[j]]
      /\ \A i, j \in 1..l : i < j => f[i] < f[j]
      /\ \A i \in 1..n : s[i] \in K <=> \E j \in 1..l : f[j] = i
  BY <1>1, <1>3 DEF Picks
<1>5. \A i \in 1..n + 1 : i = n + 1 \/ i \in 1..n
  OBVIOUS
<1>6. n + 1 \in 1..n + 1 /\ \A i \in 1..n : i < n + 1 /\ i # n + 1 /\ i \in 1..n + 1
  OBVIOUS
<1>7. CASE s[n + 1] \notin K
  <2>1. Single(s[n + 1], K) = <<>>
    BY <1>1, <1>7, SingleIs
  <2>2. q = r
    BY <2>1
  <2>3. f \in [1..l -> 1..n + 1]
    BY <1>3, <1>6
  <2> HIDE DEF q, b, l
  <2>4. \A j \in 1..l : r[j] = b[f[j]]
    BY <1>2, <1>3, <1>4, <1>6
  <2>5. \A i \in 1..n + 1 : b[i] \in K <=> \E j \in 1..l : f[j] = i
    BY <1>2, <1>3, <1>4, <1>5, <1>6, <1>7
  <2>6. Picks(f, b, K, r)
    BY <1>1, <1>4, <2>3, <2>4, <2>5 DEF Picks, l
  <2> QED BY <2>2, <2>6 DEF q, b
<1>8. CASE s[n + 1] \in K
  <2> DEFINE g == [j \in 1..l + 1 |-> IF j = l + 1 THEN n + 1 ELSE f[j]]
  <2>0. Single(s[n + 1], K) = <<s[n + 1]>>
    BY <1>1, <1>8, SingleIs
  <2>1. /\ q \in Seq(S) /\ Len(q) = l + 1 /\ q[l + 1] = s[n + 1]
        /\ \A j \in 1..l : q[j] = r[j]
    BY <1>1, <2>0
  <2>3. g \in [1..l + 1 -> 1..n + 1]
    BY <1>1, <1>3
  <2>4. g[l + 1] = n + 1 /\ \A j \in 1..l : g[j] = f[j] /\ f[j] \in 1..n
    BY <1>1, <1>3
  <2>5. \A j \in 1..l + 1 : j = l + 1 \/ j \in 1..l
    BY <1>1
  <2>7. l + 1 \in 1..l + 1 /\ \A j \in 1..l : j \in 1..l + 1 /\ j < l + 1 /\ ~(l + 1 < j)
    BY <1>1
  <2>n. ~(l + 1 < l + 1)
    BY <1>1
  <2> HIDE DEF g, q, b, l
  <2>a. \A j \in 1..l + 1 : q[j] = b[g[j]]
    BY <2>1, <2>4, <2>5, <1>4, <1>6, <1>2, SMTT(60)
  <2>c. ASSUME NEW i \in 1..l + 1, NEW j \in 1..l + 1, i < j PROVE g[i] < g[j]
    <3>1. i \in 1..l
      BY <2>5, <2>7, <2>n, <2>c
    <3>2. CASE j = l + 1
      BY <1>6, <2>4, <3>1, <3>2
    <3>3. CASE j \in 1..l
      BY <1>4, <2>4, <2>c, <3>1, <3>3
    <3> QED BY <2>5, <3>2, <3>3
  <2>d. ASSUME NEW i \in 1..n + 1 PROVE b[i] \in K <=> \E j \in 1..l + 1 : g[j] = i
    <3>1. CASE i = n + 1
      BY <1>8, <1>2, <2>4, <2>7, <3>1
    <3>2. CASE i \in 1..n
      <4>1. b[i] \in K <=> \E j \in 1..l : f[j] = i
        BY <1>2, <1>4, <1>6, <3>2
      <4>2. ASSUME NEW j \in 1..l, f[j] = i PROVE \E k \in 1..l + 1 : g[k] = i
        BY <2>4, <2>7, <4>2
      <4>3. ASSUME NEW k \in 1..l + 1, g[k] = i PROVE \E j \in 1..l : f[j] = i
        BY <1>6, <2>4, <2>5, <3>2, <4>3
      <4> QED BY <4>1, <4>2, <4>3
    <3> QED BY <1>5, <3>1, <3>2
  <2>f. Picks(g, b, K, q)
    BY <1>1, <2>1, <2>3, <2>a, <2>c, <2>d DEF Picks
  <2> QED BY <2>1, <2>f DEF q, b
<1> QED BY <1>7, <1>8

\* What Selected keeps: the elements of K, in their order.
LEMMA SelectedPicks ==
  ASSUME NEW S, NEW s \in Seq(S), NEW K
  PROVE  Selected(s, K) \in Seq(S) /\ \E f : Picks(f, s, K, Selected(s, K))
<1> DEFINE one == Singles(s, K)
           P(n) == /\ Prefix(one, n) \in Seq(S)
                   /\ \E f : Picks(f, [i \in 1..n |-> s[i]], K, Prefix(one, n))
           T == {n \in Nat : n <= Len(s) => P(n)}
<1>1. /\ one \in Seq(Seq(S)) /\ Len(one) = Len(s) /\ Len(s) \in Nat
      /\ \A i \in 1..Len(s) : one[i] = Single(s[i], K)
  BY SinglesAre
<1>2. Selected(s, K) = FlattenSeq(one)
  BY DEF Selected, Singles, Single
<1> HIDE DEF one
<1>3. /\ Prefix(one, 0) = <<>> /\ FlattenSeq(one) = Prefix(one, Len(one))
      /\ \A n \in Nat : n + 1 <= Len(one) => Prefix(one, n + 1) = Prefix(one, n) \o one[n + 1]
  BY <1>1, PrefixGrows, Zenon
<1>4. P(0)
  <2>1. Picks(<<>>, [i \in 1..0 |-> s[i]], K, <<>>)
    BY DEF Picks
  <2>2. <<>> \in Seq(S)
    OBVIOUS
  <2> QED BY <1>3, <2>1, <2>2
<1>5. ASSUME NEW n \in Nat, n + 1 <= Len(s), P(n) PROVE P(n + 1)
  <2>1. Prefix(one, n + 1) = Prefix(one, n) \o Single(s[n + 1], K)
    <3>1. n + 1 \in 1..Len(s)
      BY <1>1, <1>5
    <3> QED BY <1>1, <1>3, <1>5, <3>1
  <2>2. PICK f : Picks(f, [i \in 1..n |-> s[i]], K, Prefix(one, n))
    BY <1>5
  <2>3. Prefix(one, n) \in Seq(S)
    BY <1>5
  <2> DEFINE p == Prefix(one, n)
  <2> HIDE DEF p
  <2>4. /\ p \o Single(s[n + 1], K) \in Seq(S)
        /\ \E g : Picks(g, [i \in 1..n + 1 |-> s[i]], K, p \o Single(s[n + 1], K))
    BY <1>5, <2>2, <2>3, PicksOn DEF p
  <2> QED BY <2>1, <2>4 DEF p
<1> HIDE DEF P
<1>6. Nat \subseteq T
  <2>1. 0 \in T
    BY <1>4
  <2>2. \A n \in Nat : n \in T => n + 1 \in T
    BY <1>1, <1>5
  <2> HIDE DEF T
  <2> QED BY <2>1, <2>2, SetInduction
<1>7. P(Len(s))
  <2>1. Len(s) \in T
    <3> HIDE DEF T
    <3> QED BY <1>1, <1>6
  <2> QED BY <1>1, <2>1
<1>8. [i \in 1..Len(s) |-> s[i]] = s
  OBVIOUS
<1> QED BY <1>1, <1>2, <1>3, <1>7, <1>8 DEF P

\* One more element is kept at the end, or not.
LEMMA SelectedAppend ==
  ASSUME NEW S, NEW s \in Seq(S), NEW x \in S, NEW K
  PROVE  Selected(Append(s, x), K) = Selected(s, K) \o Single(x, K)
<1> DEFINE t == Append(s, x)
           one == Singles(t, K)
           n == Len(s)
<1>1. t \in Seq(S) /\ Len(t) = n + 1 /\ n \in Nat /\ t[n + 1] = x /\ \A i \in 1..n : t[i] = s[i]
  OBVIOUS
<1>0. FlattenSeq(one) = Selected(t, K)
  BY DEF Selected, Singles, Single
<1> HIDE DEF t
<1>2. /\ one \in Seq(Seq(S)) /\ Len(one) = n + 1
      /\ \A i \in 1..n + 1 : one[i] = Single(t[i], K)
  <2>1. /\ one \in Seq(Seq(S)) /\ Len(one) = Len(t)
        /\ \A i \in 1..Len(t) : one[i] = Single(t[i], K)
    BY <1>1, SinglesAre
  <2> QED BY <1>1, <2>1
<1> HIDE DEF one
<1>3. /\ FlattenSeq(one) = Prefix(one, Len(one))
      /\ \A k \in Nat : k + 1 <= Len(one) => Prefix(one, k + 1) = Prefix(one, k) \o one[k + 1]
  BY <1>2, PrefixGrows, Zenon
<1>4. FlattenSeq(one) = Prefix(one, n) \o one[n + 1]
  <2>1. n + 1 <= Len(one) /\ n \in Nat
    BY <1>1, <1>2
  <2> HIDE DEF n
  <2> QED BY <1>2, <1>3, <2>1
<1>5. [i \in 1..n |-> one[i]] = Singles(s, K)
  <2>1. DOMAIN s = 1..n
    OBVIOUS
  <2>2. \A i \in 1..n : one[i] = Single(s[i], K)
    <3> SUFFICES ASSUME NEW i \in 1..n PROVE one[i] = Single(s[i], K)
      OBVIOUS
    <3>1. i \in 1..n + 1 /\ t[i] = s[i]
      BY <1>1
    <3>2. one[i] = Single(t[i], K)
      BY <1>2, <3>1
    <3> QED BY <3>1, <3>2
  <2> QED BY <2>1, <2>2 DEF Singles
<1>6. Prefix(one, n) = Selected(s, K)
  BY <1>5 DEF Prefix, Selected, Singles, Single
<1>7. one[n + 1] = Single(x, K)
  BY <1>1, <1>2
<1> QED BY <1>0, <1>4, <1>6, <1>7 DEF t

\* Only what occurs in the sequence counts.
LEMMA SelectedSame ==
  ASSUME NEW S, NEW s \in Seq(S), NEW K, NEW L, \A i \in DOMAIN s : s[i] \in K <=> s[i] \in L
  PROVE  Selected(s, K) = Selected(s, L)
<1>1. Singles(s, K) = Singles(s, L)
  BY DEF Singles, Single
<1> QED BY <1>1 DEF Selected, Singles, Single
=============================================================================
