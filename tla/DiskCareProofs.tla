--------------------------- MODULE DiskCareProofs ---------------------------
(***************************************************************************)
(* Theorems about DiskCare, for any revisions, any environments, stores of *)
(* any length and any window.                                              *)
(*                                                                         *)
(* What Kept selects is an induction over the sequence, stated here with   *)
(* sets: a set of sequences that has the empty one, and with every         *)
(* sequence the longer ones, has them all.                                 *)
(***************************************************************************)
EXTENDS DiskCare, TLAPS, SequenceTheorems, WellFoundedInduction

-----------------------------------------------------------------------------
(* Induction *)

LEMMA NatSet ==
  ASSUME NEW S \in SUBSET Nat, 0 \in S, \A n \in S : n + 1 \in S
  PROVE  S = Nat
<1> DEFINE T == Nat \ S
<1>1. SUFFICES ASSUME T # {} PROVE FALSE
  OBVIOUS
<1>2. PICK x \in T : \A y \in T : ~(<<y, x>> \in OpToRel(<, Nat))
  <2>1. T \subseteq Nat
    OBVIOUS
  <2>2. QED
    BY <1>1, <2>1, NatLessThanWellFounded, WFMin, Zenon
<1>3. x \in Nat \ {0} /\ x - 1 \in Nat
  OBVIOUS
<1>4. <<x - 1, x>> \in OpToRel(<, Nat)
  BY <1>3 DEF OpToRel
<1>5. x - 1 \in S
  BY <1>2, <1>3, <1>4
<1>6. x - 1 + 1 = x
  BY <1>3
<1>7. QED
  BY <1>2, <1>5, <1>6

LEMMA SeqSet ==
  ASSUME NEW R, NEW S \in SUBSET Seq(R), << >> \in S,
         \A s \in S, x \in R : Append(s, x) \in S
  PROVE  S = Seq(R)
<1> DEFINE N == {n \in Nat : \A s \in Seq(R) : Len(s) = n => s \in S}
<1>1. 0 \in N
  BY EmptySeq
<1>2. ASSUME NEW n \in N PROVE n + 1 \in N
  <2>1. SUFFICES ASSUME NEW s \in Seq(R), Len(s) = n + 1 PROVE s \in S
    OBVIOUS
  <2>2. s # << >>
    BY <2>1, EmptySeq
  <2>3. PICK t \in Seq(R), x \in R : s = Append(t, x)
    BY <2>2, SequenceEmptyOrAppend
  <2>4. Len(t) = n
    BY <2>1, <2>3, AppendProperties, LenProperties
  <2>5. QED
    BY <2>3, <2>4
<1>3. N = Nat
  <2> HIDE DEF N
  <2>1. N \in SUBSET Nat
    BY DEF N
  <2>2. QED
    BY <1>1, <1>2, <2>1, NatSet
<1>4. QED
  BY <1>3, LenProperties

-----------------------------------------------------------------------------
(* What Kept selects *)

\* The function that Kept defines, of the records up to n.
Selects(f, s, S, n) ==
  f = [i \in 0..n |-> IF i = 0 THEN << >>
                      ELSE IF s[i] \in S THEN Append(f[i - 1], s[i]) ELSE f[i - 1]]

LEMMA SelectsExists ==
  ASSUME NEW s, NEW S, NEW n \in Nat
  PROVE  \E f : Selects(f, s, S, n)
<1> DEFINE N == {m \in Nat : \E f : Selects(f, s, S, m)}
<1>1. 0 \in N
  <2>1. Selects([i \in 0..0 |-> << >>], s, S, 0)
    BY DEF Selects
  <2>2. QED
    BY <2>1
<1>2. ASSUME NEW m \in N PROVE m + 1 \in N
  <2>1. PICK f : Selects(f, s, S, m)
    OBVIOUS
  <2> DEFINE x == IF s[m + 1] \in S THEN Append(f[m], s[m + 1]) ELSE f[m]
             g == [i \in 0..(m + 1) |-> IF i = m + 1 THEN x ELSE f[i]]
  <2>2. g[m + 1] = x /\ \A i \in 0..m : g[i] = f[i]
    OBVIOUS
  <2>3. ASSUME NEW i \in 0..m
        PROVE  f[i] = IF i = 0 THEN << >>
                      ELSE IF s[i] \in S THEN Append(g[i - 1], s[i]) ELSE g[i - 1]
    <3>1. i # 0 => i - 1 \in 0..m
      OBVIOUS
    <3>2. f[i] = IF i = 0 THEN << >>
                 ELSE IF s[i] \in S THEN Append(f[i - 1], s[i]) ELSE f[i - 1]
      BY <2>1 DEF Selects
    <3> HIDE DEF g
    <3>3. QED
      BY <2>2, <3>1, <3>2
  <2>4. x = IF s[m + 1] \in S THEN Append(g[m + 1 - 1], s[m + 1]) ELSE g[m + 1 - 1]
    <3>1. m + 1 - 1 = m /\ m \in 0..m
      OBVIOUS
    <3> HIDE DEF g
    <3>2. QED
      BY <2>2, <3>1
  <2>5. Selects(g, s, S, m + 1)
    <3> DEFINE h == [i \in 0..(m + 1) |->
                       IF i = 0 THEN << >>
                       ELSE IF s[i] \in S THEN Append(g[i - 1], s[i]) ELSE g[i - 1]]
    <3>1. ASSUME NEW i \in 0..(m + 1) PROVE h[i] = g[i]
      <4> HIDE DEF x, g
      <4>1. CASE i = m + 1
        BY <2>2, <2>4, <4>1
      <4>2. CASE i \in 0..m
        BY <2>2, <2>3, <4>2
      <4>3. QED
        BY <4>1, <4>2
    <3>2. h = g
      <4>1. g = [i \in 0..(m + 1) |-> g[i]] /\ h = [i \in 0..(m + 1) |-> h[i]]
        OBVIOUS
      <4> HIDE DEF g, h
      <4>2. QED
        BY <3>1, <4>1
    <3> HIDE DEF g
    <3>3. QED
      BY <3>2 DEF Selects
  <2>6. QED
    BY <2>5
<1>3. N = Nat
  <2> HIDE DEF N
  <2>1. N \in SUBSET Nat
    BY DEF N
  <2>2. QED
    BY <1>1, <1>2, <2>1, NatSet
<1>4. QED
  BY <1>3

LEMMA SelectsAt ==
  ASSUME NEW s, NEW S, NEW f, NEW n \in Nat, NEW i \in 1..n, Selects(f, s, S, n)
  PROVE  /\ s[i] \in S => f[i] = Append(f[i - 1], s[i])
         /\ s[i] \notin S => f[i] = f[i - 1]
<1>1. i \in 0..n /\ i # 0
  OBVIOUS
<1>2. QED
  BY <1>1 DEF Selects

LEMMA SelectsStep ==
  ASSUME NEW s, NEW t, NEW S, NEW n \in Nat, NEW m \in Nat, n <= m,
         NEW f, Selects(f, s, S, n), NEW g, Selects(g, t, S, m),
         NEW i \in 1..n, s[i] = t[i], f[i - 1] = g[i - 1]
  PROVE  f[i] = g[i]
<1>1. i \in 1..m
  OBVIOUS
<1>2. /\ s[i] \in S => f[i] = Append(f[i - 1], s[i])
      /\ s[i] \notin S => f[i] = f[i - 1]
  BY SelectsAt
<1>3. /\ t[i] \in S => g[i] = Append(g[i - 1], t[i])
      /\ t[i] \notin S => g[i] = g[i - 1]
  BY SelectsAt, <1>1
<1>4. QED
  BY <1>2, <1>3

LEMMA SelectsSame ==
  ASSUME NEW s, NEW t, NEW S, NEW n \in Nat, NEW m \in Nat, n <= m,
         \A i \in 1..n : s[i] = t[i],
         NEW f, Selects(f, s, S, n), NEW g, Selects(g, t, S, m)
  PROVE  f[n] = g[n]
<1> DEFINE N == {k \in Nat : k <= n => f[k] = g[k]}
<1>1. 0 \in N
  BY DEF Selects
<1>2. ASSUME NEW k \in N PROVE k + 1 \in N
  <2>1. ASSUME NEW i \in 1..n, i = k + 1 PROVE f[i] = g[i]
    <3>1. i - 1 = k /\ f[k] = g[k] /\ s[i] = t[i]
      BY <2>1
    <3>2. f[i - 1] = g[i - 1]
      BY <3>1
    <3> HIDE DEF N
    <3>3. QED
      BY <3>1, <3>2, SelectsStep
  <2>2. QED
    BY <2>1
<1>3. N = Nat
  <2> HIDE DEF N
  <2>1. N \in SUBSET Nat
    BY DEF N
  <2>2. QED
    BY <1>1, <1>2, <2>1, NatSet
<1>4. QED
  BY <1>3

LEMMA KeptSelects ==
  ASSUME NEW R, NEW s \in Seq(R), NEW S
  PROVE  \E f : Selects(f, s, S, Len(s)) /\ Kept(s, S) = f[Len(s)]
<1> DEFINE f == CHOOSE f : Selects(f, s, S, Len(s))
<1>1. Selects(f, s, S, Len(s))
  BY SelectsExists, LenProperties
<1>2. Kept(s, S) = f[Len(s)]
  BY DEF Kept, Selects
<1> HIDE DEF f
<1>3. QED
  BY <1>1, <1>2

\* The two equations that define it.
LEMMA KeptEmpty ==
  ASSUME NEW S
  PROVE  Kept(<< >>, S) = << >>
<1>1. << >> \in Seq({}) /\ Len(<< >>) = 0
  BY EmptySeq
<1>2. PICK f : Selects(f, << >>, S, 0) /\ Kept(<< >>, S) = f[0]
  BY <1>1, KeptSelects
<1>3. QED
  BY <1>2 DEF Selects

LEMMA KeptAppend ==
  ASSUME NEW R, NEW s \in Seq(R), NEW x \in R, NEW S
  PROVE  /\ x \in S => Kept(Append(s, x), S) = Append(Kept(s, S), x)
         /\ x \notin S => Kept(Append(s, x), S) = Kept(s, S)
<1> DEFINE t == Append(s, x)
           n == Len(s)
<1>1. /\ t \in Seq(R) /\ n \in Nat /\ Len(t) = n + 1 /\ t[n + 1] = x
      /\ \A i \in 1..n : t[i] = s[i]
  BY AppendProperties, LenProperties
<1>2. PICK f : Selects(f, s, S, n) /\ Kept(s, S) = f[n]
  BY KeptSelects
<1>3. PICK g : Selects(g, t, S, n + 1) /\ Kept(t, S) = g[n + 1]
  BY <1>1, KeptSelects
<1> HIDE DEF t, n
<1>4. f[n] = g[n]
  BY <1>1, <1>2, <1>3, SelectsSame
<1>5. ASSUME NEW i, i = n + 1
      PROVE  /\ t[i] \in S => g[i] = Append(g[i - 1], t[i])
             /\ t[i] \notin S => g[i] = g[i - 1]
  <2>1. i \in Nat /\ i \in 1..i /\ Selects(g, t, S, i)
    BY <1>1, <1>3, <1>5
  <2>2. QED
    BY ONLY <2>1, SelectsAt
<1>6. n + 1 - 1 = n
  BY <1>1
<1>7. QED
  BY <1>1, <1>2, <1>3, <1>4, <1>5, <1>6 DEF t

LEMMA RangeAppend ==
  ASSUME NEW R, NEW s \in Seq(R), NEW x \in R
  PROVE  Range(Append(s, x)) = Range(s) \cup {x}
<1>1. /\ Append(s, x) \in Seq(R) /\ Len(Append(s, x)) = Len(s) + 1 /\ Len(s) \in Nat
      /\ \A i \in 1..Len(s) : Append(s, x)[i] = s[i]
      /\ Append(s, x)[Len(s) + 1] = x
      /\ DOMAIN s = 1..Len(s) /\ DOMAIN Append(s, x) = 1..(Len(s) + 1)
  BY AppendProperties, LenProperties
<1>2. QED
  BY <1>1 DEF Range

\* Kept is a sequence of exactly the records of s that are in S.
LEMMA KeptRange ==
  ASSUME NEW R, NEW s \in Seq(R), NEW S
  PROVE  Kept(s, S) \in Seq(R) /\ Range(Kept(s, S)) = Range(s) \cap S
<1> DEFINE G == {t \in Seq(R) : Kept(t, S) \in Seq(R) /\ Range(Kept(t, S)) = Range(t) \cap S}
<1>1. << >> \in G
  <2>1. << >> \in Seq(R) /\ Range(<< >>) = {}
    BY EmptySeq DEF Range
  <2>2. QED
    BY <2>1, KeptEmpty
<1>2. ASSUME NEW t \in G, NEW x \in R PROVE Append(t, x) \in G
  <2>1. Append(t, x) \in Seq(R) /\ Range(Append(t, x)) = Range(t) \cup {x}
    BY RangeAppend, AppendProperties
  <2>2. CASE x \in S
    <3>1. Kept(Append(t, x), S) = Append(Kept(t, S), x)
      BY <2>2, KeptAppend
    <3>2. Range(Append(Kept(t, S), x)) = Range(Kept(t, S)) \cup {x}
      BY RangeAppend
    <3>3. Append(Kept(t, S), x) \in Seq(R)
      BY AppendProperties
    <3>4. QED
      BY <2>1, <2>2, <3>1, <3>2, <3>3
  <2>3. CASE x \notin S
    BY <2>1, <2>3, KeptAppend
  <2>4. QED
    BY <2>2, <2>3
<1>3. G = Seq(R)
  <2> HIDE DEF G
  <2>1. G \in SUBSET Seq(R)
    BY DEF G
  <2>2. QED
    BY <1>1, <1>2, <2>1, SeqSet
<1>4. QED
  BY <1>3

\* Kept moves no record towards the end.
LEMMA KeptEarlier ==
  ASSUME NEW R, NEW s \in Seq(R), NEW S, NEW i \in DOMAIN s, s[i] \in S
  PROVE  \E k \in DOMAIN Kept(s, S) : k <= i /\ Kept(s, S)[k] = s[i]
<1> DEFINE Early(t) == \A j \in 1..Len(t) : t[j] \in S =>
                         \E k \in 1..Len(Kept(t, S)) : k <= j /\ Kept(t, S)[k] = t[j]
           G == {t \in Seq(R) : Len(Kept(t, S)) <= Len(t) /\ Early(t)}
<1>1. << >> \in G
  <2>1. << >> \in Seq(R) /\ Len(<< >>) = 0
    BY EmptySeq
  <2>2. QED
    BY <2>1, KeptEmpty
<1>2. ASSUME NEW t \in G, NEW x \in R PROVE Append(t, x) \in G
  <2> DEFINE u == Append(t, x)
             v == Kept(t, S)
             w == Kept(u, S)
  <2>1. /\ u \in Seq(R) /\ Len(t) \in Nat /\ Len(u) = Len(t) + 1 /\ u[Len(t) + 1] = x
        /\ \A j \in 1..Len(t) : u[j] = t[j]
    BY AppendProperties, LenProperties
  <2>2. v \in Seq(R) /\ Len(v) \in Nat /\ Len(v) <= Len(t) /\ Early(t)
    BY KeptRange, LenProperties
  <2>3. x \in S => /\ Len(w) = Len(v) + 1 /\ w[Len(v) + 1] = x
                   /\ \A j \in 1..Len(v) : w[j] = v[j]
    <3>1. x \in S => w = Append(v, x)
      BY KeptAppend
    <3>2. v \in Seq(R)
      BY <2>2
    <3> HIDE DEF v, w, G, Early
    <3>3. QED
      BY <3>1, <3>2, AppendProperties
  <2>4. x \notin S => w = v
    BY KeptAppend
  <2>5. Len(w) \in Nat /\ Len(v) <= Len(w) /\ Len(w) <= Len(u)
        /\ \A j \in 1..Len(v) : w[j] = v[j]
    <3> HIDE DEF u, v, w
    <3>1. QED
      BY <2>1, <2>2, <2>3, <2>4
  <2>6. ASSUME NEW j \in 1..Len(u), u[j] \in S
        PROVE  \E k \in 1..Len(w) : k <= j /\ w[k] = u[j]
    <3>1. CASE j = Len(t) + 1
      <4> HIDE DEF u, v, w
      <4>1. w[Len(v) + 1] = u[j] /\ Len(v) + 1 \in 1..Len(w) /\ Len(v) + 1 <= j
        BY <2>1, <2>2, <2>3, <2>6, <3>1
      <4>2. QED
        BY <4>1
    <3>2. CASE j \in 1..Len(t)
      <4>1. PICK k \in 1..Len(v) : k <= j /\ v[k] = t[j]
        BY <2>1, <2>2, <2>6, <3>2
      <4> HIDE DEF u, v, w
      <4>2. k \in 1..Len(w) /\ w[k] = u[j]
        BY <2>1, <2>2, <2>5, <3>2, <4>1
      <4>3. QED
        BY <4>1, <4>2
    <3>3. QED
      BY <2>1, <2>6, <3>1, <3>2
  <2>7. QED
    BY <2>1, <2>5, <2>6
<1>3. G = Seq(R)
  <2> HIDE DEF G
  <2>1. G \in SUBSET Seq(R)
    BY DEF G
  <2>2. QED
    BY <1>1, <1>2, <2>1, SeqSet
<1>4. Early(s) /\ DOMAIN s = 1..Len(s) /\ DOMAIN Kept(s, S) = 1..Len(Kept(s, S))
  BY <1>3, KeptRange, LenProperties
<1>5. QED
  BY <1>4

\* To select twice is to select once.
LEMMA KeptTwice ==
  ASSUME NEW R, NEW s \in Seq(R), NEW S, NEW T
  PROVE  Kept(Kept(s, S), T) = Kept(s, S \cap T)
<1> DEFINE G == {t \in Seq(R) : Kept(Kept(t, S), T) = Kept(t, S \cap T)}
<1>1. << >> \in G
  BY KeptEmpty, EmptySeq
<1>2. ASSUME NEW t \in G, NEW x \in R PROVE Append(t, x) \in G
  <2>1. Append(t, x) \in Seq(R) /\ Kept(t, S) \in Seq(R)
    BY AppendProperties, KeptRange
  <2>2. /\ x \in S \cap T => Kept(Append(t, x), S \cap T) = Append(Kept(t, S \cap T), x)
        /\ x \notin S \cap T => Kept(Append(t, x), S \cap T) = Kept(t, S \cap T)
    BY KeptAppend
  <2>3. /\ x \in S => Kept(Append(t, x), S) = Append(Kept(t, S), x)
        /\ x \notin S => Kept(Append(t, x), S) = Kept(t, S)
    BY KeptAppend
  <2>4. /\ x \in T => Kept(Append(Kept(t, S), x), T) = Append(Kept(Kept(t, S), T), x)
        /\ x \notin T => Kept(Append(Kept(t, S), x), T) = Kept(Kept(t, S), T)
    BY <2>1, KeptAppend
  <2>5. Kept(Kept(t, S), T) = Kept(t, S \cap T)
    OBVIOUS
  <2>6. Kept(Kept(Append(t, x), S), T) = Kept(Append(t, x), S \cap T)
    <3>1. CASE x \notin S
      BY <2>2, <2>3, <2>5, <3>1
    <3>2. CASE x \in S /\ x \notin T
      BY <2>2, <2>3, <2>4, <2>5, <3>2
    <3>3. CASE x \in S /\ x \in T
      BY <2>2, <2>3, <2>4, <2>5, <3>3
    <3>4. QED
      BY <3>1, <3>2, <3>3
  <2>7. QED
    BY <2>1, <2>6
<1>3. G = Seq(R)
  <2> HIDE DEF G
  <2>1. G \in SUBSET Seq(R)
    BY DEF G
  <2>2. QED
    BY <1>1, <1>2, <2>1, SeqSet
<1>4. QED
  BY <1>3

\* Nothing is left out that is in S.
LEMMA KeptAll ==
  ASSUME NEW R, NEW s \in Seq(R), NEW S, Range(s) \subseteq S
  PROVE  Kept(s, S) = s
<1> DEFINE G == {t \in Seq(R) : Range(t) \subseteq S => Kept(t, S) = t}
<1>1. << >> \in G
  BY KeptEmpty, EmptySeq
<1>2. ASSUME NEW t \in G, NEW x \in R PROVE Append(t, x) \in G
  BY RangeAppend, AppendProperties, KeptAppend
<1>3. G = Seq(R)
  <2> HIDE DEF G
  <2>1. G \in SUBSET Seq(R)
    BY DEF G
  <2>2. QED
    BY <1>1, <1>2, <2>1, SeqSet
<1>4. QED
  BY <1>3

\* Only the records of s matter.
LEMMA KeptOfRange ==
  ASSUME NEW R, NEW s \in Seq(R), NEW S, NEW T, Range(s) \cap S = Range(s) \cap T
  PROVE  Kept(s, S) = Kept(s, T)
<1>1. Kept(s, Range(s)) = s
  BY KeptAll
<1>2. Kept(s, S) = Kept(s, Range(s) \cap S)
  BY <1>1, KeptTwice
<1>3. Kept(s, T) = Kept(s, Range(s) \cap T)
  BY <1>1, KeptTwice
<1>4. QED
  BY <1>2, <1>3

\* The record at the front.
LEMMA KeptFront ==
  ASSUME NEW R, NEW s \in Seq(R), NEW x \in R, NEW S
  PROVE  /\ x \in S => Kept(<<x>> \o s, S) = <<x>> \o Kept(s, S)
         /\ x \notin S => Kept(<<x>> \o s, S) = Kept(s, S)
<1> DEFINE G == {t \in Seq(R) : /\ x \in S => Kept(<<x>> \o t, S) = <<x>> \o Kept(t, S)
                                /\ x \notin S => Kept(<<x>> \o t, S) = Kept(t, S)}
<1>0. <<x>> \in Seq(R)
  OBVIOUS
<1>1. << >> \in G
  <2>1. << >> \in Seq(R) /\ <<x>> \o << >> = <<x>> /\ <<x>> = Append(<< >>, x)
    BY <1>0, EmptySeq, ConcatEmptySeq
  <2>2. /\ x \in S => Kept(Append(<< >>, x), S) = Append(Kept(<< >>, S), x)
        /\ x \notin S => Kept(Append(<< >>, x), S) = Kept(<< >>, S)
    BY <2>1, KeptAppend, Zenon
  <2>3. QED
    BY <2>1, <2>2, KeptEmpty
<1>2. ASSUME NEW t \in G, NEW y \in R PROVE Append(t, y) \in G
  <2>1. Append(t, y) \in Seq(R) /\ Kept(t, S) \in Seq(R) /\ <<x>> \o t \in Seq(R)
    BY <1>0, AppendProperties, KeptRange, ConcatProperties
  <2>2. ASSUME NEW u \in Seq(R) PROVE <<x>> \o Append(u, y) = Append(<<x>> \o u, y)
    <3>1. <<y>> \in Seq(R) /\ <<x>> \o u \in Seq(R)
      BY <1>0, ConcatProperties
    <3>2. (<<x>> \o u) \o <<y>> = <<x>> \o (u \o <<y>>)
      BY <1>0, <3>1, ConcatAssociative
    <3>3. Append(u, y) = u \o <<y>> /\ Append(<<x>> \o u, y) = (<<x>> \o u) \o <<y>>
      BY <3>1, AppendIsConcat
    <3>4. QED
      BY <3>2, <3>3
  <2>3. /\ y \in S => Kept(Append(<<x>> \o t, y), S) = Append(Kept(<<x>> \o t, S), y)
        /\ y \notin S => Kept(Append(<<x>> \o t, y), S) = Kept(<<x>> \o t, S)
    BY <2>1, KeptAppend, Zenon
  <2>4. /\ y \in S => Kept(Append(t, y), S) = Append(Kept(t, S), y)
        /\ y \notin S => Kept(Append(t, y), S) = Kept(t, S)
    BY KeptAppend, Zenon
  <2>5. <<x>> \o Append(t, y) = Append(<<x>> \o t, y)
    BY <2>2, Zenon
  <2>6. <<x>> \o Append(Kept(t, S), y) = Append(<<x>> \o Kept(t, S), y)
    BY <2>1, <2>2, Zenon
  <2>7. /\ x \in S => Kept(<<x>> \o t, S) = <<x>> \o Kept(t, S)
        /\ x \notin S => Kept(<<x>> \o t, S) = Kept(t, S)
    OBVIOUS
  <2>8. /\ x \in S => Kept(<<x>> \o Append(t, y), S) = <<x>> \o Kept(Append(t, y), S)
        /\ x \notin S => Kept(<<x>> \o Append(t, y), S) = Kept(Append(t, y), S)
    BY <2>3, <2>4, <2>5, <2>6, <2>7, Zenon
  <2>9. QED
    BY <2>1, <2>8
<1>3. G = Seq(R)
  <2> HIDE DEF G
  <2>1. G \in SUBSET Seq(R)
    BY DEF G
  <2>2. QED
    BY <1>1, <1>2, <2>1, SeqSet
<1>4. QED
  BY <1>3

-----------------------------------------------------------------------------
(* Revisions of one environment *)

\* What Upsert makes of the revisions s of an environment now at x.
Front(s, x) == <<x>> \o Kept(s, Range(s) \ {x})

LEMMA RangeFront ==
  ASSUME NEW R, NEW s \in Seq(R), NEW x \in R
  PROVE  /\ <<x>> \o s \in Seq(R) /\ Len(<<x>> \o s) = Len(s) + 1
         /\ (<<x>> \o s)[1] = x
         /\ Range(<<x>> \o s) = Range(s) \cup {x}
<1> DEFINE t == <<x>> \o s
<1>1. <<x>> \in Seq(R) /\ Len(<<x>>) = 1 /\ <<x>>[1] = x /\ Len(s) \in Nat
  BY LenProperties
<1>2. /\ t \in Seq(R) /\ Len(t) = 1 + Len(s)
      /\ \A i \in 1..(1 + Len(s)) : t[i] = IF i <= 1 THEN <<x>>[i] ELSE s[i - 1]
  BY <1>1, ConcatProperties
<1>3. DOMAIN s = 1..Len(s) /\ DOMAIN t = 1..(1 + Len(s))
  BY <1>2, LenProperties
<1> HIDE DEF t
<1>4. t[1] = x /\ \A i \in 1..Len(s) : t[i + 1] = s[i]
  BY <1>1, <1>2
<1>5. Range(t) = Range(s) \cup {x}
  <2>1. ASSUME NEW y \in Range(t) PROVE y \in Range(s) \cup {x}
    <3>1. PICK i \in 1..(1 + Len(s)) : y = t[i]
      BY <1>3 DEF Range
    <3>2. CASE i = 1
      BY <1>4, <3>1, <3>2
    <3>3. CASE i # 1
      <4>1. i - 1 \in 1..Len(s) /\ y = s[i - 1]
        BY <1>1, <1>2, <3>1, <3>3
      <4>2. QED
        BY <1>3, <4>1 DEF Range
    <3>4. QED
      BY <3>2, <3>3
  <2>2. ASSUME NEW y \in Range(s) PROVE y \in Range(t)
    <3>1. PICK i \in 1..Len(s) : y = s[i]
      BY <1>3 DEF Range
    <3>2. i + 1 \in 1..(1 + Len(s)) /\ y = t[i + 1]
      BY <1>1, <1>4, <3>1
    <3>3. QED
      BY <1>3, <3>2 DEF Range
  <2>3. x \in Range(t)
    BY <1>1, <1>3, <1>4 DEF Range
  <2>4. QED
    BY <2>1, <2>2, <2>3
<1>6. QED
  BY <1>1, <1>2, <1>4, <1>5 DEF t

LEMMA FrontRange ==
  ASSUME NEW R, NEW s \in Seq(R), NEW x \in R
  PROVE  /\ Front(s, x) \in Seq(R) /\ Front(s, x)[1] = x /\ 1 \in DOMAIN Front(s, x)
         /\ Range(Front(s, x)) = Range(s) \cup {x}
<1> DEFINE k == Kept(s, Range(s) \ {x})
<1>1. k \in Seq(R) /\ Range(k) = Range(s) \cap (Range(s) \ {x})
  BY KeptRange
<1> HIDE DEF k
<1>2. /\ <<x>> \o k \in Seq(R) /\ Len(<<x>> \o k) = Len(k) + 1
      /\ (<<x>> \o k)[1] = x /\ Range(<<x>> \o k) = Range(k) \cup {x}
  BY <1>1, RangeFront
<1>3. Len(k) \in Nat /\ DOMAIN (<<x>> \o k) = 1..Len(<<x>> \o k)
  BY <1>1, <1>2, LenProperties
<1>4. 1 \in DOMAIN (<<x>> \o k)
  BY <1>2, <1>3
<1>5. Front(s, x) = <<x>> \o k
  BY DEF Front, k
<1>6. QED
  BY <1>1, <1>2, <1>4, <1>5

\* The revision at the front is in the window.
LEMMA FrontNewest ==
  ASSUME NEW R, NEW s \in Seq(R), NEW x \in R
  PROVE  x \in Newest(Front(s, x))
<1>1. Front(s, x)[1] = x /\ 1 \in DOMAIN Front(s, x)
  BY FrontRange
<1>2. 1 <= Keep
  BY KeepAssumption
<1>3. QED
  BY <1>1, <1>2 DEF Newest

LEMMA NewestInRange ==
  ASSUME NEW s
  PROVE  Newest(s) \subseteq Range(s)
BY DEF Newest, Range

\* What is seen again moves nothing.
LEMMA FrontTwice ==
  ASSUME NEW R, NEW s \in Seq(R), NEW x \in R
  PROVE  Front(Front(s, x), x) = Front(s, x)
<1> DEFINE T == Range(s) \ {x}
           k == Kept(s, T)
           f == <<x>> \o k
<1>1. k \in Seq(R) /\ Kept(k, T) = k
  <2>1. T \cap T = T
    OBVIOUS
  <2>2. QED
    BY <2>1, KeptRange, KeptTwice
<1>2. Front(s, x) = f /\ Range(f) = Range(s) \cup {x}
  BY FrontRange DEF Front
<1>3. Range(f) \ {x} = T /\ x \notin T
  BY <1>2
<1> HIDE DEF T, k
<1>4. Kept(f, T) = Kept(k, T)
  BY <1>1, <1>3, KeptFront
<1> HIDE DEF f
<1>5. Front(f, x) = <<x>> \o Kept(f, T)
  BY <1>3 DEF Front
<1>6. QED
  BY <1>1, <1>2, <1>4, <1>5 DEF f

\* Selecting and moving to the front commute.
LEMMA FrontKept ==
  ASSUME NEW R, NEW s \in Seq(R), NEW x \in R, NEW T
  PROVE  Front(Kept(s, T), x) = Kept(Front(s, x), T \cup {x})
<1> DEFINE A == Range(s) \ {x}
           B == Range(Kept(s, T)) \ {x}
<1>1. Kept(s, A) \in Seq(R) /\ B = (Range(s) \cap T) \ {x}
  BY KeptRange
<1>2. Kept(Front(s, x), T \cup {x}) = <<x>> \o Kept(Kept(s, A), T \cup {x})
  <2>1. ASSUME NEW a \in Seq(R), NEW U, x \in U PROVE Kept(<<x>> \o a, U) = <<x>> \o Kept(a, U)
    BY <2>1, KeptFront
  <2>2. Front(s, x) = <<x>> \o Kept(s, A) /\ x \in T \cup {x}
    BY DEF Front
  <2> HIDE DEF A
  <2>3. QED
    BY <1>1, <2>1, <2>2, Zenon
<1>3. Kept(Kept(s, A), T \cup {x}) = Kept(s, A \cap (T \cup {x}))
  BY KeptTwice
<1>4. Kept(Kept(s, T), B) = Kept(s, T \cap B)
  BY KeptTwice
<1>5. T \cap B = A \cap (T \cup {x})
  BY <1>1
<1>6. Front(Kept(s, T), x) = <<x>> \o Kept(Kept(s, T), B)
  BY DEF Front
<1>7. QED
  BY <1>2, <1>3, <1>4, <1>5, <1>6

\* What is in the window stays there when others go.
LEMMA NewestKept ==
  ASSUME NEW R, NEW s \in Seq(R), NEW T, NEW c \in Newest(s), c \in T
  PROVE  c \in Newest(Kept(s, T))
<1>1. PICK i \in DOMAIN s : i <= Keep /\ c = s[i]
  BY DEF Newest
<1>2. PICK k \in DOMAIN Kept(s, T) : k <= i /\ Kept(s, T)[k] = s[i]
  BY <1>1, KeptEarlier
<1>3. Kept(s, T) \in Seq(R)
  BY KeptRange
<1>4. i \in Nat /\ k \in Nat /\ Keep \in Nat
  <2>1. DOMAIN s = 1..Len(s) /\ DOMAIN Kept(s, T) = 1..Len(Kept(s, T))
    BY <1>3, LenProperties
  <2>2. QED
    BY <1>1, <1>2, <2>1, KeepAssumption
<1>5. k <= Keep
  BY <1>1, <1>2, <1>4
<1>6. QED
  BY <1>1, <1>2, <1>5 DEF Newest

-----------------------------------------------------------------------------
(* Stores *)

\* The document names revisions of R, for whichever environments.
IsCurrent(current, R) == \A e \in DOMAIN current : current[e] \in R

LEMMA UpsertAt ==
  ASSUME NEW store, NEW current, NEW e \in DOMAIN store
  PROVE  /\ e \in DOMAIN current => Upsert(store, current)[e] = Front(store[e], current[e])
         /\ e \notin DOMAIN current => Upsert(store, current)[e] = store[e]
BY DEF Upsert, Front

LEMMA UpsertType ==
  ASSUME NEW E, NEW R, NEW store \in [E -> Seq(R)], NEW current, IsCurrent(current, R)
  PROVE  Upsert(store, current) \in [E -> Seq(R)]
<1>1. DOMAIN store = E
  OBVIOUS
<1>2. \A e \in E : e \in DOMAIN current => Front(store[e], current[e]) \in Seq(R)
  BY FrontRange DEF IsCurrent
<1>3. \A e \in E : Upsert(store, current)[e] \in Seq(R)
  BY <1>1, <1>2, UpsertAt
<1>4. Upsert(store, current) = [e \in E |-> Upsert(store, current)[e]]
  BY <1>1 DEF Upsert
<1>5. QED
  BY <1>3, <1>4

\* The same document seen twice.
LEMMA UpsertTwice ==
  ASSUME NEW E, NEW R, NEW store \in [E -> Seq(R)], NEW current, IsCurrent(current, R)
  PROVE  Upsert(Upsert(store, current), current) = Upsert(store, current)
<1>1. PICK u : u = Upsert(store, current)
  OBVIOUS
<1>2. PICK v : v = Upsert(u, current)
  OBVIOUS
<1>3. u \in [E -> Seq(R)]
  BY <1>1, UpsertType
<1>4. v \in [E -> Seq(R)]
  BY <1>2, <1>3, UpsertType
<1>5. ASSUME NEW e \in E PROVE v[e] = u[e]
  <2>0. e \in DOMAIN store /\ e \in DOMAIN u
    BY <1>3
  <2>1. CASE e \in DOMAIN current
    <3>1. current[e] \in R
      BY <2>1 DEF IsCurrent
    <3>2. Front(Front(store[e], current[e]), current[e]) = Front(store[e], current[e])
      BY <3>1, FrontTwice
    <3>3. QED
      BY <1>1, <1>2, <2>0, <2>1, <3>2, UpsertAt
  <2>2. CASE e \notin DOMAIN current
    BY <1>2, <2>0, <2>2, UpsertAt
  <2>3. QED
    BY <2>1, <2>2
<1>6. v = u
  BY <1>3, <1>4, <1>5
<1>7. QED
  BY <1>1, <1>2, <1>6

\* A cleanup removes c, if at all, from no environment's window, nor when the
\* node has no record of it.
Spared(store, c) ==
  \/ \E e \in DOMAIN store : c \in Newest(store[e])
  \/ \A e \in DOMAIN store : c \notin Range(store[e])

\* b is a with some of its records left out, none of c.
Thins(a, b, c) ==
  \A e \in DOMAIN a : \E T : b[e] = Kept(a[e], T) /\ (c \in Range(a[e]) => c \in T)

LEMMA SparedThins ==
  ASSUME NEW E, NEW R, NEW a \in [E -> Seq(R)], NEW b \in [E -> Seq(R)], NEW c,
         Thins(a, b, c), Spared(a, c)
  PROVE  Spared(b, c)
<1>1. DOMAIN a = E /\ DOMAIN b = E
  OBVIOUS
<1>2. ASSUME NEW e \in E, c \in Newest(a[e]) PROVE c \in Newest(b[e])
  <2>1. PICK T : b[e] = Kept(a[e], T) /\ (c \in Range(a[e]) => c \in T)
    BY <1>1 DEF Thins
  <2>2. c \in Range(a[e])
    BY <1>2, NewestInRange
  <2>3. c \in Newest(Kept(a[e], T))
    BY <1>2, <2>1, <2>2, NewestKept
  <2>4. QED
    BY <2>1, <2>3
<1>3. ASSUME NEW e \in E, c \notin Range(a[e]) PROVE c \notin Range(b[e])
  <2>1. PICK T : b[e] = Kept(a[e], T)
    BY <1>1 DEF Thins
  <2>2. Range(Kept(a[e], T)) = Range(a[e]) \cap T
    BY KeptRange
  <2>3. QED
    BY <1>3, <2>1, <2>2
<1>4. QED
  BY <1>1, <1>2, <1>3 DEF Spared

LEMMA DropAt ==
  ASSUME NEW store, NEW retained, NEW removed, NEW e \in DOMAIN store,
         NEW T, T = retained[e] \cup (Range(store[e]) \ removed)
  PROVE  DropRemovedImages(store, retained, removed)[e] = Kept(store[e], T)
BY DEF DropRemovedImages

LEMMA DropType ==
  ASSUME NEW E, NEW R, NEW store \in [E -> Seq(R)], NEW retained, NEW removed
  PROVE  DropRemovedImages(store, retained, removed) \in [E -> Seq(R)]
<1>1. DOMAIN store = E
  OBVIOUS
<1>2. \A e \in E : Kept(store[e], retained[e] \cup (Range(store[e]) \ removed)) \in Seq(R)
  BY KeptRange
<1>3. QED
  BY <1>1, <1>2 DEF DropRemovedImages

LEMMA RetainedAt ==
  ASSUME NEW store, NEW current, NEW retained, retained = RetainedReleases(store, current),
         NEW e \in DOMAIN store
  PROVE  /\ e \in DOMAIN retained /\ Newest(store[e]) \subseteq retained[e]
         /\ e \in DOMAIN current => current[e] \in retained[e]
         /\ \A c \in retained[e] : c \in Newest(store[e]) \/ (e \in DOMAIN current /\ c = current[e])
BY DEF RetainedReleases

-----------------------------------------------------------------------------
(* Cleanups *)

\* What is spared is no candidate.
LEMMA SparedStays ==
  ASSUME NEW E, NEW R, NEW store \in [E -> Seq(R)], NEW current, NEW c, Spared(store, c)
  PROVE  c \notin PruneCandidates(store, RetainedReleases(store, current))
<1>0. PICK ret : ret = RetainedReleases(store, current)
  OBVIOUS
<1>1. DOMAIN store = E
  OBVIOUS
<1>2. \A e \in E : e \in DOMAIN ret /\ Newest(store[e]) \subseteq ret[e]
  BY <1>0, <1>1, RetainedAt
<1>3. CASE \E e \in E : c \in Newest(store[e])
  <2>1. c \in RetainedImages(ret)
    BY <1>1, <1>2, <1>3 DEF RetainedImages, Range
  <2>2. QED
    BY <1>0, <2>1 DEF PruneCandidates
<1>4. CASE \A e \in E : c \notin Range(store[e])
  BY <1>1, <1>4 DEF PruneCandidates
<1>5. QED
  BY <1>1, <1>3, <1>4 DEF Spared

\* The records that go are of the images that went.
LEMMA DropThins ==
  ASSUME NEW E, NEW R, NEW store \in [E -> Seq(R)], NEW retained, NEW removed, NEW c,
         c \notin removed
  PROVE  Thins(store, DropRemovedImages(store, retained, removed), c)
<1>1. DOMAIN store = E
  OBVIOUS
<1>2. ASSUME NEW e \in E
      PROVE  \E T : /\ DropRemovedImages(store, retained, removed)[e] = Kept(store[e], T)
                    /\ c \in Range(store[e]) => c \in T
  <2>1. PICK T : T = retained[e] \cup (Range(store[e]) \ removed)
    OBVIOUS
  <2>2. DropRemovedImages(store, retained, removed)[e] = Kept(store[e], T)
    BY <1>1, <2>1, DropAt
  <2>3. c \in Range(store[e]) => c \in T
    BY <2>1
  <2>4. QED
    BY <2>2, <2>3
<1>3. QED
  BY <1>1, <1>2 DEF Thins

\* A further document does not tell the two apart.
LEMMA UpsertThins ==
  ASSUME NEW E, NEW R, NEW a \in [E -> Seq(R)], NEW b \in [E -> Seq(R)], NEW c, Thins(a, b, c),
         NEW current, IsCurrent(current, R)
  PROVE  Thins(Upsert(a, current), Upsert(b, current), c)
<1>1. PICK u : u = Upsert(a, current)
  OBVIOUS
<1>2. PICK v : v = Upsert(b, current)
  OBVIOUS
<1>3. u \in [E -> Seq(R)]
  BY <1>1, UpsertType
<1>4. \A e \in E : e \in DOMAIN a /\ e \in DOMAIN b
  OBVIOUS
<1>5. ASSUME NEW e \in E PROVE \E T : v[e] = Kept(u[e], T) /\ (c \in Range(u[e]) => c \in T)
  <2>1. PICK T : b[e] = Kept(a[e], T) /\ (c \in Range(a[e]) => c \in T)
    BY DEF Thins
  <2>2. CASE e \in DOMAIN current
    <3>1. PICK x \in R : x = current[e]
      BY <2>2 DEF IsCurrent
    <3>2. Front(Kept(a[e], T), x) = Kept(Front(a[e], x), T \cup {x})
      BY FrontKept
    <3>3. Range(Front(a[e], x)) = Range(a[e]) \cup {x}
      BY FrontRange
    <3>4. u[e] = Front(a[e], x) /\ v[e] = Front(b[e], x)
      BY <1>1, <1>2, <1>4, <2>2, <3>1, UpsertAt
    <3>5. v[e] = Kept(u[e], T \cup {x})
      BY <2>1, <3>2, <3>4, Zenon
    <3>6. c \in Range(u[e]) => c \in T \cup {x}
      BY <2>1, <3>3, <3>4
    <3>7. QED
      BY <3>5, <3>6, Zenon
  <2>3. CASE e \notin DOMAIN current
    BY <1>1, <1>2, <1>4, <2>1, <2>3, UpsertAt
  <2>4. QED
    BY <2>2, <2>3
<1>6. QED
  BY <1>1, <1>2, <1>3, <1>5 DEF Thins

\* Nor does the document that was just cleaned up after.
LEMMA UpsertDropped ==
  ASSUME NEW E, NEW R, NEW store \in [E -> Seq(R)], NEW current, IsCurrent(current, R),
         NEW seen, seen = Upsert(store, current), NEW removed,
         NEW ret, ret = RetainedReleases(seen, current),
         NEW kept, kept = DropRemovedImages(seen, ret, removed)
  PROVE  kept \in [E -> Seq(R)] /\ Upsert(kept, current) = kept
<1>1. PICK v : v = Upsert(kept, current)
  OBVIOUS
<1>3. seen \in [E -> Seq(R)]
  BY UpsertType
<1>4. kept \in [E -> Seq(R)]
  BY <1>3, DropType
<1>5. \A e \in E : e \in DOMAIN current => current[e] \in ret[e]
  <2>1. DOMAIN seen = E
    BY <1>3
  <2>2. QED
    BY <2>1, RetainedAt
<1>6. v \in [E -> Seq(R)]
  BY <1>1, <1>4, UpsertType
<1>7. ASSUME NEW e \in E PROVE v[e] = kept[e]
  <2>0. e \in DOMAIN store /\ e \in DOMAIN seen /\ e \in DOMAIN kept
    BY <1>3, <1>4
  <2>1. CASE e \in DOMAIN current
    <3>1. PICK x \in R : x = current[e]
      BY <2>1 DEF IsCurrent
    <3>2. PICK T : T = ret[e] \cup (Range(seen[e]) \ removed)
      OBVIOUS
    <3>3. T \cup {x} = T
      BY <1>5, <2>1, <3>1, <3>2
    <3>4. Front(Kept(seen[e], T), x) = Kept(Front(seen[e], x), T \cup {x})
      BY <1>3, FrontKept
    <3>5. seen[e] = Front(store[e], x)
      BY <2>0, <2>1, <3>1, UpsertAt
    <3>6. Front(seen[e], x) = seen[e]
      BY <3>5, FrontTwice
    <3>7. kept[e] = Kept(seen[e], T)
      BY <2>0, <3>2, DropAt
    <3>8. v[e] = Front(kept[e], x)
      BY <1>1, <2>0, <2>1, <3>1, UpsertAt
    <3>9. QED
      BY <3>3, <3>4, <3>6, <3>7, <3>8, Zenon
  <2>2. CASE e \notin DOMAIN current
    BY <1>1, <2>0, <2>2, UpsertAt
  <2>3. QED
    BY <2>1, <2>2
<1>8. v = kept
  BY <1>4, <1>6, <1>7
<1>9. QED
  BY <1>1, <1>4, <1>8

\* PruneCandidates: disk care that removed all it meant to has nothing left to
\* remove until another document is reconciled.  The runs of every few minutes
\* change neither the images nor the store, for any window, any environments
\* and revisions seen in any order.
THEOREM CareSettles ==
  ASSUME NEW E, NEW R, NEW store \in [E -> Seq(R)], NEW current, IsCurrent(current, R),
         NEW seen, seen = Upsert(store, current),
         NEW ret, ret = RetainedReleases(seen, current),
         NEW kept, kept = DropRemovedImages(seen, ret, PruneCandidates(seen, ret))
  PROVE  /\ Upsert(kept, current) = kept
         /\ PruneCandidates(kept, RetainedReleases(kept, current)) = {}
         /\ DropRemovedImages(kept, RetainedReleases(kept, current), {}) = kept
<1>1. PICK doomed : doomed = PruneCandidates(seen, ret)
  OBVIOUS
<1>2. PICK now : now = RetainedReleases(kept, current)
  OBVIOUS
<1>3. kept = DropRemovedImages(seen, ret, doomed)
  BY <1>1
<1>4. seen \in [E -> Seq(R)] /\ kept \in [E -> Seq(R)] /\ Upsert(kept, current) = kept
  <2>1. seen \in [E -> Seq(R)]
    BY UpsertType
  <2>2. kept \in [E -> Seq(R)] /\ Upsert(kept, current) = kept
    BY <1>3, UpsertDropped
  <2>3. QED
    BY <2>1, <2>2
<1>5. DOMAIN seen = E /\ DOMAIN kept = E /\ DOMAIN ret = E /\ DOMAIN now = E
  BY <1>2, <1>4 DEF RetainedReleases
<1>6. ASSUME NEW e \in E
      PROVE  \E T : /\ kept[e] = Kept(seen[e], T)
                    /\ T = ret[e] \cup (Range(seen[e]) \ doomed)
  <2>1. PICK T : T = ret[e] \cup (Range(seen[e]) \ doomed)
    OBVIOUS
  <2>2. kept[e] = Kept(seen[e], T)
    BY <1>3, <1>5, <2>1, DropAt
  <2>3. QED
    BY <2>1, <2>2
<1>7. ASSUME NEW e \in E, NEW x \in ret[e] PROVE x \in now[e]
  <2>1. x \in Newest(seen[e]) \/ (e \in DOMAIN current /\ x = current[e])
    BY <1>5, <1>7, RetainedAt
  <2>2. CASE x \in Newest(seen[e])
    <3>1. x \in Newest(kept[e])
      <4>1. PICK T : kept[e] = Kept(seen[e], T) /\ x \in T
        BY <1>6, <1>7
      <4>2. QED
        BY <1>4, <2>2, <4>1, NewestKept
    <3>2. QED
      BY <1>2, <1>5, <3>1, RetainedAt
  <2>3. CASE e \in DOMAIN current /\ x = current[e]
    BY <1>2, <1>5, <2>3, RetainedAt
  <2>4. QED
    BY <2>1, <2>2, <2>3
<1>8. RetainedImages(ret) \subseteq RetainedImages(now)
  BY <1>5, <1>7 DEF RetainedImages, Range
<1>9. ASSUME NEW e \in E, NEW x \in Range(kept[e]), x \notin now[e]
      PROVE  x \in RetainedImages(now)
  <2>1. x \in Range(seen[e]) /\ (x \in ret[e] \/ x \notin doomed)
    <3>1. PICK T : kept[e] = Kept(seen[e], T) /\ T = ret[e] \cup (Range(seen[e]) \ doomed)
      BY <1>6
    <3>2. Range(kept[e]) = Range(seen[e]) \cap T
      BY <1>4, <3>1, KeptRange
    <3>3. QED
      BY <1>9, <3>1, <3>2
  <2>2. x \notin ret[e]
    BY <1>7, <1>9
  <2>3. x \in RetainedImages(ret)
    BY <1>1, <1>5, <2>1, <2>2 DEF PruneCandidates
  <2>4. QED
    BY <1>8, <2>3
<1>10. PruneCandidates(kept, now) = {}
  BY <1>5, <1>9 DEF PruneCandidates
<1>11. DropRemovedImages(kept, now, {}) = kept
  <2>1. ASSUME NEW e \in E PROVE Kept(kept[e], now[e] \cup (Range(kept[e]) \ {})) = kept[e]
    BY <1>4, KeptAll
  <2>2. QED
    BY <1>4, <1>5, <2>1 DEF DropRemovedImages
<1>12. QED
  BY <1>2, <1>4, <1>10, <1>11

=============================================================================
