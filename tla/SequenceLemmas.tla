--------------------------- MODULE SequenceLemmas ---------------------------
(***************************************************************************)
(* Facts about sequences that the proofs of several components need: what  *)
(* appending does to a sequence of anything, least elements of sets of     *)
(* naturals, and the flattening of a sequence of sequences.                *)
(***************************************************************************)
EXTENDS Integers, SequencesExt, SequenceTheorems, WellFoundedInduction, TLAPS

\* A sequence of anything.
Sequence(s) == s \in Seq(Range(s))

LEMMA SequenceOf == ASSUME NEW S, NEW s \in Seq(S) PROVE Sequence(s)
  <1>1. /\ s \in [1..Len(s) -> S] /\ DOMAIN s = 1..Len(s) /\ Len(s) \in Nat
    BY LenProperties
  <1>2. s \in [1..Len(s) -> Range(s)]
    BY <1>1 DEF Range
  <1>3. QED BY <1>1, <1>2, SeqDef DEF Sequence

LEMMA Lengths ==
  ASSUME NEW s, Sequence(s)
  PROVE  Len(s) \in Nat /\ DOMAIN s = 1..Len(s)
  BY LenProperties DEF Sequence

\* t is s and one more, or two more.
Extends1(t, s, x) ==
  /\ Sequence(t) /\ Len(t) = Len(s) + 1
  /\ \A i \in 1..Len(s) : t[i] = s[i]
  /\ t[Len(s) + 1] = x

Extends2(t, s, x, y) ==
  /\ Sequence(t) /\ Len(t) = Len(s) + 2
  /\ \A i \in 1..Len(s) : t[i] = s[i]
  /\ t[Len(s) + 1] = x /\ t[Len(s) + 2] = y

LEMMA Appended1 ==
  ASSUME NEW s, Sequence(s), NEW x
  PROVE  Extends1(Append(s, x), s, x)
  <1>1. s \in Seq(Range(s) \cup {x})
    BY SeqMonotonic DEF Sequence
  <1>2. /\ Append(s, x) \in Seq(Range(s) \cup {x}) /\ Len(Append(s, x)) = Len(s) + 1
        /\ \A i \in 1..Len(s) : Append(s, x)[i] = s[i]
        /\ Append(s, x)[Len(s) + 1] = x
    BY <1>1, AppendProperties
  <1>3. QED BY <1>2, SequenceOf DEF Extends1

LEMMA Appended2 ==
  ASSUME NEW s, Sequence(s), NEW x, NEW y
  PROVE  Extends2(s \o <<x, y>>, s, x, y)
  <1> DEFINE S == Range(s) \cup {x, y}
  <1>1. s \in Seq(S) /\ <<x, y>> \in Seq(S) /\ Len(<<x, y>>) = 2 /\ <<x, y>>[1] = x /\ <<x, y>>[2] = y
    BY SeqMonotonic DEF Sequence
  <1>2. Len(s) \in Nat
    BY Lengths
  <1>3. /\ s \o <<x, y>> \in Seq(S)
        /\ Len(s \o <<x, y>>) = Len(s) + Len(<<x, y>>)
        /\ \A i \in 1..(Len(s) + Len(<<x, y>>)) :
             (s \o <<x, y>>)[i] = IF i <= Len(s) THEN s[i] ELSE <<x, y>>[i - Len(s)]
    BY <1>1, ConcatProperties
  <1>4. PICK t : t = s \o <<x, y>>
    OBVIOUS
  <1>5. Sequence(t)
    BY <1>3, <1>4, SequenceOf
  <1>6. /\ Len(t) = Len(s) + 2
        /\ \A i \in 1..(Len(s) + 2) : t[i] = IF i <= Len(s) THEN s[i] ELSE <<x, y>>[i - Len(s)]
    BY <1>1, <1>3, <1>4
  <1>7. t[Len(s) + 1] = x /\ t[Len(s) + 2] = y /\ \A i \in 1..Len(s) : t[i] = s[i]
    BY <1>1, <1>2, <1>6
  <1>8. QED BY <1>4, <1>5, <1>6, <1>7 DEF Extends2

\* Two at once are one after the other.
LEMMA OneByOne ==
  ASSUME NEW s, Sequence(s), NEW t, NEW x, NEW y, Extends2(t, s, x, y)
  PROVE  \E u : Sequence(u) /\ Extends1(u, s, x) /\ Extends1(t, u, y)
  <1>1. PICK u : u = Append(s, x)
    OBVIOUS
  <1>2. Extends1(u, s, x) /\ Sequence(u) /\ Len(s) \in Nat
    BY <1>1, Appended1, Lengths DEF Extends1
  <1>3. Len(u) = Len(s) + 1 /\ Len(t) = Len(s) + 2 /\ Len(u) + 1 = Len(s) + 2 /\ Len(t) = Len(u) + 1
    BY <1>2 DEF Extends1, Extends2
  <1>4. \A i \in 1..Len(u) : i \in 1..Len(s) \/ i = Len(s) + 1
    BY <1>2, <1>3
  <1>5. \A i \in 1..Len(u) : t[i] = u[i]
    BY <1>2, <1>4 DEF Extends1, Extends2
  <1>6. t[Len(u) + 1] = y
    BY <1>3 DEF Extends2
  <1>7. QED BY <1>2, <1>3, <1>5, <1>6 DEF Extends1, Extends2

\* Sequences that agree on their first k elements have the same prefix of that length.
LEMMA SamePrefix ==
  ASSUME NEW s, Sequence(s), NEW t, Sequence(t), NEW k \in Nat, k <= Len(s), k <= Len(t),
         \A i \in 1..k : s[i] = t[i]
  PROVE  SubSeq(s, 1, k) = SubSeq(t, 1, k)
  <1>1. /\ Len(s) \in Nat /\ DOMAIN s = 1..Len(s) /\ Len(t) \in Nat /\ DOMAIN t = 1..Len(t)
    BY Lengths
  <1>2. \A i \in 1..k : s[i] \in Range(s) /\ t[i] \in Range(s)
    BY <1>1 DEF Range
  <1>3. k - 1 + 1 = k /\ \A i \in 1..k : 1 + i - 1 = i
    OBVIOUS
  <1>4. /\ SubSeq(s, 1, k) \in Seq(Range(s)) /\ Len(SubSeq(s, 1, k)) = IF 1 <= k THEN k - 1 + 1 ELSE 0
        /\ \A i \in 1..(k - 1 + 1) : SubSeq(s, 1, k)[i] = s[1 + i - 1]
    BY <1>2, SubSeqProperties
  <1>5. /\ SubSeq(t, 1, k) \in Seq(Range(s)) /\ Len(SubSeq(t, 1, k)) = IF 1 <= k THEN k - 1 + 1 ELSE 0
        /\ \A i \in 1..(k - 1 + 1) : SubSeq(t, 1, k)[i] = t[1 + i - 1]
    BY <1>2, SubSeqProperties
  <1>6. Len(SubSeq(s, 1, k)) = k /\ Len(SubSeq(t, 1, k)) = k
    BY <1>4, <1>5
  <1>7. \A i \in 1..k : SubSeq(s, 1, k)[i] = SubSeq(t, 1, k)[i]
    BY <1>3, <1>4, <1>5
  <1>8. QED BY <1>4, <1>5, <1>6, <1>7, SeqEqual

LEMMA LeastNatural ==
  ASSUME NEW S, S \subseteq Nat, S # {}
  PROVE  \E i \in S : \A j \in S : i <= j
  <1>1. PICK i \in S : \A j \in S : ~(<<j, i>> \in OpToRel(<, Nat))
    BY WFMin, NatLessThanWellFounded
  <1>2. \A j \in S : ~(j < i)
    BY <1>1, Zenon DEF OpToRel
  <1>3. \A j \in S : i <= j
    BY <1>2
  <1>4. QED BY <1>3

LEMMA PrefixIsPrefix ==
  ASSUME NEW S, NEW s \in Seq(S), NEW t \in Seq(S), Len(s) <= Len(t), \A i \in 1..Len(s) : s[i] = t[i]
  PROVE  IsPrefix(s, t)
  <1>1. PICK n \in Nat : n = Len(s)
    BY LenProperties
  <1>2. \A i \in 1..n : t[i] \in S
    BY <1>1, ElementOfSeq
  <1>3. /\ SubSeq(t, 1, n) \in Seq(S) /\ Len(SubSeq(t, 1, n)) = n
        /\ \A i \in 1..n : SubSeq(t, 1, n)[i] = t[i]
    <2>1. /\ SubSeq(t, 1, n) \in Seq(S)
          /\ Len(SubSeq(t, 1, n)) = IF 1 <= n THEN n - 1 + 1 ELSE 0
          /\ \A i \in 1..(n - 1 + 1) : SubSeq(t, 1, n)[i] = t[1 + i - 1]
      BY <1>1, <1>2, SubSeqProperties
    <2>2. n - 1 + 1 = n /\ \A i \in 1..n : 1 + i - 1 = i
      BY <1>1
    <2>3. QED BY <1>1, <2>1, <2>2
  <1>4. SubSeq(t, 1, n) = s
    BY <1>1, <1>3, SeqEqual
  <1>5. SubSeq(s, 1, n) = s
    BY <1>1, SubSeqFull
  <1>6. QED BY <1>1, <1>4, <1>5 DEF IsPrefix

-----------------------------------------------------------------------------
\* FlattenSeq is a function defined by recursion, flat one that satisfies its equation.

Flat(ss, m, f) == f = [i \in 1..m |-> IF i = 1 THEN ss[i] ELSE f[i - 1] \o ss[i]]

LEMMA FlatSteps ==
  ASSUME NEW ss, NEW m, NEW f, Flat(ss, m, f)
  PROVE  \A i \in 1..m : f[i] = IF i = 1 THEN ss[i] ELSE f[i - 1] \o ss[i]
  BY DEF Flat

LEMMA FlatExists ==
  ASSUME NEW ss, NEW n \in Nat \ {0}
  PROVE  \E f : Flat(ss, n, f)
  <1> DEFINE Bad == {m \in Nat \ {0} : ~\E f : Flat(ss, m, f)}
  <1>1. SUFFICES ASSUME Bad # {} PROVE FALSE
    OBVIOUS
  <1>2. PICK m \in Bad : \A k \in Bad : m <= k
    BY <1>1, LeastNatural
  <1>3. CASE m = 1
    <2>1. Flat(ss, 1, [i \in 1..1 |-> ss[i]])
      BY DEF Flat
    <2>2. QED BY <1>3, <2>1
  <1>4. CASE m # 1
    <2>1. m - 1 \in Nat \ {0} /\ m - 1 \notin Bad
      BY <1>2, <1>4
    <2>2. PICK g : Flat(ss, m - 1, g)
      BY <2>1
    <2>3. PICK f : f = [i \in 1..m |-> IF i = 1 THEN ss[i] ELSE g[i - 1] \o ss[i]]
      OBVIOUS
    <2>4. \A i \in 1..(m - 1) : f[i] = g[i]
      <3>1. \A i \in 1..(m - 1) : i \in 1..m
        BY <1>2
      <3>2. QED BY <2>2, <2>3, <3>1, FlatSteps
    <2>5. \A i \in 1..m : i # 1 => f[i - 1] = g[i - 1]
      BY <2>1, <2>4
    <2>6. f = [i \in 1..m |-> IF i = 1 THEN ss[i] ELSE f[i - 1] \o ss[i]]
      BY <2>3, <2>5
    <2>7. Flat(ss, m, f)
      BY <2>6 DEF Flat
    <2>8. QED BY <1>2, <2>7
  <1>5. QED BY <1>3, <1>4

LEMMA FlattenIsFlat ==
  ASSUME NEW ss, Len(ss) \in Nat \ {0}
  PROVE  \E f : Flat(ss, Len(ss), f) /\ FlattenSeq(ss) = f[Len(ss)]
  <1> DEFINE f == CHOOSE f : Flat(ss, Len(ss), f)
  <1>1. Flat(ss, Len(ss), f)
    BY FlatExists
  <1>2. FlattenSeq(ss) = f[Len(ss)]
    BY DEF FlattenSeq, Flat
  <1>3. QED BY <1>1, <1>2

LEMMA FlatShape ==
  ASSUME NEW S, NEW ss \in Seq(Seq(S)), NEW f, Flat(ss, Len(ss), f)
  PROVE  \A i \in 1..Len(ss) : f[i] \in Seq(S)
  <1> DEFINE Bad == {i \in 1..Len(ss) : f[i] \notin Seq(S)}
  <1>0. Len(ss) \in Nat /\ \A i \in 1..Len(ss) : ss[i] \in Seq(S)
    BY LenProperties, ElementOfSeq
  <1>1. SUFFICES ASSUME Bad # {} PROVE FALSE
    OBVIOUS
  <1>2. PICK i \in Bad : \A k \in Bad : i <= k
    <2>1. Bad \subseteq Nat
      BY <1>0
    <2>2. QED BY <1>1, <2>1, LeastNatural
  <1>3. i # 1
    BY <1>0, FlatSteps
  <1>4. i - 1 \in 1..Len(ss) /\ i - 1 \notin Bad
    BY <1>0, <1>2, <1>3
  <1>5. f[i] = f[i - 1] \o ss[i]
    <2>1. \A k \in 1..Len(ss) : f[k] = IF k = 1 THEN ss[k] ELSE f[k - 1] \o ss[k]
      BY FlatSteps
    <2>2. QED BY <1>3, <2>1
  <1>6. f[i - 1] \in Seq(S) /\ ss[i] \in Seq(S)
    BY <1>0, <1>4
  <1>7. QED BY <1>5, <1>6, ConcatProperties

LEMMA FlattenType ==
  ASSUME NEW S, NEW ss \in Seq(Seq(S))
  PROVE  FlattenSeq(ss) \in Seq(S)
  <1>1. Len(ss) \in Nat /\ (Len(ss) = 0 => ss = <<>>)
    BY LenProperties, EmptySeq
  <1>2. CASE Len(ss) = 0
    BY <1>1, <1>2, EmptySeq DEF FlattenSeq
  <1>3. CASE Len(ss) # 0
    <2>1. PICK f : Flat(ss, Len(ss), f) /\ FlattenSeq(ss) = f[Len(ss)]
      BY <1>1, <1>3, FlattenIsFlat
    <2>2. QED BY <1>1, <1>3, <2>1, FlatShape
  <1>4. QED BY <1>2, <1>3

LEMMA FlattenAppend ==
  ASSUME NEW S, NEW ss \in Seq(Seq(S)), NEW s \in Seq(S)
  PROVE  FlattenSeq(Append(ss, s)) = FlattenSeq(ss) \o s
  <1> DEFINE n == Len(ss)   tt == Append(ss, s)
  <1>1. n \in Nat /\ (n = 0 => ss = <<>>)
    BY LenProperties, EmptySeq
  <1>2. /\ tt \in Seq(Seq(S)) /\ Len(tt) = n + 1 /\ tt[n + 1] = s
        /\ \A i \in 1..n : tt[i] = ss[i]
    BY AppendProperties
  <1> HIDE DEF tt
  <1>3. PICK g : Flat(tt, n + 1, g) /\ FlattenSeq(tt) = g[n + 1]
    BY <1>1, <1>2, FlattenIsFlat
  <1>4. CASE n = 0
    <2>1. FlattenSeq(tt) = s
      BY <1>2, <1>3, <1>4 DEF Flat
    <2>2. FlattenSeq(ss) = <<>>
      BY <1>1, <1>4 DEF FlattenSeq
    <2>3. QED BY <2>1, <2>2, ConcatEmptySeq DEF tt
  <1>5. CASE n # 0
    <2>1. PICK f : Flat(ss, n, f) /\ FlattenSeq(ss) = f[n]
      BY <1>1, <1>5, FlattenIsFlat
    <2> DEFINE Bad == {i \in 1..n : g[i] # f[i]}
    <2>2. Bad = {}
      <3>1. SUFFICES ASSUME Bad # {} PROVE FALSE
        OBVIOUS
      <3>2. PICK i \in Bad : \A k \in Bad : i <= k
        <4>1. Bad \subseteq Nat
          BY <1>1
        <4>2. QED BY <3>1, <4>1, LeastNatural
      <3>3. i \in 1..n /\ i \in 1..(n + 1) /\ tt[i] = ss[i]
        BY <1>1, <1>2
      <3>4. /\ f[i] = IF i = 1 THEN ss[i] ELSE f[i - 1] \o ss[i]
            /\ g[i] = IF i = 1 THEN tt[i] ELSE g[i - 1] \o tt[i]
        BY <1>3, <2>1, <3>3, FlatSteps
      <3>5. i # 1
        BY <3>3, <3>4
      <3>6. i - 1 \in 1..n /\ i - 1 < i
        BY <1>1, <3>3, <3>5
      <3>7. i - 1 \notin Bad
        BY <3>2, <3>6
      <3>8. QED BY <3>3, <3>4, <3>5, <3>6, <3>7
    <2>3. g[n] = f[n]
      BY <1>1, <1>5, <2>2
    <2>4. g[n + 1] = g[n] \o s
      <3>1. n + 1 \in 1..(n + 1) /\ n + 1 # 1 /\ (n + 1) - 1 = n
        BY <1>1, <1>5
      <3>2. \A i \in 1..(n + 1) : g[i] = IF i = 1 THEN tt[i] ELSE g[i - 1] \o tt[i]
        BY <1>3, FlatSteps
      <3>3. g[n + 1] = IF n + 1 = 1 THEN tt[n + 1] ELSE g[(n + 1) - 1] \o tt[n + 1]
        BY <3>1, <3>2
      <3>4. QED BY <1>2, <3>1, <3>3
    <2>5. QED BY <1>3, <2>1, <2>3, <2>4 DEF tt
  <1>6. QED BY <1>4, <1>5
=============================================================================
