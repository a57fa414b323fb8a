------------------------------ MODULE ListLemmas ------------------------------
(***************************************************************************)
(* What appending to a list, taking an entry out of one, and flattening a  *)
(* list of lists do to the set of the entries, and to the absence of       *)
(* repetitions.                                                            *)
(***************************************************************************)
EXTENDS SequencesExt, SequenceTheorems, WellFoundedInduction, TLAPS

\* Appending a new entry, as add_tenant() does, keeps a list free of repetitions
\* and adds that one entry to its range.
LEMMA AppendNew ==
    ASSUME NEW S, NEW s \in Seq(S), NEW e \in S, e \notin Range(s), IsInjective(s)
    PROVE  /\ Append(s, e) \in Seq(S)
           /\ IsInjective(Append(s, e))
           /\ Range(Append(s, e)) = Range(s) \cup {e}
<1> DEFINE a == Append(s, e)
<1>1. /\ a \in Seq(S)
      /\ Len(a) = Len(s) + 1
      /\ \A i \in 1 .. Len(s) : a[i] = s[i]
      /\ a[Len(s) + 1] = e
  BY AppendProperties
<1>2. /\ Len(s) \in Nat
      /\ DOMAIN s = 1 .. Len(s)
      /\ DOMAIN a = 1 .. Len(s) + 1
  BY <1>1, LenProperties
<1>3. Range(a) = Range(s) \cup {e}
  BY <1>1, <1>2 DEF Range
<1>4. IsInjective(a)
  BY <1>1, <1>2 DEF IsInjective, Range
<1> QED
  BY <1>1, <1>3, <1>4

\* The entries of RemoveAt(s, i), position by position.
LEMMA RemoveAtEntries ==
    ASSUME NEW S, NEW s \in Seq(S), NEW i \in DOMAIN s
    PROVE  /\ RemoveAt(s, i) \in Seq(S)
           /\ Len(RemoveAt(s, i)) = Len(s) - 1
           /\ DOMAIN RemoveAt(s, i) = 1 .. Len(s) - 1
           /\ \A j \in 1 .. Len(s) - 1 :
                 RemoveAt(s, i)[j] = IF j < i THEN s[j] ELSE s[j + 1]
<1> DEFINE front == SubSeq(s, 1, i - 1)
           back == SubSeq(s, i + 1, Len(s))
<1>1. Len(s) \in Nat /\ i \in 1 .. Len(s)
  BY LenProperties
<1>2. /\ front \in Seq(S)
      /\ Len(front) = i - 1
      /\ \A j \in 1 .. i - 1 : front[j] = s[j]
  BY <1>1, SubSeqProperties
<1>3. /\ back \in Seq(S)
      /\ Len(back) = Len(s) - i
      /\ \A j \in 1 .. Len(s) - i : back[j] = s[i + j]
  BY <1>1, SubSeqProperties
<1> HIDE DEF front, back
<1>4. /\ front \o back \in Seq(S)
      /\ Len(front \o back) = Len(front) + Len(back)
      /\ \A j \in 1 .. Len(front) + Len(back) :
            (front \o back)[j] =
                IF j <= Len(front) THEN front[j] ELSE back[j - Len(front)]
  BY <1>2, <1>3, ConcatProperties
<1>5. DOMAIN (front \o back) = 1 .. Len(s) - 1
  BY <1>1, <1>2, <1>3, <1>4, LenProperties
<1>6. ASSUME NEW j \in 1 .. Len(s) - 1
      PROVE  (front \o back)[j] = IF j < i THEN s[j] ELSE s[j + 1]
  <2>0. (front \o back)[j] = IF j <= i - 1 THEN front[j] ELSE back[j - (i - 1)]
    <3>1. /\ Len(front) = i - 1
          /\ j \in 1 .. Len(front) + Len(back)
      BY <1>1, <1>2, <1>3
    <3>2. (front \o back)[j] =
             IF j <= Len(front) THEN front[j] ELSE back[j - Len(front)]
      BY <1>4, <3>1
    <3> QED
      BY ONLY <3>1, <3>2
  <2>1. CASE j < i
    BY <2>0, <2>1, <1>1, <1>2
  <2>2. CASE ~(j < i)
    <3>1. j - (i - 1) \in 1 .. Len(s) - i /\ i + (j - (i - 1)) = j + 1
      BY <2>2, <1>1
    <3>2. back[j - (i - 1)] = s[i + (j - (i - 1))]
      BY <3>1, <1>3
    <3>3. ~(j <= i - 1)
      BY <2>2, <1>1
    <3> QED
      BY <2>0, <2>2, <3>1, <3>2, <3>3
  <2> QED
    BY <2>1, <2>2
<1>7. /\ front \o back \in Seq(S)
      /\ Len(front \o back) = Len(s) - 1
  BY <1>1, <1>2, <1>3, <1>4
<1> QED
  BY <1>5, <1>6, <1>7 DEF RemoveAt, front, back

\* Taking an entry out of a list free of repetitions, as remove_tenant() does,
\* takes it out of the range and leaves no repetition.
LEMMA RemoveAtInjective ==
    ASSUME NEW S, NEW s \in Seq(S), NEW i \in DOMAIN s, IsInjective(s)
    PROVE  /\ RemoveAt(s, i) \in Seq(S)
           /\ IsInjective(RemoveAt(s, i))
           /\ Range(RemoveAt(s, i)) = Range(s) \ {s[i]}
<1> DEFINE a == RemoveAt(s, i)
           From(j) == IF j < i THEN j ELSE j + 1
<1>1. /\ Len(s) \in Nat
      /\ DOMAIN s = 1 .. Len(s)
      /\ i \in 1 .. Len(s)
  BY LenProperties
<1>2. /\ a \in Seq(S)
      /\ DOMAIN a = 1 .. Len(s) - 1
      /\ \A j \in 1 .. Len(s) - 1 : a[j] = s[From(j)]
  BY RemoveAtEntries
<1>3. \A j \in 1 .. Len(s) - 1 : From(j) \in 1 .. Len(s) /\ From(j) # i
  BY <1>1
<1>4. \A j, k \in 1 .. Len(s) - 1 : From(j) = From(k) => j = k
  BY <1>1
<1>5. \A j, k \in 1 .. Len(s) : s[j] = s[k] => j = k
  BY <1>1 DEF IsInjective
<1>6. IsInjective(a)
  BY <1>2, <1>3, <1>4, <1>5 DEF IsInjective
<1>7. \A k \in 1 .. Len(s) : k # i => \E j \in 1 .. Len(s) - 1 : From(j) = k
  <2> SUFFICES ASSUME NEW k \in 1 .. Len(s), k # i
               PROVE  \E j \in 1 .. Len(s) - 1 : From(j) = k
    OBVIOUS
  <2>1. CASE k < i
    BY <2>1, <1>1
  <2>2. CASE k > i
    <3>1. k - 1 \in 1 .. Len(s) - 1 /\ From(k - 1) = k
      BY <2>2, <1>1
    <3> QED
      BY <3>1
  <2> QED
    BY <2>1, <2>2, <1>1
<1>8. Range(a) = Range(s) \ {s[i]}
  <2>1. ASSUME NEW e \in Range(a) PROVE e \in Range(s) \ {s[i]}
    BY <1>1, <1>2, <1>3, <1>5 DEF Range
  <2>2. ASSUME NEW e \in Range(s) \ {s[i]} PROVE e \in Range(a)
    <3>1. PICK k \in 1 .. Len(s) : e = s[k] /\ k # i
      BY <1>1 DEF Range
    <3>2. PICK j \in 1 .. Len(s) - 1 : From(j) = k
      BY <3>1, <1>7
    <3> QED
      BY <3>1, <3>2, <1>2 DEF Range
  <2> QED
    BY <2>1, <2>2
<1> QED
  BY <1>2, <1>6, <1>8

\* RemoveAt yields a sequence over the same set, whatever it takes out.
LEMMA RemoveAtType ==
    ASSUME NEW S, NEW s \in Seq(S), NEW i \in DOMAIN s
    PROVE  RemoveAt(s, i) \in Seq(S)
BY RemoveAtEntries

\* An enumeration of a finite set is a list of it without repetition.
LEMMA EnumerationIsList ==
    ASSUME NEW S, Cardinality(S) \in Nat,
           NEW order \in Bijection(1 .. Cardinality(S), S)
    PROVE  /\ << >> \o order = order
           /\ order \in Seq(S)
           /\ IsInjective(order)
           /\ Range(order) = S
<1>1. order \in Seq(S)
  BY DEF Bijection, Injection, Surjection
<1>2. << >> \o order = order
  BY <1>1, ConcatEmptySeq
<1>3. IsInjective(order)
  BY DEF Bijection, Injection, IsInjective
<1>4. Range(order) = S
  BY DEF Bijection, Injection, Surjection, Range
<1> QED
  BY <1>1, <1>2, <1>3, <1>4

-----------------------------------------------------------------------------
(* Least numbers, and lists that are put together from lists.              *)

\* A set of numbers has a least one: induction, in the form used here.
LEMMA LeastNatural ==
    ASSUME NEW S \in SUBSET Nat, S # {}
    PROVE  \E m \in S : \A n \in S : m <= n
<1>1. PICK m \in S : \A n \in S : ~(<<n, m>> \in OpToRel(<, Nat))
  <2>1. IsWellFoundedOn(OpToRel(<, Nat), Nat)
    BY NatLessThanWellFounded
  <2> QED
    BY <2>1, WFMin
<1>2. ASSUME NEW n \in S PROVE m <= n
  <2>1. ~(n < m)
    BY <1>1 DEF OpToRel
  <2> QED
    BY <2>1
<1> QED
  BY <1>2

\* Min(S) is the least number of a set that has any.
LEMMA MinIsLeast ==
    ASSUME NEW S \in SUBSET Nat, S # {}
    PROVE  Min(S) \in S /\ \A n \in S : Min(S) <= n
BY LeastNatural DEF Min

\* What holds of 1, and of n + 1 if it holds of n, holds up to the bound.
LEMMA UpTo ==
    ASSUME NEW n \in Nat, NEW Good,
           1 \in Good,
           \A i \in 1 .. n : i # n /\ i \in Good => i + 1 \in Good
    PROVE  1 .. n \subseteq Good
<1> DEFINE Bad == (1 .. n) \ Good
<1> SUFFICES ASSUME Bad # {} PROVE FALSE
  OBVIOUS
<1>0. Bad \in SUBSET Nat
  OBVIOUS
<1> HIDE DEF Bad
<1>1. PICK m \in Bad : \A k \in Bad : m <= k
  BY <1>0, LeastNatural
<1> USE DEF Bad
<1>2. m - 1 \in 1 .. n /\ m - 1 # n /\ m - 1 \in Good
  BY <1>1
<1>3. (m - 1) + 1 = m
  BY <1>1
<1> QED
  BY <1>1, <1>2, <1>3

\* The function with which FlattenSeq appends list after list.
Flattens(f, seqs, n) ==
    f = [i \in 1 .. n |-> IF i = 1 THEN seqs[i] ELSE f[i - 1] \o seqs[i]]

\* There is such a function, for any number of lists.
LEMMA FlattensExists ==
    ASSUME NEW seqs, NEW n \in Nat, n # 0
    PROVE  \E f : Flattens(f, seqs, n)
<1> DEFINE Good == { m \in 1 .. n : \E f : Flattens(f, seqs, m) }
<1>1. 1 \in Good
  <2> DEFINE f == [i \in 1 .. 1 |-> seqs[i]]
  <2>1. Flattens(f, seqs, 1)
    BY DEF Flattens
  <2> QED
    BY <2>1
<1>2. ASSUME NEW m \in 1 .. n, m # n, m \in Good PROVE m + 1 \in Good
  <2>1. PICK f : Flattens(f, seqs, m)
    BY <1>2
  <2> DEFINE h == [i \in 1 .. m + 1 |-> IF i = m + 1 THEN f[m] \o seqs[i] ELSE f[i]]
             step == [i \in 1 .. m + 1 |-> IF i = 1 THEN seqs[i] ELSE h[i - 1] \o seqs[i]]
  <2>2. ASSUME NEW i \in 1 .. m + 1 PROVE h[i] = step[i]
    <3>1. CASE i = m + 1
      <4>1. i # 1 /\ i - 1 \in 1 .. m + 1 /\ i - 1 # m + 1 /\ i - 1 = m
        BY <3>1
      <4> QED
        BY <3>1, <4>1
    <3>2. CASE i # m + 1
      <4>1. i \in 1 .. m
        BY <3>2
      <4>2. f[i] = IF i = 1 THEN seqs[i] ELSE f[i - 1] \o seqs[i]
        BY <4>1, <2>1 DEF Flattens
      <4>3. i # 1 => i - 1 \in 1 .. m + 1 /\ i - 1 # m + 1
        BY <4>1
      <4> QED
        BY <3>2, <4>2, <4>3
    <3> QED
      BY <3>1, <3>2
  <2>3. h = step
    BY <2>2
  <2>4. Flattens(h, seqs, m + 1)
    BY <2>3 DEF Flattens
  <2>5. m + 1 \in 1 .. n
    BY <1>2
  <2> HIDE DEF h
  <2> QED
    BY <2>4, <2>5
<1> HIDE DEF Good
<1>3. 1 .. n \subseteq Good
  BY <1>1, <1>2, UpTo
<1> QED
  BY <1>3 DEF Good

\* The entries of the first lists.
EntriesUpTo(seqs, k) == UNION { Range(seqs[j]) : j \in 1 .. k }

\* Such a function has, at each place, the entries of the lists up to there.
LEMMA FlattensRange ==
    ASSUME NEW S, NEW seqs \in Seq(Seq(S)), NEW f, Flattens(f, seqs, Len(seqs)),
           NEW i \in 1 .. Len(seqs)
    PROVE  /\ f[i] \in Seq(S)
           /\ Range(f[i]) = EntriesUpTo(seqs, i)
<1> DEFINE n == Len(seqs)
           Good == { k \in 1 .. n : f[k] \in Seq(S) /\ Range(f[k]) = EntriesUpTo(seqs, k) }
<1>0. n \in Nat /\ \A k \in 1 .. n : seqs[k] \in Seq(S)
  BY LenProperties, ElementOfSeq
<1>1. 1 \in Good
  <2>1. 1 \in 1 .. n
    BY <1>0
  <2>2. f[1] = seqs[1]
    BY <2>1 DEF Flattens
  <2>3. EntriesUpTo(seqs, 1) = Range(seqs[1])
    BY DEF EntriesUpTo
  <2> QED
    BY <1>0, <2>1, <2>2, <2>3
<1>2. ASSUME NEW k \in 1 .. n, k # n, k \in Good PROVE k + 1 \in Good
  <2>1. k + 1 \in 1 .. n /\ k + 1 # 1 /\ (k + 1) - 1 = k
    BY <1>0, <1>2
  <2>2. f[k + 1] = f[k] \o seqs[k + 1]
    BY <2>1 DEF Flattens
  <2>3. f[k] \in Seq(S) /\ seqs[k + 1] \in Seq(S) /\ Range(f[k]) = EntriesUpTo(seqs, k)
    BY <1>0, <1>2, <2>1
  <2> HIDE DEF Good
  <2>4. f[k + 1] \in Seq(S) /\ Range(f[k + 1]) = EntriesUpTo(seqs, k) \cup Range(seqs[k + 1])
    BY <2>2, <2>3, ConcatProperties, RangeConcatenation
  <2>5. EntriesUpTo(seqs, k + 1) = EntriesUpTo(seqs, k) \cup Range(seqs[k + 1])
    <3>1. 1 .. k + 1 = (1 .. k) \cup {k + 1}
      BY <1>0, <1>2
    <3> QED
      BY <3>1 DEF EntriesUpTo
  <2> QED
    BY <2>1, <2>4, <2>5 DEF Good
<1> HIDE DEF Good
<1>3. 1 .. n \subseteq Good
  BY <1>0, <1>1, <1>2, UpTo
<1> QED
  BY <1>3 DEF Good

\* FlattenSeq(seqs) is a list of the entries of all the lists.
LEMMA FlattenSeqRange ==
    ASSUME NEW S, NEW seqs \in Seq(Seq(S))
    PROVE  /\ FlattenSeq(seqs) \in Seq(S)
           /\ \A e : e \in Range(FlattenSeq(seqs)) <=>
                       \E i \in DOMAIN seqs : e \in Range(seqs[i])
<1> DEFINE n == Len(seqs)
<1>0. n \in Nat /\ DOMAIN seqs = 1 .. n
  BY LenProperties
<1>1. CASE n = 0
  <2>1. seqs = << >>
    BY <1>1, EmptySeq
  <2>2. FlattenSeq(seqs) = << >>
    BY <2>1, <1>1 DEF FlattenSeq
  <2>3. Range(<< >>) = {} /\ << >> \in Seq(S)
    BY DEF Range
  <2>4. DOMAIN seqs = {}
    BY <1>0, <1>1
  <2> QED
    BY <2>2, <2>3, <2>4
<1>2. CASE n # 0
  <2>1. PICK f : f = FlattenSeq(seqs)
    OBVIOUS
  <2>2. \E g : Flattens(g, seqs, n) /\ f = g[n]
    BY <1>0, <1>2, <2>1, FlattensExists DEF FlattenSeq, Flattens
  <2>3. PICK g : Flattens(g, seqs, n) /\ f = g[n]
    BY <2>2
  <2>4. n \in 1 .. n
    BY <1>0, <1>2
  <2>5. g[n] \in Seq(S) /\ Range(g[n]) = EntriesUpTo(seqs, n)
    BY <2>3, <2>4, FlattensRange
  <2> QED
    BY <1>0, <2>1, <2>3, <2>5 DEF EntriesUpTo
<1> QED
  BY <1>1, <1>2

\* Two lists without repetition that share no entry make one.
LEMMA ConcatInjective ==
    ASSUME NEW S, NEW s \in Seq(S), NEW r \in Seq(S), IsInjective(s), IsInjective(r),
           Range(s) \cap Range(r) = {}
    PROVE  IsInjective(s \o r)
<1>1. /\ Len(s) \in Nat /\ DOMAIN s = 1 .. Len(s)
      /\ Len(r) \in Nat /\ DOMAIN r = 1 .. Len(r)
  BY LenProperties
<1>2. PICK c : c = s \o r
  OBVIOUS
<1>3. /\ c \in Seq(S) /\ Len(c) = Len(s) + Len(r)
      /\ \A i \in 1 .. Len(s) + Len(r) :
            c[i] = IF i <= Len(s) THEN s[i] ELSE r[i - Len(s)]
  BY <1>2, ConcatProperties
<1>4. DOMAIN c = 1 .. Len(s) + Len(r)
  BY <1>3, LenProperties
<1>5. ASSUME NEW i \in DOMAIN c
      PROVE  /\ i <= Len(s) => i \in DOMAIN s /\ c[i] = s[i] /\ c[i] \in Range(s)
             /\ ~(i <= Len(s)) =>
                   i - Len(s) \in DOMAIN r /\ c[i] = r[i - Len(s)] /\ c[i] \in Range(r)
  BY <1>1, <1>3, <1>4 DEF Range
<1>6. ASSUME NEW i \in DOMAIN c, NEW j \in DOMAIN c, c[i] = c[j]
      PROVE  i = j
  <2>1. CASE i <= Len(s) /\ j <= Len(s)
    BY <1>5, <1>6, <2>1 DEF IsInjective
  <2>2. CASE ~(i <= Len(s)) /\ ~(j <= Len(s))
    <3>1. i - Len(s) = j - Len(s)
      BY <1>5, <1>6, <2>2 DEF IsInjective
    <3> QED
      BY <1>1, <1>4, <3>1
  <2> QED
    BY <1>5, <1>6, <2>1, <2>2
<1> QED
  BY <1>2, <1>6 DEF IsInjective

\* Lists without repetition, of which no two share an entry.
Disjoint(seqs) ==
    /\ \A i \in DOMAIN seqs : IsInjective(seqs[i])
    /\ \A i, j \in DOMAIN seqs : i # j => Range(seqs[i]) \cap Range(seqs[j]) = {}

\* Such lists put together have no repetition.
LEMMA FlattenSeqInjective ==
    ASSUME NEW S, NEW seqs \in Seq(Seq(S)), Disjoint(seqs)
    PROVE  IsInjective(FlattenSeq(seqs))
<1> DEFINE n == Len(seqs)
<1>0. n \in Nat /\ DOMAIN seqs = 1 .. n /\ \A k \in 1 .. n : seqs[k] \in Seq(S)
  BY LenProperties, ElementOfSeq
<1>1. CASE n = 0
  <2>1. FlattenSeq(seqs) = << >>
    BY <1>1, EmptySeq DEF FlattenSeq
  <2> QED
    BY <2>1 DEF IsInjective
<1>2. CASE n # 0
  <2>1. PICK f : f = FlattenSeq(seqs)
    OBVIOUS
  <2>2. \E g : Flattens(g, seqs, n) /\ f = g[n]
    BY <1>0, <1>2, <2>1, FlattensExists DEF FlattenSeq, Flattens
  <2>3. PICK g : Flattens(g, seqs, n) /\ f = g[n]
    BY <2>2
  <2> DEFINE Good == { k \in 1 .. n : IsInjective(g[k]) }
  <2>4. 1 \in Good
    <3>1. 1 \in 1 .. n
      BY <1>0, <1>2
    <3>2. g[1] = seqs[1]
      BY <2>3, <3>1 DEF Flattens
    <3> QED
      BY <1>0, <3>1, <3>2 DEF Disjoint
  <2>5. ASSUME NEW k \in 1 .. n, k # n, k \in Good PROVE k + 1 \in Good
    <3>0. n \in Nat /\ k \in 1 .. n /\ k # n
      BY <1>0, <2>5
    <3> HIDE DEF n
    <3>1. k + 1 \in 1 .. n /\ k + 1 # 1 /\ (k + 1) - 1 = k
      BY <3>0
    <3>2. g[k + 1] = g[k] \o seqs[k + 1]
      BY <2>3, <3>1 DEF Flattens
    <3>3. g[k] \in Seq(S) /\ Range(g[k]) = EntriesUpTo(seqs, k)
      BY <2>3, FlattensRange DEF n
    <3>4. EntriesUpTo(seqs, k) \cap Range(seqs[k + 1]) = {}
      <4>1. \A j \in 1 .. k : j \in 1 .. n /\ j # k + 1
        BY <3>0
      <4> QED
        BY <1>0, <3>1, <4>1 DEF EntriesUpTo, Disjoint
    <3>5. IsInjective(g[k]) /\ IsInjective(seqs[k + 1]) /\ seqs[k + 1] \in Seq(S)
      BY <1>0, <2>5, <3>1 DEF Disjoint
    <3>6. IsInjective(g[k + 1])
      BY <3>2, <3>3, <3>4, <3>5, ConcatInjective
    <3> QED
      BY <3>1, <3>6
  <2> HIDE DEF Good
  <2>6. 1 .. n \subseteq Good
    BY <1>0, <2>4, <2>5, UpTo
  <2> QED
    BY <1>0, <1>2, <2>1, <2>3, <2>6 DEF Good
<1> QED
  BY <1>0, <1>1, <1>2
=============================================================================
