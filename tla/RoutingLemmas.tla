----------------------------- MODULE RoutingLemmas -----------------------------
(***************************************************************************)
(* What the counts of TenantRouting amount to: which tenants get a series  *)
(* at all, and what putting it into a request does to the request.         *)
(***************************************************************************)
EXTENDS TenantRouting, SequenceTheorems, FiniteSetTheorems, TLAPS

\* A tenant counts in a list as often as it is mentioned: at all, if mentioned.
LEMMA TimesOfMentioned ==
    ASSUME NEW S, NEW seq \in Seq(S), NEW t
    PROVE  /\ Times(seq, t) \in Nat
           /\ Times(seq, t) > 0 <=> t \in Range(seq)
<1> DEFINE at == { i \in DOMAIN seq : seq[i] = t }
<1>1. IsFiniteSet(at)
  <2>1. DOMAIN seq = 1 .. Len(seq) /\ Len(seq) \in Nat
    BY LenProperties
  <2>2. IsFiniteSet(1 .. Len(seq))
    BY <2>1, FS_Interval
  <2> QED
    BY <2>1, <2>2, FS_Subset
<1>2. Cardinality(at) \in Nat /\ (Cardinality(at) = 0 <=> at = {})
  BY <1>1, FS_CardinalityType, FS_EmptySet
<1>3. at # {} <=> t \in Range(seq)
  BY DEF Range
<1> QED
  BY <1>2, <1>3 DEF Times

\* With allow-listing a series is put into the request of a tenant if and only
\* if everything is replicated to the tenant, or one of the series' labels names
\* the tenant and the allow-list does (metrics.rs, 60-96).
LEMMA CopiesOfEntitled ==
    ASSUME NEW S, NEW replicate \in Seq(S), NEW t, NEW serie, NEW labels, NEW allow
    PROVE  /\ Copies(serie, t, labels, allow, TRUE, replicate) \in Nat
           /\ Copies(serie, t, labels, allow, TRUE, replicate) > 0
                <=> \/ t \in Range(replicate)
                    \/ t \in Range(allow) /\ t \in LabelTenants(serie, labels)
<1> DEFINE labelled == t \in Range(allow) \cap LabelTenants(serie, labels)
           n == IF labelled THEN 1 ELSE 0
           c == Copies(serie, t, labels, allow, TRUE, replicate)
<1>1. c = Times(replicate, t) + n
  BY DEF Copies
<1>2. /\ Times(replicate, t) \in Nat
      /\ Times(replicate, t) > 0 <=> t \in Range(replicate)
  BY TimesOfMentioned
<1> HIDE DEF c
<1>3. CASE labelled
  <2>1. c \in Nat /\ c > 0
    BY <1>1, <1>2, <1>3
  <2> QED
    BY <2>1, <1>3 DEF c
<1>4. CASE ~labelled
  <2>1. c = Times(replicate, t)
    BY <1>1, <1>2, <1>4
  <2>2. c \in Nat /\ (c > 0 <=> t \in Range(replicate))
    BY <2>1, <1>2
  <2> QED
    BY <2>2, <1>4 DEF c
<1> QED
  BY <1>3, <1>4

-----------------------------------------------------------------------------
(* The request of a tenant as its series are put into it.                  *)

\* n copies of x are put at the end of data.
Extended(more, data, x, n) ==
    /\ DOMAIN more = 1 .. Len(data) + n
    /\ \A i \in 1 .. Len(data) : more[i] = data[i]
    /\ \A i \in Len(data) + 1 .. Len(data) + n : more[i] = x

\* The request holds, in order, those of the first positions that are in due.
Routed(data, last, due) ==
    /\ data \in Seq(Nat)
    /\ Range(data) = { i \in 1 .. last : i \in due }
    /\ Nondecreasing(data)

LEMMA ExtendedByRepeated ==
    ASSUME NEW data \in Seq(Nat), NEW x \in Nat, NEW n \in Nat
    PROVE  /\ data \o Repeated(x, n) \in Seq(Nat)
           /\ Extended(data \o Repeated(x, n), data, x, n)
<1> DEFINE e == Repeated(x, n)
           a == data \o e
<1>1. e = [k \in 1 .. n |-> x]
  BY DEF Repeated
<1>2. e \in Seq(Nat)
  BY <1>1, IsASeq
<1>3. DOMAIN e = 1 .. Len(e) /\ Len(e) \in Nat
  BY <1>2, LenProperties
<1>4. Len(e) = n /\ \A i \in 1 .. n : e[i] = x
  BY <1>1, <1>2, <1>3
<1>5. Len(data) \in Nat /\ DOMAIN data = 1 .. Len(data)
  BY LenProperties
<1> HIDE DEF e
<1>6. /\ a \in Seq(Nat)
      /\ Len(a) = Len(data) + n
      /\ \A i \in 1 .. Len(data) + n :
            a[i] = IF i <= Len(data) THEN data[i] ELSE e[i - Len(data)]
  BY <1>2, <1>4, ConcatProperties
<1>7. DOMAIN a = 1 .. Len(data) + n
  BY <1>6, LenProperties
<1> HIDE DEF a
<1>8. Extended(a, data, x, n)
  BY <1>4, <1>5, <1>6, <1>7 DEF Extended
<1> QED
  BY <1>6, <1>8 DEF a, e

\* The request after one more series.
LEMMA RoutedOneMore ==
    ASSUME NEW data, NEW last \in Nat, NEW new \in Nat, new = last + 1,
           NEW n \in Nat, NEW due, n > 0 <=> new \in due,
           Routed(data, last, due), NEW more \in Seq(Nat), Extended(more, data, new, n)
    PROVE  /\ Routed(more, new, due)
           /\ data # << >> => more # << >>
<1>1. PICK len \in Nat :
        /\ DOMAIN data = 1 .. len
        /\ DOMAIN more = 1 .. len + n
        /\ \A i \in 1 .. len : more[i] = data[i]
        /\ \A i \in len + 1 .. len + n : more[i] = new
  BY LenProperties DEF Routed, Extended
<1>2. Range(more) = { i \in 1 .. new : i \in due }
  <2>1. ASSUME NEW y \in Range(more) PROVE y \in 1 .. new /\ y \in due
    <3>1. PICK i \in 1 .. len + n : more[i] = y
      BY <1>1 DEF Range
    <3>2. CASE i \in 1 .. len
      <4>1. y \in Range(data)
        BY <1>1, <3>1, <3>2 DEF Range
      <4> QED
        BY <4>1 DEF Routed
    <3>3. CASE i \in len + 1 .. len + n
      BY <1>1, <3>1, <3>3
    <3> QED
      BY <3>2, <3>3
  <2>2. ASSUME NEW y \in 1 .. last, y \in due PROVE y \in Range(more)
    <3>1. PICK i \in 1 .. len : data[i] = y
      BY <1>1, <2>2 DEF Range, Routed
    <3>2. i \in DOMAIN more /\ more[i] = y
      BY <1>1, <3>1
    <3> QED
      BY <3>2 DEF Range
  <2>3. ASSUME new \in due PROVE new \in Range(more)
    <3>1. len + 1 \in DOMAIN more /\ more[len + 1] = new
      BY <1>1, <2>3
    <3> QED
      BY <3>1 DEF Range
  <2>4. \A y : y \in 1 .. new <=> y \in 1 .. last \/ y = new
    OBVIOUS
  <2> QED
    BY <2>1, <2>2, <2>3, <2>4
<1>3. ASSUME NEW i \in DOMAIN more, NEW j \in DOMAIN more, i <= j
      PROVE  more[i] <= more[j]
  <2>1. i \in 1 .. len + n /\ j \in 1 .. len + n
    BY <1>1
  <2>2. \A k \in 1 .. len : more[k] \in Nat /\ more[k] < new
    <3>1. ASSUME NEW k \in 1 .. len PROVE data[k] \in 1 .. last
      BY <1>1 DEF Range, Routed
    <3> QED
      BY <1>1, <3>1
  <2>3. CASE j \in 1 .. len
    <3>1. i \in 1 .. len
      BY <1>3, <2>1, <2>3
    <3> QED
      BY <1>1, <1>3, <2>3, <3>1 DEF Routed, Nondecreasing
  <2>4. CASE j \in len + 1 .. len + n
    <3>1. more[j] = new
      BY <1>1, <2>4
    <3>2. CASE i \in 1 .. len
      BY <2>2, <3>1, <3>2
    <3>3. CASE i \in len + 1 .. len + n
      BY <1>1, <3>1, <3>3
    <3> QED
      BY <2>1, <3>2, <3>3
  <2> QED
    BY <2>1, <2>3, <2>4
<1>4. ASSUME data # << >> PROVE more # << >>
  <2>1. len # 0
    BY <1>1, <1>4, EmptySeq DEF Routed
  <2>2. 1 \in DOMAIN more
    BY <1>1, <2>1
  <2> QED
    BY <2>2
<1> QED
  BY <1>2, <1>3, <1>4 DEF Nondecreasing, Routed
=============================================================================
