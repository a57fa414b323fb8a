---------------------------- MODULE TimeSeriesProofs ----------------------------
(***************************************************************************)
(* Proof that the loops of process_time_serie() put every series into each *)
(* tenant's request as often as Copies says, for payloads, series and      *)
(* lists of any length.                                                    *)
(***************************************************************************)
EXTENDS TimeSeries, RoutingLemmas, ListLemmas

-----------------------------------------------------------------------------
(* Counting in lists.                                                      *)

\* How often t is among the first n entries.
Mentions(list, n, t) == Cardinality({ j \in 1 .. n : list[j] = t })

\* One entry more counts when it is t.
LEMMA MentionsOneMore ==
    ASSUME NEW list, NEW n \in Nat, NEW t
    PROVE  /\ Mentions(list, n, t) \in Nat
           /\ Mentions(list, 0, t) = 0
           /\ Mentions(list, n + 1, t) =
                 Mentions(list, n, t) + IF list[n + 1] = t THEN 1 ELSE 0
<1> DEFINE at == { j \in 1 .. n : list[j] = t }
           more == { j \in 1 .. n + 1 : list[j] = t }
           none == { j \in 1 .. 0 : list[j] = t }
<1>1. IsFiniteSet(at)
  BY FS_Interval, FS_Subset, IsFiniteSet(1 .. n)
<1>2. none = {} /\ Cardinality(none) = 0
  BY FS_EmptySet
<1>3. Cardinality(at) \in Nat
  BY <1>1, FS_CardinalityType
<1>4. CASE list[n + 1] = t
  <2>1. more = at \cup {n + 1} /\ n + 1 \notin at
    BY <1>4
  <2>2. Cardinality(more) = Cardinality(at) + 1
    BY <1>1, <2>1, FS_AddElement
  <2> QED
    BY <1>2, <1>3, <1>4, <2>2 DEF Mentions
<1>5. CASE list[n + 1] # t
  <2>1. more = at
    BY <1>5
  <2> QED
    BY <1>2, <1>3, <1>5, <2>1 DEF Mentions
<1> QED
  BY <1>4, <1>5

\* All of a list are its first entries.
LEMMA TimesAreMentions ==
    ASSUME NEW S, NEW list \in Seq(S), NEW t
    PROVE  Times(list, t) = Mentions(list, Len(list), t)
BY LenProperties DEF Times, Mentions

\* A request that holds the series up to n in order.
InOrder(data, n) ==
    /\ data \in Seq(Nat)
    /\ Nondecreasing(data)
    /\ Range(data) \subseteq 1 .. n

\* One more of the last series keeps the order and counts once.
LEMMA PushLast ==
    ASSUME NEW n \in Nat \ {0}, NEW data, InOrder(data, n)
    PROVE  /\ InOrder(Append(data, n), n)
           /\ Times(Append(data, n), n) = Times(data, n) + 1
           /\ \A i \in Nat : i # n => Times(Append(data, n), i) = Times(data, i)
<1>1. data \in Seq(Nat) /\ Len(data) \in Nat /\ DOMAIN data = 1 .. Len(data)
  BY LenProperties DEF InOrder
<1>2. PICK more, len : more = Append(data, n) /\ len = Len(data)
  OBVIOUS
<1>3. /\ more \in Seq(Nat)
      /\ Len(more) = len + 1 /\ DOMAIN more = 1 .. len + 1
      /\ \A i \in 1 .. len : more[i] = data[i]
      /\ more[len + 1] = n
  BY <1>1, <1>2, AppendProperties, LenProperties
<1>4. Range(more) \subseteq 1 .. n
  BY <1>1, <1>2, <1>3 DEF InOrder, Range
<1>5. ASSUME NEW i \in DOMAIN more, NEW j \in DOMAIN more, i <= j
      PROVE  more[i] <= more[j]
  <2>1. CASE j = len + 1
    <3>1. more[i] \in 1 .. n
      BY <1>4 DEF Range
    <3> QED
      BY <1>3, <2>1, <3>1
  <2>2. CASE j # len + 1
    <3>1. i \in 1 .. len /\ j \in 1 .. len
      BY <1>1, <1>2, <1>3, <1>5, <2>2
    <3>2. data[i] <= data[j]
      BY <1>1, <1>2, <1>5, <3>1 DEF InOrder, Nondecreasing
    <3> QED
      BY <1>3, <3>1, <3>2
  <2> QED
    BY <2>1, <2>2
<1>6. ASSUME NEW i \in Nat
      PROVE  Times(more, i) = Times(data, i) + IF i = n THEN 1 ELSE 0
  <2>1. Times(more, i) = Mentions(more, len + 1, i)
    BY <1>3, TimesAreMentions
  <2>2. Mentions(more, len + 1, i) =
           Mentions(more, len, i) + IF more[len + 1] = i THEN 1 ELSE 0
    <3>1. len \in Nat
      BY <1>1, <1>2
    <3> QED
      BY <3>1, MentionsOneMore
  <2>3. { j \in 1 .. len : more[j] = i } = { j \in 1 .. len : data[j] = i }
    BY <1>3
  <2>4. Mentions(more, len, i) = Mentions(data, len, i)
    BY <2>3 DEF Mentions
  <2>5. Times(data, i) = Mentions(data, len, i)
    BY <1>1, <1>2, TimesAreMentions
  <2> QED
    BY <1>3, <2>1, <2>2, <2>4, <2>5
<1>7. \A i \in Nat : Times(data, i) \in Nat
  BY <1>1, TimesOfMentioned
<1>8. InOrder(more, n)
  BY <1>3, <1>4, <1>5 DEF InOrder, Nondecreasing
<1> QED
  BY <1>2, <1>6, <1>7, <1>8

-----------------------------------------------------------------------------
(* The labels.                                                             *)

\* label_tenants lists the tenants that the labels name, with repetitions.
LEMMA LabelTenantsListed ==
    ASSUME serie \in Series
    PROVE  /\ label_tenants \in Seq(Tenants)
           /\ Range(label_tenants) = LabelTenants(Range(serie), Range(TenantLabels))
<1> DEFINE count(i) == Times(TenantLabels, serie[i].name)
           part(i) == Repeated(serie[i].value, count(i))
           parts == [i \in DOMAIN serie |-> part(i)]
           values == LabelTenants(Range(serie), Range(TenantLabels))
<1>1. /\ Len(serie) \in Nat /\ DOMAIN serie = 1 .. Len(serie)
      /\ values \subseteq Tenants
  BY TimeSeriesAssumption, LenProperties
<1>2. ASSUME NEW i \in DOMAIN serie
      PROVE  /\ count(i) \in Nat
             /\ count(i) > 0 <=> serie[i].name \in Range(TenantLabels)
             /\ count(i) > 0 => serie[i].value \in values
  <2>1. /\ count(i) \in Nat
        /\ count(i) > 0 <=> serie[i].name \in Range(TenantLabels)
    BY TimeSeriesAssumption, TimesOfMentioned
  <2>2. serie[i] \in Range(serie)
    BY DEF Range
  <2>3. serie[i].name \in Range(TenantLabels) => serie[i].value \in values
    BY <2>2 DEF LabelTenants
  <2> QED
    BY <2>1, <2>3
<1>3. ASSUME NEW i \in DOMAIN serie
      PROVE  /\ part(i) \in Seq(Tenants)
             /\ \A e : e \in Range(part(i)) <=> count(i) > 0 /\ e = serie[i].value
  <2>1. PICK n \in Nat : n = count(i)
    BY <1>2
  <2>2. part(i) = [k \in 1 .. n |-> serie[i].value]
    BY <2>1 DEF Repeated
  <2>3. \A k \in 1 .. n : serie[i].value \in Tenants
    BY <1>1, <1>2, <2>1
  <2>4. part(i) \in Seq(Tenants)
    BY <2>2, <2>3, IsASeq
  <2>5. Range(part(i)) = { part(i)[k] : k \in 1 .. n }
    BY <2>2 DEF Range
  <2>6. \A e : e \in Range(part(i)) <=> n > 0 /\ e = serie[i].value
    <3>1. CASE n = 0
      BY <2>5, <3>1
    <3>2. CASE n # 0
      <4>1. 1 \in 1 .. n
        BY <3>2
      <4> QED
        BY <2>2, <2>5, <3>2, <4>1
    <3> QED
      BY <3>1, <3>2
  <2> QED
    BY <2>1, <2>4, <2>6
<1> HIDE DEF part, count, values
<1>4. parts \in Seq(Seq(Tenants))
  BY <1>1, <1>3, IsASeq
<1>5. /\ FlattenSeq(parts) \in Seq(Tenants)
      /\ \A e : e \in Range(FlattenSeq(parts)) <=>
            \E i \in DOMAIN parts : e \in Range(parts[i])
  BY <1>4, FlattenSeqRange
<1>6. label_tenants = FlattenSeq(parts)
  BY DEF label_tenants, part, count
<1>7. \A e : e \in Range(FlattenSeq(parts)) <=>
         \E i \in DOMAIN serie : count(i) > 0 /\ e = serie[i].value
  BY <1>3, <1>5
<1>8. \A e : e \in values <=>
         \E i \in DOMAIN serie : serie[i].name \in Range(TenantLabels) /\ e = serie[i].value
  BY DEF values, LabelTenants, Range
<1>9. Range(FlattenSeq(parts)) = values
  BY <1>2, <1>7, <1>8
<1> QED
  BY <1>5, <1>6, <1>9 DEF values

-----------------------------------------------------------------------------
(* The inductive invariant.                                                *)

InputOK ==
    /\ input.payload \in Seq(Series)
    /\ input.allow \in Seq(Tenants)
    /\ input.replicate \in Seq(Tenants)
    /\ input.does_allow_list \in BOOLEAN

PlaceOK ==
    /\ loop \in {"none", "allowed", "replicas", "tenants"}
    /\ next \in 1 .. Len(input.payload) + 1
    /\ position \in Nat \ {0}
    /\ loop # "none" => /\ next \in 1 .. Len(input.payload)
                        /\ position <= Len(ListOf(loop)) + 1
                        /\ loop = "tenants" <=> ~input.does_allow_list

Labelled == LabelTenants(Range(serie), Range(TenantLabels))
AllowedHere == Range(input.allow) \cap Labelled

\* Who has been visited, in the loops that look at it.
VisitedOK ==
    /\ loop = "allowed" =>
          visited = { t \in Labelled : \E j \in 1 .. position - 1 : input.allow[j] = t }
    /\ loop = "tenants" =>
          visited = { ListOf("tenants")[j] : j \in 1 .. position - 1 }

\* How often the series at hand has been put into the request of t so far.
SoFar(t) ==
    CASE loop = "none" -> 0
      [] loop = "replicas" ->
            Mentions(input.replicate, position - 1, t) + IF t \in AllowedHere THEN 1 ELSE 0
      [] OTHER -> IF t \in visited THEN 1 ELSE 0

DataOK(t) ==
    /\ InOrder(tenant_data[t], next)
    /\ \A i \in 1 .. next - 1 : Times(tenant_data[t], i) = CopiesOf(i, t)
    /\ Times(tenant_data[t], next) = SoFar(t)

LoopInv ==
    /\ InputOK /\ PlaceOK /\ VisitedOK
    /\ DOMAIN tenant_data = Tenants
    /\ \A t \in Tenants : DataOK(t)

\* The lists of the loops, while a series is at hand.
LEMMA Lists ==
    ASSUME InputOK, next \in 1 .. Len(input.payload)
    PROVE  /\ ListOf("allowed") = input.allow /\ ListOf("replicas") = input.replicate
           /\ \A l \in {"allowed", "replicas", "tenants"} :
                 ListOf(l) \in Seq(Tenants) /\ Len(ListOf(l)) \in Nat
           /\ Range(label_tenants) = Labelled
           /\ Range(ListOf("tenants")) = Range(input.replicate) \cup Labelled
<1>1. serie \in Series
  BY LenProperties, ElementOfSeq DEF InputOK, serie
<1>2. label_tenants \in Seq(Tenants) /\ Range(label_tenants) = Labelled
  BY <1>1, LabelTenantsListed DEF Labelled
<1>3. /\ ListOf("allowed") = input.allow /\ ListOf("replicas") = input.replicate
      /\ ListOf("tenants") = input.replicate \o label_tenants
  BY DEF ListOf
<1>4. /\ input.replicate \o label_tenants \in Seq(Tenants)
      /\ Range(input.replicate \o label_tenants) =
            Range(input.replicate) \cup Range(label_tenants)
  BY <1>2, ConcatProperties, RangeConcatenation DEF InputOK
<1>5. \A l \in {"allowed", "replicas", "tenants"} : ListOf(l) \in Seq(Tenants)
  BY <1>3, <1>4 DEF InputOK
<1> QED
  BY <1>2, <1>3, <1>4, <1>5, LenProperties

\* What depends on the input and the series only.
LEMMA SameSerie ==
    ASSUME UNCHANGED <<input, next>>
    PROVE  /\ label_tenants' = label_tenants
           /\ Labelled' = Labelled /\ AllowedHere' = AllowedHere
           /\ \A l : ListOf(l)' = ListOf(l)
           /\ InputOK => InputOK'
BY DEF label_tenants, serie, Labelled, AllowedHere, ListOf, InputOK

\* A step with the series at hand keeps its count.
LEMMA DataStep ==
    ASSUME LoopInv, UNCHANGED <<input, next>>, NEW t \in Tenants, NEW k, k = SoFar(t)',
           \/ tenant_data'[t] = Append(tenant_data[t], next) /\ k = SoFar(t) + 1
           \/ tenant_data'[t] = tenant_data[t] /\ k = SoFar(t)
    PROVE  DataOK(t)'
<1>1. next \in Nat \ {0}
  BY LenProperties DEF LoopInv, PlaceOK, InputOK
<1>2. \A i : CopiesOf(i, t)' = CopiesOf(i, t)
  BY DEF CopiesOf
<1>3. /\ InOrder(tenant_data[t], next)
      /\ \A i \in 1 .. next - 1 : Times(tenant_data[t], i) = CopiesOf(i, t)
      /\ Times(tenant_data[t], next) = SoFar(t)
  BY DEF LoopInv, DataOK
<1>4. /\ InOrder(tenant_data'[t], next)
      /\ \A i \in 1 .. next - 1 : Times(tenant_data'[t], i) = CopiesOf(i, t)
      /\ Times(tenant_data'[t], next) = k
  <2>1. CASE tenant_data'[t] = Append(tenant_data[t], next) /\ k = SoFar(t) + 1
    <3>1. /\ InOrder(Append(tenant_data[t], next), next)
          /\ Times(Append(tenant_data[t], next), next) = Times(tenant_data[t], next) + 1
          /\ \A i \in Nat : i # next =>
                Times(Append(tenant_data[t], next), i) = Times(tenant_data[t], i)
      BY <1>1, <1>3, PushLast
    <3>2. \A i \in 1 .. next - 1 : i \in Nat /\ i # next
      BY <1>1
    <3> QED
      BY <1>3, <2>1, <3>1, <3>2
  <2>2. CASE tenant_data'[t] = tenant_data[t] /\ k = SoFar(t)
    BY <1>3, <2>2
  <2> QED
    BY <2>1, <2>2
<1> QED
  BY <1>2, <1>4 DEF DataOK

-----------------------------------------------------------------------------
(* One lemma per step.                                                     *)

\* Before the first series every request is empty.
LEMMA InitLoopInv == Init => LoopInv
<1> SUFFICES ASSUME Init PROVE LoopInv
  OBVIOUS
<1>1. InputOK
  <2>1. PICK n \in 0 .. PayloadLength : input.payload \in [1 .. n -> Series]
    BY DEF Init
  <2>2. n \in Nat
    BY TimeSeriesAssumption
  <2>3. input.payload \in Seq(Series)
    BY <2>1, <2>2, IsASeq
  <2> QED
    BY <2>3, TimeSeriesAssumption DEF Init, InputOK
<1>2. PlaceOK /\ VisitedOK
  BY <1>1, LenProperties DEF Init, PlaceOK, VisitedOK, InputOK
<1>3. ASSUME NEW t \in Tenants PROVE DataOK(t)
  <2>1. tenant_data[t] = << >> /\ next = 1 /\ SoFar(t) = 0
    BY DEF Init, SoFar
  <2>2. << >> \in Seq(Nat) /\ Range(<< >>) = {} /\ Nondecreasing(<< >>)
    BY DEF Range, Nondecreasing
  <2>3. Times(<< >>, 1) \in Nat /\ ~(Times(<< >>, 1) > 0)
    BY <2>2, TimesOfMentioned
  <2> QED
    BY <2>1, <2>2, <2>3 DEF DataOK, InOrder
<1> QED
  BY <1>1, <1>2, <1>3 DEF Init, LoopInv

\* The next series enters its first loop with nothing visited and no copy made.
LEMMA NextSerieInv == ASSUME LoopInv, NextSerie PROVE LoopInv'
<1>1. InputOK /\ next \in 1 .. Len(input.payload) /\ loop = "none"
  BY LenProperties DEF LoopInv, PlaceOK, InputOK, NextSerie
<1>2. /\ loop' = (IF input.does_allow_list THEN "allowed" ELSE "tenants")
      /\ position' = 1 /\ visited' = {} /\ tenant_data' = tenant_data
      /\ input' = input /\ next' = next
  BY DEF NextSerie, LoopOver
<1>3. /\ InputOK' /\ \A l : ListOf(l)' = ListOf(l)
      /\ Len(ListOf("allowed")) \in Nat /\ Len(ListOf("tenants")) \in Nat
  BY <1>1, <1>2, SameSerie, Lists
<1>4. PICK l \in {"allowed", "tenants"} :
        loop' = l /\ (l = "tenants" <=> ~input.does_allow_list)
  BY <1>1, <1>2 DEF InputOK
<1>5. PlaceOK'
  <2>1. Len(ListOf(l)) \in Nat /\ ListOf(l)' = ListOf(l)
    BY <1>3
  <2> QED
    BY <1>1, <1>2, <1>4, <2>1 DEF PlaceOK
<1>6. VisitedOK'
  BY <1>2 DEF VisitedOK
<1>7. ASSUME NEW t \in Tenants PROVE DataOK(t)'
  <2>1. SoFar(t) = 0 /\ SoFar(t)' = 0
    BY <1>1, <1>2, <1>4 DEF SoFar
  <2> QED
    BY <1>2, <2>1, DataStep
<1> QED
  BY <1>2, <1>3, <1>5, <1>6, <1>7 DEF LoopInv

\* A round takes one tenant of the list, and moves on to the next.
LEMMA RoundStep ==
    ASSUME LoopInv, NEW l \in {"allowed", "replicas", "tenants"}, Round(l)
    PROVE  /\ InputOK' /\ PlaceOK'
           /\ UNCHANGED <<input, next>> /\ loop = l /\ loop' = l
           /\ InputOK /\ next \in 1 .. Len(input.payload)
           /\ position \in Nat /\ position' = position + 1
           /\ tenant_id = ListOf(l)[position] /\ tenant_id \in Tenants
<1>1. /\ UNCHANGED <<input, next>> /\ loop = l /\ loop' = l
      /\ position <= Len(ListOf(l)) /\ position' = position + 1
  BY DEF Round
<1>2. /\ InputOK /\ next \in 1 .. Len(input.payload) /\ position \in Nat \ {0}
      /\ l = "tenants" <=> ~input.does_allow_list
  BY <1>1 DEF LoopInv, PlaceOK
<1>3. /\ InputOK' /\ ListOf(l)' = ListOf(l)
      /\ ListOf(l) \in Seq(Tenants) /\ Len(ListOf(l)) \in Nat
  BY <1>1, <1>2, SameSerie, Lists
<1>4. tenant_id = ListOf(l)[position] /\ tenant_id \in Tenants
  BY <1>1, <1>2, <1>3, ElementOfSeq DEF tenant_id
<1>5. PlaceOK'
  BY <1>1, <1>2, <1>3, LenProperties DEF PlaceOK, InputOK
<1> QED
  BY <1>1, <1>2, <1>3, <1>4, <1>5

\* What process_time_serie_for_tenant() does to the requests.
LEMMA OneMoreCopy ==
    ASSUME DOMAIN tenant_data = Tenants, tenant_id \in Tenants, process_time_serie_for_tenant
    PROVE  /\ DOMAIN tenant_data' = Tenants
           /\ visited' = visited \cup {tenant_id}
           /\ \A t \in Tenants : tenant_data'[t] =
                 IF t = tenant_id THEN Append(tenant_data[t], next) ELSE tenant_data[t]
BY DEF process_time_serie_for_tenant

\* A round of a loop that looks at the visited: only a tenant that becomes
\* visited gets a copy.
LEMMA VisitingRound ==
    ASSUME LoopInv, UNCHANGED <<input, next>>, DOMAIN tenant_data = Tenants,
           loop \in {"allowed", "tenants"}, loop' = loop, tenant_id \in Tenants,
           \/ UnlessVisited
           \/ UNCHANGED <<tenant_data, visited>>
    PROVE  /\ DOMAIN tenant_data' = Tenants
           /\ visited' = visited \/ visited' = visited \cup {tenant_id}
           /\ UnlessVisited => visited' = visited \cup {tenant_id}
           /\ \A t \in Tenants : DataOK(t)'
<1>1. \A t : SoFar(t) = IF t \in visited THEN 1 ELSE 0
  BY DEF SoFar
<1>2. \A t : SoFar(t)' = IF t \in visited' THEN 1 ELSE 0
  BY DEF SoFar
<1>3. CASE UNCHANGED <<tenant_data, visited>>
  <2>1. ASSUME NEW t \in Tenants PROVE DataOK(t)'
    <3>1. tenant_data'[t] = tenant_data[t] /\ SoFar(t)' = SoFar(t)
      BY <1>1, <1>2, <1>3
    <3> QED
      BY <3>1, DataStep
  <2>2. UnlessVisited => tenant_id \in visited
    <3>1. SUFFICES ASSUME process_time_serie_for_tenant, tenant_id \notin visited
                   PROVE  FALSE
      BY DEF UnlessVisited
    <3> QED
      BY <1>3, <3>1, OneMoreCopy
  <2> QED
    BY <1>3, <2>1, <2>2
<1>4. CASE process_time_serie_for_tenant /\ tenant_id \notin visited
  <2>1. /\ DOMAIN tenant_data' = Tenants
        /\ visited' = visited \cup {tenant_id}
        /\ \A t \in Tenants : tenant_data'[t] =
              IF t = tenant_id THEN Append(tenant_data[t], next) ELSE tenant_data[t]
    BY <1>4, OneMoreCopy
  <2>2. ASSUME NEW t \in Tenants PROVE DataOK(t)'
    <3>1. CASE t = tenant_id
      <4>1. tenant_data'[t] = Append(tenant_data[t], next) /\ SoFar(t)' = SoFar(t) + 1
        BY <1>1, <1>2, <1>4, <2>1, <3>1
      <4> QED
        BY <4>1, DataStep
    <3>2. CASE t # tenant_id
      <4>1. tenant_data'[t] = tenant_data[t] /\ SoFar(t)' = SoFar(t)
        BY <1>1, <1>2, <2>1, <3>2
      <4> QED
        BY <4>1, DataStep
    <3> QED
      BY <3>1, <3>2
  <2> QED
    BY <2>1, <2>2
<1> QED
  BY <1>3, <1>4 DEF UnlessVisited

\* A round over the allowed tenants visits the one at hand if the series names it.
LEMMA AllowedTenantInv == ASSUME LoopInv, AllowedTenant PROVE LoopInv'
<1>1. /\ InputOK' /\ PlaceOK'
      /\ UNCHANGED <<input, next>> /\ loop = "allowed" /\ loop' = "allowed"
      /\ InputOK /\ next \in 1 .. Len(input.payload)
      /\ position \in Nat /\ position' = position + 1
      /\ tenant_id = ListOf("allowed")[position] /\ tenant_id \in Tenants
  BY RoundStep DEF AllowedTenant
<1>2. /\ tenant_id = input.allow[position] /\ Range(label_tenants) = Labelled
      /\ Labelled' = Labelled
  BY <1>1, Lists, SameSerie
<1>3. /\ tenant_id \in Labelled => UnlessVisited
      /\ tenant_id \notin Labelled => UNCHANGED <<tenant_data, visited>>
  BY <1>2 DEF AllowedTenant
<1>4. /\ DOMAIN tenant_data' = Tenants
      /\ UnlessVisited => visited' = visited \cup {tenant_id}
      /\ \A t \in Tenants : DataOK(t)'
  BY <1>1, <1>3, VisitingRound DEF LoopInv
<1>5. VisitedOK'
  <2>1. visited = { t \in Labelled : \E j \in 1 .. position - 1 : input.allow[j] = t }
    BY <1>1 DEF LoopInv, VisitedOK
  <2>2. ASSUME NEW t
        PROVE  t \in visited' <=>
                  t \in Labelled /\ \E j \in 1 .. position : input.allow[j] = t
    <3>1. (\E j \in 1 .. position : input.allow[j] = t)
             <=> (\E j \in 1 .. position - 1 : input.allow[j] = t) \/ t = tenant_id
      <4>1. position >= 1 /\ \A j \in 1 .. position : j = position \/ j \in 1 .. position - 1
        BY <1>1 DEF LoopInv, PlaceOK
      <4> QED
        BY <1>1, <1>2, <4>1
    <3> QED
      BY <1>3, <1>4, <2>1, <3>1
  <2>3. visited' = { t \in Labelled' : \E j \in 1 .. position' - 1 : input'.allow[j] = t }
    BY <1>1, <1>2, <2>2
  <2> QED
    BY <1>1, <2>3 DEF VisitedOK
<1> QED
  BY <1>1, <1>4, <1>5 DEF LoopInv

\* A round over label and replicated tenants visits the one at hand.
LEMMA AnyTenantInv == ASSUME LoopInv, AnyTenant PROVE LoopInv'
<1>1. /\ InputOK' /\ PlaceOK'
      /\ UNCHANGED <<input, next>> /\ loop = "tenants" /\ loop' = "tenants"
      /\ position \in Nat /\ position' = position + 1
      /\ tenant_id = ListOf("tenants")[position] /\ tenant_id \in Tenants
      /\ UnlessVisited
  BY RoundStep DEF AnyTenant
<1>2. ListOf("tenants")' = ListOf("tenants")
  BY <1>1, SameSerie
<1>3. /\ DOMAIN tenant_data' = Tenants
      /\ visited' = visited \cup {tenant_id}
      /\ \A t \in Tenants : DataOK(t)'
  BY <1>1, VisitingRound DEF LoopInv
<1>4. VisitedOK'
  <2>1. visited = { ListOf("tenants")[j] : j \in 1 .. position - 1 }
    BY <1>1 DEF LoopInv, VisitedOK
  <2>2. position >= 1
    BY DEF LoopInv, PlaceOK
  <2>3. visited' = { ListOf("tenants")[j] : j \in 1 .. position' - 1 }
    BY <1>1, <1>3, <2>1, <2>2
  <2> QED
    BY <1>1, <1>2, <2>3 DEF VisitedOK
<1> QED
  BY <1>1, <1>3, <1>4 DEF LoopInv

\* A round over the replicated tenants looks at nobody's visit.
LEMMA ReplicaInv == ASSUME LoopInv, Replica PROVE LoopInv'
<1>1. /\ InputOK' /\ PlaceOK'
      /\ UNCHANGED <<input, next>> /\ loop = "replicas" /\ loop' = "replicas"
      /\ InputOK /\ next \in 1 .. Len(input.payload)
      /\ position \in Nat /\ position' = position + 1
      /\ tenant_id = ListOf("replicas")[position] /\ tenant_id \in Tenants
      /\ process_time_serie_for_tenant
  BY RoundStep DEF Replica
<1>2. tenant_id = input.replicate[position] /\ AllowedHere' = AllowedHere
  BY <1>1, Lists, SameSerie
<1>3. /\ DOMAIN tenant_data' = Tenants
      /\ \A t \in Tenants : tenant_data'[t] =
            IF t = tenant_id THEN Append(tenant_data[t], next) ELSE tenant_data[t]
  BY <1>1, OneMoreCopy DEF LoopInv
<1>4. ASSUME NEW t \in Tenants PROVE DataOK(t)'
  <2>1. PICK n \in Nat : position = n + 1
    BY <1>1 DEF LoopInv, PlaceOK
  <2>2. /\ Mentions(input.replicate, n, t) \in Nat
        /\ Mentions(input.replicate, n + 1, t) =
              Mentions(input.replicate, n, t) + IF input.replicate[n + 1] = t THEN 1 ELSE 0
    BY <2>1, MentionsOneMore
  <2>3. PICK a \in Nat : a = IF t \in AllowedHere THEN 1 ELSE 0
    OBVIOUS
  <2>4. SoFar(t) = Mentions(input.replicate, n, t) + a
    BY <1>1, <2>1, <2>3 DEF SoFar
  <2>5. SoFar(t)' = Mentions(input.replicate, n + 1, t) + a
    BY <1>1, <1>2, <2>1, <2>3 DEF SoFar
  <2>6. CASE t = tenant_id
    <3>1. tenant_data'[t] = Append(tenant_data[t], next)
      BY <1>3, <2>6
    <3>2. Mentions(input.replicate, n + 1, t) = Mentions(input.replicate, n, t) + 1
      BY <1>2, <2>1, <2>2, <2>6
    <3>3. SoFar(t)' = SoFar(t) + 1
      BY <2>2, <2>4, <2>5, <3>2
    <3> QED
      BY <1>1, <3>1, <3>3, DataStep
  <2>7. CASE t # tenant_id
    <3>1. tenant_data'[t] = tenant_data[t] /\ SoFar(t)' = SoFar(t)
      BY <1>2, <1>3, <2>1, <2>2, <2>4, <2>5, <2>7
    <3> QED
      BY <1>1, <3>1, DataStep
  <2> QED
    BY <2>6, <2>7
<1>5. VisitedOK'
  BY <1>1 DEF VisitedOK
<1> QED
  BY <1>1, <1>3, <1>4, <1>5 DEF LoopInv

\* After the allowed tenants the visited are those that the series names.
LEMMA ThenReplicasInv == ASSUME LoopInv, ThenReplicas PROVE LoopInv'
<1>1. /\ UNCHANGED <<input, next, visited, tenant_data>>
      /\ loop = "allowed" /\ loop' = "replicas" /\ position' = 1
      /\ position > Len(ListOf("allowed"))
  BY DEF ThenReplicas, LoopIsOver, LoopOver
<1>2. /\ InputOK /\ next \in 1 .. Len(input.payload) /\ position \in Nat
      /\ position <= Len(ListOf("allowed")) + 1 /\ input.does_allow_list
  BY <1>1 DEF LoopInv, PlaceOK, InputOK
<1>3. /\ ListOf("allowed") = input.allow /\ Len(input.allow) \in Nat
      /\ ListOf("replicas")' = ListOf("replicas") /\ Len(ListOf("replicas")) \in Nat
      /\ InputOK' /\ AllowedHere' = AllowedHere
  BY <1>1, <1>2, Lists, SameSerie
<1>4. PlaceOK'
  BY <1>1, <1>2, <1>3 DEF PlaceOK
<1>5. visited = AllowedHere
  <2>1. position - 1 = Len(input.allow)
    BY <1>1, <1>2, <1>3
  <2>2. visited = { t \in Labelled : \E j \in 1 .. Len(input.allow) : input.allow[j] = t }
    BY <1>1, <2>1 DEF LoopInv, VisitedOK
  <2>3. Range(input.allow) = { input.allow[j] : j \in 1 .. Len(input.allow) }
    BY <1>2, LenProperties DEF InputOK, Range
  <2> QED
    BY <2>2, <2>3 DEF AllowedHere
<1>6. ASSUME NEW t \in Tenants PROVE DataOK(t)'
  <2>1. Mentions(input.replicate, 0, t) = 0
    BY MentionsOneMore
  <2>2. SoFar(t) = IF t \in visited THEN 1 ELSE 0
    BY <1>1 DEF SoFar
  <2>3. SoFar(t)' = IF t \in AllowedHere THEN 1 ELSE 0
    BY <1>1, <1>3, <2>1 DEF SoFar
  <2>4. tenant_data'[t] = tenant_data[t] /\ SoFar(t)' = SoFar(t)
    BY <1>1, <1>5, <2>2, <2>3
  <2> QED
    BY <1>1, <2>4, DataStep
<1>7. VisitedOK'
  BY <1>1 DEF VisitedOK
<1> QED
  BY <1>1, <1>3, <1>4, <1>6, <1>7 DEF LoopInv

\* After the last loop the series has been copied as often as Copies says.
LEMMA SerieDoneInv == ASSUME LoopInv, SerieDone PROVE LoopInv'
<1>1. PICK l \in {"replicas", "tenants"} :
        /\ loop = l /\ position > Len(ListOf(l))
        /\ UNCHANGED <<input, tenant_data>>
        /\ loop' = "none" /\ position' = 1 /\ next' = next + 1
  BY DEF SerieDone, LoopIsOver, LoopOver
<1>2. /\ InputOK /\ next \in 1 .. Len(input.payload) /\ position \in Nat
      /\ position <= Len(ListOf(l)) + 1 /\ (l = "tenants" <=> ~input.does_allow_list)
      /\ Len(input.payload) \in Nat
  BY <1>1, LenProperties DEF LoopInv, PlaceOK, InputOK
<1>3. InputOK' /\ PlaceOK' /\ VisitedOK'
  BY <1>1, <1>2 DEF PlaceOK, InputOK, VisitedOK
<1>4. /\ ListOf("replicas") = input.replicate
      /\ ListOf(l) \in Seq(Tenants) /\ Len(ListOf(l)) \in Nat
      /\ Range(ListOf("tenants")) = Range(input.replicate) \cup Labelled
      /\ Labelled = LabelTenants(Range(input.payload[next]), Range(TenantLabels))
  BY <1>2, Lists DEF Labelled, serie
<1>5. position - 1 = Len(ListOf(l))
  BY <1>1, <1>2, <1>4
<1>6. ASSUME NEW t \in Tenants PROVE SoFar(t) = CopiesOf(next, t)
  <2>1. CASE l = "replicas"
    <3>1. Times(input.replicate, t) = Mentions(input.replicate, position - 1, t)
      BY <1>4, <1>5, <2>1, TimesAreMentions
    <3>2. input.does_allow_list = TRUE
      BY <1>2, <2>1 DEF InputOK
    <3>3. SoFar(t) = Times(input.replicate, t) + IF t \in AllowedHere THEN 1 ELSE 0
      BY <1>1, <2>1, <3>1 DEF SoFar
    <3>4. CopiesOf(next, t) = Times(input.replicate, t) + IF t \in AllowedHere THEN 1 ELSE 0
      BY <1>4, <3>2 DEF CopiesOf, Copies, AllowedHere
    <3> QED
      BY <3>3, <3>4
  <2>2. CASE l = "tenants"
    <3>1. visited = { ListOf("tenants")[j] : j \in 1 .. Len(ListOf("tenants")) }
      BY <1>1, <1>5, <2>2 DEF LoopInv, VisitedOK
    <3>2. visited = Range(input.replicate) \cup Labelled
      BY <1>4, <2>2, <3>1, LenProperties DEF Range
    <3>3. input.does_allow_list = FALSE
      BY <1>2, <2>2 DEF InputOK
    <3> QED
      BY <1>1, <1>4, <2>2, <3>2, <3>3 DEF SoFar, CopiesOf, Copies
  <2> QED
    BY <2>1, <2>2
<1>7. ASSUME NEW t \in Tenants PROVE DataOK(t)'
  <2>1. /\ InOrder(tenant_data[t], next)
        /\ \A i \in 1 .. next - 1 : Times(tenant_data[t], i) = CopiesOf(i, t)
        /\ Times(tenant_data[t], next) = CopiesOf(next, t)
    BY <1>6 DEF LoopInv, DataOK
  <2>2. \A i \in 1 .. next : Times(tenant_data[t], i) = CopiesOf(i, t)
    BY <1>2, <2>1
  <2>3. next + 1 \notin Range(tenant_data[t]) /\ tenant_data[t] \in Seq(Nat)
    BY <1>2, <2>1 DEF InOrder
  <2>4. Times(tenant_data[t], next + 1) = 0
    BY <2>3, TimesOfMentioned
  <2>5. InOrder(tenant_data[t], next + 1)
    BY <1>2, <2>1 DEF InOrder
  <2>6. SoFar(t)' = 0 /\ \A i : CopiesOf(i, t)' = CopiesOf(i, t)
    BY <1>1 DEF SoFar, CopiesOf
  <2>7. \A i \in 1 .. next' - 1 : i \in 1 .. next
    BY <1>1, <1>2
  <2> QED
    BY <1>1, <2>2, <2>4, <2>5, <2>6, <2>7 DEF DataOK
<1> QED
  BY <1>1, <1>3, <1>7 DEF LoopInv

\* A stuttering step keeps each part.
LEMMA StutterInv ==
    ASSUME LoopInv, UNCHANGED <<input, next, loop, position, visited, tenant_data>>
    PROVE  LoopInv'
<1>1. /\ InputOK' /\ AllowedHere' = AllowedHere /\ Labelled' = Labelled
      /\ \A l : ListOf(l)' = ListOf(l)
  BY SameSerie DEF LoopInv
<1>2. PICK l : l = loop /\ l = loop'
  OBVIOUS
<1>3. ListOf(l)' = ListOf(l) /\ ListOf("tenants")' = ListOf("tenants")
  BY <1>1
<1>4. PlaceOK'
  BY <1>2, <1>3 DEF LoopInv, PlaceOK
<1>5. VisitedOK'
  BY <1>1, <1>3 DEF LoopInv, VisitedOK
<1>6. ASSUME NEW t \in Tenants PROVE DataOK(t)'
  <2>1. SoFar(t)' = SoFar(t)
    BY <1>1 DEF SoFar
  <2> QED
    BY <2>1, DataStep
<1> QED
  BY <1>1, <1>4, <1>5, <1>6 DEF LoopInv

-----------------------------------------------------------------------------

\* The loops keep, in every reachable state, the place they are at, who has been
\* visited, and how often the series at hand is in each request so far.
THEOREM LoopsKeepCount == Spec => []LoopInv
<1>1. LoopInv /\ [Next]_vars => LoopInv'
  <2> SUFFICES ASSUME LoopInv, [Next]_vars PROVE LoopInv'
    OBVIOUS
  <2>1. CASE NextSerie
    BY <2>1, NextSerieInv
  <2>2. CASE AllowedTenant
    BY <2>2, AllowedTenantInv
  <2>3. CASE Replica
    BY <2>3, ReplicaInv
  <2>4. CASE AnyTenant
    BY <2>4, AnyTenantInv
  <2>5. CASE ThenReplicas
    BY <2>5, ThenReplicasInv
  <2>6. CASE SerieDone
    BY <2>6, SerieDoneInv
  <2>7. CASE UNCHANGED vars
    BY <2>7, StutterInv DEF vars
  <2> QED
    BY <2>1, <2>2, <2>3, <2>4, <2>5, <2>6, <2>7 DEF Next
<1> QED
  BY <1>1, InitLoopInv, PTL DEF Spec

\* Between two series each tenant's request holds, in the order of the payload,
\* every series so far exactly as often as Copies says, and no other: what
\* process_time_serie() loops through adds up to the counts that the proxy's
\* model routes by (metrics.rs, 33-99).
THEOREM LoopsMakeTheCopies == Spec => []RequestsAreTheCopies
<1>1. LoopInv => RequestsAreTheCopies
  <2> SUFFICES ASSUME LoopInv, loop = "none", NEW t \in Tenants
               PROVE  /\ Nondecreasing(tenant_data[t])
                      /\ Range(tenant_data[t]) \subseteq 1 .. next - 1
                      /\ \A i \in 1 .. next - 1 : Times(tenant_data[t], i) = CopiesOf(i, t)
    BY DEF RequestsAreTheCopies
  <2>1. /\ InOrder(tenant_data[t], next)
        /\ \A i \in 1 .. next - 1 : Times(tenant_data[t], i) = CopiesOf(i, t)
        /\ Times(tenant_data[t], next) = 0
        /\ next \in Nat
    BY LenProperties DEF LoopInv, DataOK, SoFar, PlaceOK, InputOK
  <2>2. next \notin Range(tenant_data[t])
    BY <2>1, TimesOfMentioned DEF InOrder
  <2>3. Range(tenant_data[t]) \subseteq 1 .. next - 1
    BY <2>1, <2>2 DEF InOrder
  <2> QED
    BY <2>1, <2>3 DEF InOrder
<1> QED
  BY <1>1, LoopsKeepCount, PTL
=============================================================================
