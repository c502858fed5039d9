---------------------------- MODULE ReadingProofs ----------------------------
(***************************************************************************)
(* Theorems about what is made of what sources return, for every value of  *)
(* the constants: the endpoint of a host (Exposition), the tables metrics  *)
(* are defined by (Labels), the answers of the Performance Service         *)
(* (Answers).                                                              *)
(***************************************************************************)
EXTENDS Exposition, Answers, Labels, FiniteSetTheorems, SequenceTheorems,
        WellFoundedInduction, TLAPS

(* A set of numbers up to a bound has a greatest one. *)
LEMMA Greatest ==
  ASSUME NEW n \in Nat, NEW S, S \subseteq 0..n, S # {}
  PROVE  Max(S) \in S /\ \A y \in S : Max(S) >= y
<1> DEFINE T == {n - x : x \in S}
<1>1. T \subseteq Nat /\ T # {}
  <2>1. \A x \in S : x \in 0..n
    OBVIOUS
  <2>2. \A x \in 0..n : n - x \in Nat
    OBVIOUS
  <2>3. QED BY <2>1, <2>2
<1> DEFINE R == OpToRel(<, Nat)
<1>2. IsWellFoundedOn(R, Nat)
  BY NatLessThanWellFounded
<1>3. \A x, y \in Nat : y < x => <<y, x>> \in R
  BY DEF OpToRel
<1> HIDE DEF R
<1>4. PICK t \in T : \A y \in T : ~(<<y, t>> \in R)
  <2> HIDE DEF T
  <2>1. QED BY <1>1, <1>2, WFMin
<1>5. PICK x \in S : t = n - x
  OBVIOUS
<1>6. \A y \in S : x >= y
  <2> SUFFICES ASSUME NEW y \in S, ~(x >= y) PROVE FALSE
    OBVIOUS
  <2>1. n - y \in T /\ n - y \in Nat /\ n - x \in Nat /\ n - y < n - x
    OBVIOUS
  <2> HIDE DEF T
  <2>2. QED BY <1>3, <1>4, <1>5, <2>1
<1>7. QED BY <1>6 DEF Max

(* A sequence is what stands before a place and what stands behind it. *)
LEMMA CutInTwo ==
  ASSUME NEW S, NEW s \in Seq(S), NEW k \in 0..Len(s)
  PROVE  /\ SubSeq(s, 1, k) \in Seq(S) /\ Len(SubSeq(s, 1, k)) = k
         /\ \A i \in 1..k : SubSeq(s, 1, k)[i] = s[i]
         /\ SubSeq(s, k + 1, Len(s)) \in Seq(S)
         /\ s = SubSeq(s, 1, k) \o SubSeq(s, k + 1, Len(s))
<1> DEFINE a == SubSeq(s, 1, k)
           b == SubSeq(s, k + 1, Len(s))
<1>1. /\ Len(s) \in Nat /\ k \in Nat /\ k + 1 \in Int
      /\ \A i \in 1..Len(s) : s[i] \in S
  BY LenProperties, ElementOfSeq
<1>2. /\ a \in Seq(S) /\ Len(a) = k
      /\ \A i \in 1..k : a[i] = s[i]
  <2>1. \A i \in 1..k : s[i] \in S
    BY <1>1
  <2>2. /\ a \in Seq(S) /\ Len(a) = IF 1 <= k THEN k - 1 + 1 ELSE 0
        /\ \A i \in 1..(k - 1 + 1) : a[i] = s[1 + i - 1]
    BY <1>1, <2>1, SubSeqProperties
  <2> HIDE DEF a
  <2>3. QED BY <1>1, <2>2
<1>3. /\ b \in Seq(S) /\ Len(b) = Len(s) - k
      /\ \A i \in 1..(Len(s) - k) : b[i] = s[k + i]
  <2>1. \A i \in (k + 1)..Len(s) : s[i] \in S
    BY <1>1
  <2>2. /\ b \in Seq(S) /\ Len(b) = IF k + 1 <= Len(s) THEN Len(s) - (k + 1) + 1 ELSE 0
        /\ \A i \in 1..(Len(s) - (k + 1) + 1) : b[i] = s[(k + 1) + i - 1]
    BY <1>1, <2>1, SubSeqProperties
  <2> HIDE DEF b
  <2>3. Len(b) = Len(s) - k
    BY <1>1, <2>2
  <2>4. ASSUME NEW i \in 1..(Len(s) - k) PROVE b[i] = s[k + i]
    <3>1. i \in 1..(Len(s) - (k + 1) + 1) /\ (k + 1) + i - 1 = k + i
      BY <1>1
    <3>2. QED BY <2>2, <3>1
  <2>5. QED BY <2>2, <2>3, <2>4
<1> HIDE DEF a, b
<1>4. /\ a \o b \in Seq(S) /\ Len(a \o b) = Len(a) + Len(b)
      /\ \A i \in 1..(Len(a) + Len(b)) : (a \o b)[i] = IF i <= Len(a) THEN a[i] ELSE b[i - Len(a)]
  BY <1>2, <1>3, ConcatProperties
<1> DEFINE t == a \o b
<1> HIDE DEF t
<1>5. t \in Seq(S) /\ Len(t) = Len(s)
  BY <1>1, <1>2, <1>3, <1>4 DEF t
<1>6. ASSUME NEW i \in 1..Len(s) PROVE t[i] = s[i]
  <2>1. t[i] = IF i <= Len(a) THEN a[i] ELSE b[i - Len(a)]
    BY <1>1, <1>2, <1>3, <1>4 DEF t
  <2>2. CASE i <= k
    BY <1>1, <1>2, <2>1, <2>2
  <2>3. CASE i > k
    <3>1. i - k \in 1..(Len(s) - k) /\ k + (i - k) = i /\ ~(i <= Len(a)) /\ i - Len(a) = i - k
      BY <1>1, <1>2, <2>3
    <3>2. QED BY <1>3, <2>1, <3>1
  <2>4. QED BY <1>1, <2>2, <2>3
<1>7. t = s
  BY <1>5, <1>6, SeqEqual
<1>8. QED BY <1>2, <1>3, <1>7 DEF a, b, t

-----------------------------------------------------------------------------
(* Exposition.  The samples a model is derived from are finitely many, the *)
(* model is none or what is derived from them, and nothing is folded       *)
(* before there is one.                                                    *)
Origin ==
  /\ trained \subseteq Samples
  /\ IsFiniteSet(trained)
  /\ model \in {NoModel, Derived(trained)}
  /\ model = NoModel => scrape = {}

(* What was folded is not pending, and everything has one place. *)
Folded ==
  /\ scrape = pending \cup stored \cup unknown
  /\ pending \cap (stored \cup unknown) = {}
  /\ stored \cap unknown = {}

SlotsApart == \A s, t \in stored : s # t => Slot(s) # Slot(t)

(* Every property of an object is that of a sample stored in it. *)
PropertyOf(s, k) == [of |-> ObjectOf(s), label |-> k, value |-> s.labels[k]]
FromSamples == \A p \in props : \E s \in stored : \E k \in Described(s) : p = PropertyOf(s, k)

(* As long as all samples are ones the model was derived from, none is     *)
(* reported.                                                               *)
AllFit == Clean /\ scrape \subseteq trained => unknown = {}

FoldInv ==
  /\ Origin
  /\ Folded
  /\ SlotsApart
  /\ FromSamples
  /\ AllFit

LEMMA ScrapesFinite ==
  ASSUME NEW n \in Nat, NEW rows \in Scrapes(n)
  PROVE  IsFiniteSet(rows) /\ rows \subseteq Samples
<1>1. PICK f \in [1..n -> Samples] : rows = {f[i] : i \in 1..n}
  BY DEF Scrapes
<1>2. IsFiniteSet(1..n)
  BY FS_Interval
<1>3. f \in Surjection(1..n, rows)
  BY <1>1 DEF Surjection
<1>4. QED BY <1>1, <1>3, FS_NatSurjection DEF ExistsSurjection

LEMMA SeenFinite ==
  ASSUME NEW rows, IsFiniteSet(rows), NEW k
  PROVE  IsFiniteSet(Seen(rows, k))
<1> DEFINE f == [s \in rows |-> s.labels[k]]
           T == {s.labels[k] : s \in rows}
<1>1. f \in Surjection(rows, T)
  BY DEF Surjection
<1>2. IsFiniteSet(T)
  BY <1>1, FS_Surjection DEF ExistsSurjection
<1>3. QED BY <1>2, FS_Subset DEF Seen

(* A constant label has one value on all the samples that have it. *)
LEMMA ConstantAgrees ==
  ASSUME NEW rows \in SUBSET Samples, IsFiniteSet(rows), NEW k \in Constant(rows),
         NEW s \in rows, NEW t \in rows, s.labels[k] # "", t.labels[k] # ""
  PROVE  s.labels[k] = t.labels[k]
<1>1. IsFiniteSet(Seen(rows, k)) /\ Cardinality(Seen(rows, k)) = 1
  BY SeenFinite DEF Constant
<1>2. PICK x : Seen(rows, k) = {x}
  BY <1>1, FS_Singleton
<1>3. QED BY <1>2 DEF Seen

(* A label that is not constant has no value or is one of several sorts. *)
LEMMA LabelSorts ==
  ASSUME NEW rows \in SUBSET Samples, IsFiniteSet(rows), NEW k \in Labels \ EntityLabels
  PROVE  \/ Seen(rows, k) = {}
         \/ k \in Constant(rows)
         \/ k \in Variants(rows)
         \/ k \in Unclassified(rows)
<1>1. IsFiniteSet(Seen(rows, k))
  BY SeenFinite
<1>2. Cardinality(Seen(rows, k)) \in Nat
  BY <1>1, FS_CardinalityType
<1>3. Cardinality(Seen(rows, k)) = 0 => Seen(rows, k) = {}
  BY <1>1, FS_EmptySet
<1>4. QED BY <1>2, <1>3 DEF Constant, Variants, Unclassified, Labels

(* The values of the key labels, and with them the labels: no two labels   *)
(* have a value in common.                                                 *)
KeyValues(s, K) == {s.labels[k] : k \in K} \ {""}

LEMMA KeyTextTells ==
  ASSUME NEW s \in Samples, NEW t \in Samples, NEW K \in SUBSET Labels,
         KeyValues(s, K) = KeyValues(t, K), NEW k \in K
  PROVE  s.labels[k] = t.labels[k]
<1>1. \A l \in Labels : /\ s.labels[l] \in ValuesOf[l] \cup {""}
                        /\ t.labels[l] \in ValuesOf[l] \cup {""}
  BY DEF Samples
<1>2. CASE s.labels[k] # ""
  <2>1. PICK l \in K : s.labels[k] = t.labels[l]
    BY <1>2 DEF KeyValues
  <2>2. QED BY <1>1, <1>2, <2>1, ExpositionOK
<1>3. CASE t.labels[k] # ""
  <2>1. PICK l \in K : t.labels[k] = s.labels[l]
    BY <1>3 DEF KeyValues
  <2>2. QED BY <1>1, <1>3, <2>1, ExpositionOK
<1>4. QED BY <1>2, <1>3

(* Two samples of a clean scrape that want one place are the same one. *)
LEMMA CleanTells ==
  ASSUME Origin, Clean, model = Derived(trained),
         NEW s \in trained, NEW t \in trained, Slot(s) = Slot(t)
  PROVE  s = t
<1>1. s \in Samples /\ t \in Samples /\ IsFiniteSet(trained)
  BY DEF Origin
<1>2. /\ model.identity = Identity(trained)
      /\ model.keys = KeyLabels(trained)
  BY DEF Derived
<1>3. s.name = t.name /\ Project(s, Identity(trained)) = Project(t, Identity(trained))
  BY <1>2 DEF Slot, ObjectOf, KeyText
<1>4. KeyValues(s, KeyLabels(trained)) = KeyValues(t, KeyLabels(trained))
  BY <1>2 DEF Slot, KeyText, KeyValues
<1>5. KeyLabels(trained) \subseteq Labels
  BY DEF KeyLabels, Variants, Labels
<1>6. \A k : Seen(trained, k) = {} => s.labels[k] = t.labels[k]
  <2>1. \A k : {s.labels[k], t.labels[k]} \subseteq Seen(trained, k) \cup {""}
    BY DEF Seen
  <2>2. QED BY <2>1
<1>7. ASSUME NEW k \in Labels PROVE s.labels[k] = t.labels[k]
  <2>1. CASE k \in EntityLabels
    <3>1. CASE k \in Identity(trained)
      <4>1. s.labels[k] = Project(s, Identity(trained))[k]
            /\ t.labels[k] = Project(t, Identity(trained))[k]
        BY <3>1 DEF Project
      <4>2. QED BY <1>3, <4>1
    <3>2. CASE k \notin Identity(trained)
      BY <1>6, <2>1, <3>2 DEF Identity
    <3>3. QED BY <3>1, <3>2
  <2>2. CASE k \notin EntityLabels
    <3>1. CASE Seen(trained, k) = {}
      BY <1>6, <3>1
    <3>2. CASE k \in Constant(trained)
      <4>1. s.labels[k] # "" /\ t.labels[k] # "" /\ trained \in SUBSET Samples
        BY <3>2 DEF Clean, Origin
      <4>2. QED BY <1>1, <3>2, <4>1, ConstantAgrees
    <3>3. CASE k \in Variants(trained) /\ k \in KeyLabels(trained)
      BY <1>1, <1>4, <1>5, <3>3, KeyTextTells
    <3>4. CASE k \in Variants(trained) /\ k \notin KeyLabels(trained)
      BY <1>3, <3>4 DEF KeyLabels, Varies
    <3>5. k \notin Unclassified(trained)
      BY DEF Clean
    <3>6. QED BY <2>2, <3>1, <3>2, <3>3, <3>4, <3>5, LabelSorts DEF Origin
  <2>3. QED BY <2>1, <2>2
<1>8. s.labels = t.labels
  <2>1. s.labels \in [Labels -> Values] /\ t.labels \in [Labels -> Values]
    BY <1>1 DEF Samples
  <2>2. QED BY <1>7, <2>1
<1>9. s = [name |-> s.name, labels |-> s.labels] /\ t = [name |-> t.name, labels |-> t.labels]
  BY <1>1 DEF Samples
<1>10. QED BY <1>3, <1>8, <1>9

LEMMA FoldInit == Init => FoldInv
<1> SUFFICES ASSUME Init PROVE FoldInv
  OBVIOUS
<1>1. IsFiniteSet(trained) /\ trained \subseteq Samples
  BY ScrapesFinite, ExpositionOK DEF Init
<1>2. QED BY <1>1 DEF Init, FoldInv, Origin, Folded, SlotsApart, FromSamples, AllFit

LEMMA FoldStep == FoldInv /\ [Next]_vars => FoldInv'
<1> SUFFICES ASSUME FoldInv, [Next]_vars PROVE FoldInv'
  OBVIOUS
<1> USE DEF FoldInv
<1>1. CASE Derive
  <2>1. scrape = {} /\ pending = {} /\ stored = {} /\ unknown = {} /\ props = {}
    BY <1>1 DEF Derive, Origin, Folded, FromSamples
  <2>2. QED BY <1>1, <2>1 DEF Derive, Origin, Folded, SlotsApart, FromSamples, AllFit
<1>2. CASE Parse
  <2>1. stored = {} /\ unknown = {} /\ props = {}
    BY <1>2 DEF Parse, Folded, FromSamples
  <2>2. QED BY <1>2, <2>1 DEF Parse, Origin, Folded, SlotsApart, FromSamples, AllFit
<1>3. ASSUME NEW s \in pending, Fold(s) PROVE FoldInv'
  <2>1. /\ UNCHANGED <<trained, model, scrape>>
        /\ pending' = pending \ {s}
        /\ s \notin stored /\ s \notin unknown /\ s \in scrape
    BY <1>3 DEF Fold, Folded
  <2>2. /\ \A t : Slot(t)' = Slot(t) /\ Described(t)' = Described(t)
        /\ \A t, k : PropertyOf(t, k)' = PropertyOf(t, k)
    BY <2>1 DEF Slot, ObjectOf, KeyText, Bucket, Described, PropertyOf
  <2>3. Origin'
    BY <2>1 DEF Origin
  <2>4. CASE Report(s)
    <3>1. Folded'
      BY <2>1, <2>4 DEF Report, Folded
    <3>2. SlotsApart' /\ FromSamples'
      BY <2>2, <2>4 DEF Report, SlotsApart, FromSamples
    <3>3. ASSUME Clean, scrape \subseteq trained PROVE FALSE
      <4>1. model = Derived(trained) /\ s \in trained
        BY <2>1, <3>3 DEF Origin
      <4>2. s.name \in model.names
        BY <4>1 DEF Derived
      <4>3. MetricOf(s) \in model.metrics
        BY <4>1 DEF Derived, MetricOf
      <4>4. PICK t \in stored : Slot(t) = Slot(s)
        BY <2>4, <4>2, <4>3 DEF Report, Taken
      <4>5. t \in trained
        BY <3>3 DEF Folded
      <4>6. QED BY <2>1, <3>3, <4>1, <4>4, <4>5, CleanTells
    <3>4. AllFit'
      BY <2>1, <3>3 DEF AllFit, Clean
    <3>5. QED BY <2>3, <3>1, <3>2, <3>4
  <2>5. CASE Store(s)
    <3>1. Folded'
      BY <2>1, <2>5 DEF Store, Folded
    <3>2. SlotsApart'
      BY <2>2, <2>5 DEF Store, Taken, SlotsApart
    <3>3. FromSamples'
      <4> SUFFICES ASSUME NEW p \in props'
                   PROVE  \E t \in stored' : \E k \in Described(t) : p = PropertyOf(t, k)
        BY <2>2 DEF FromSamples
      <4>1. CASE p \in props
        BY <2>5, <4>1 DEF Store, FromSamples
      <4>2. CASE p \notin props
        BY <2>5, <4>2 DEF Store, PropertyOf
      <4>3. QED BY <4>1, <4>2
    <3>4. AllFit'
      BY <2>1, <2>5 DEF Store, AllFit, Clean
    <3>5. QED BY <2>3, <3>1, <3>2, <3>3, <3>4
  <2>6. QED BY <1>3, <2>4, <2>5 DEF Fold
<1>4. CASE UNCHANGED vars
  <2>1. Origin' /\ Folded' /\ AllFit'
    BY <1>4 DEF vars, Origin, Folded, AllFit, Clean
  <2>2. \A t : Slot(t)' = Slot(t)
    BY <1>4 DEF vars, Slot, ObjectOf, KeyText, Bucket
  <2>3. SlotsApart'
    BY <1>4, <2>2 DEF vars, SlotsApart
  <2>4. FromSamples'
    BY <1>4, ZenonT(60) DEF vars, FromSamples, Described, PropertyOf, ObjectOf
  <2>5. QED BY <2>1, <2>3, <2>4
<1>5. QED BY <1>1, <1>2, <1>3, <1>4 DEF Next

THEOREM FoldInvariant == Spec => []FoldInv
  BY FoldInit, FoldStep, PTL DEF Spec

(* group: a sample gives its object the one value of a metric or is        *)
(* reported, whatever the scrapes hold.                                    *)
THEOREM NothingIsLost == Spec => []NothingLost
<1>1. FoldInv => NothingLost
  BY DEF FoldInv, Folded, SlotsApart, NothingLost
<1>2. QED BY <1>1, FoldInvariant, PTL

(* model_from_exposition.build: no sample that a complete model was made   *)
(* of is ever reported, in whatever order and selection they come back.    *)
THEOREM TrainedAlwaysFits == Spec => []TrainedFits
<1>1. FoldInv => TrainedFits
  BY DEF FoldInv, AllFit, TrainedFits
<1>2. QED BY <1>1, FoldInvariant, PTL

(* group: a sample is stored under a metric of its own or reported, and    *)
(* none that the model was derived from is reported.                       *)
THEOREM SamplesStay == Spec => []SamplesAreKept
<1>1. NothingLost /\ TrainedFits => SamplesAreKept
  BY DEF SamplesAreKept
<1>2. QED BY <1>1, NothingIsLost, TrainedAlwaysFits, PTL

(* group: what a property says of an object is never taken back by a       *)
(* sample the model was derived from.                                      *)
THEOREM PropertiesStay == Spec => PropertiesSettled
<1>1. FoldInv /\ [Next]_vars => [scrape \subseteq trained => props \subseteq props']_vars
  <2> SUFFICES ASSUME FoldInv, Next, scrape \subseteq trained, NEW p \in props
               PROVE  p \in props'
    BY DEF vars
  <2>1. CASE Derive \/ Parse
    BY <2>1 DEF Derive, Parse
  <2>2. ASSUME NEW s \in pending, Fold(s) PROVE p \in props'
    <3>1. CASE Report(s)
      BY <3>1 DEF Report
    <3>2. CASE Store(s)
      <4>1. PICK t \in stored : \E k \in Described(t) : p = PropertyOf(t, k)
        BY DEF FoldInv, FromSamples
      <4>2. PICK k \in Described(t) : p = PropertyOf(t, k)
        BY <4>1
      <4>3. CASE p.of # ObjectOf(s) \/ p.label \notin Described(s)
        BY <3>2, <4>3 DEF Store
      <4>4. CASE p.of = ObjectOf(s) /\ p.label \in Described(s)
        <5>1. /\ ObjectOf(t) = ObjectOf(s) /\ k \in Described(s)
              /\ p = [of |-> ObjectOf(s), label |-> k, value |-> t.labels[k]]
          BY <4>2, <4>4 DEF PropertyOf
        <5>2. s \in trained /\ t \in trained /\ model = Derived(trained)
          BY DEF FoldInv, Folded, Origin
        <5>3. t.labels[k] = s.labels[k]
          <6>1. k \in Constant(trained) \cup (Variants(trained) \ KeyLabels(trained))
                /\ s.labels[k] # "" /\ t.labels[k] # ""
            BY <4>2, <5>1, <5>2 DEF Described, Derived
          <6>2. CASE k \in Constant(trained)
            BY <5>2, <6>1, <6>2, ConstantAgrees DEF FoldInv, Origin
          <6>3. CASE k \in Variants(trained) \ KeyLabels(trained)
            <7>1. Project(s, Identity(trained)) = Project(t, Identity(trained))
              BY <5>1, <5>2 DEF ObjectOf, Derived
            <7>2. QED BY <5>2, <6>3, <7>1 DEF KeyLabels, Varies
          <6>4. QED BY <6>1, <6>2, <6>3
        <5>4. QED BY <3>2, <5>1, <5>3 DEF Store
      <4>5. QED BY <4>3, <4>4
    <3>3. QED BY <2>2, <3>1, <3>2 DEF Fold
  <2>3. QED BY <2>1, <2>2 DEF Next
<1>2. QED BY <1>1, FoldInvariant, PTL DEF Spec, PropertiesSettled

-----------------------------------------------------------------------------
(* Labels.  How often a word is meant, in two sequences one after another.  *)
Meant(w, s) == {i \in DOMAIN s : Expansion[s[i]] = w}

LEMMA MeantFinite ==
  ASSUME NEW S, NEW s \in Seq(S), NEW w
  PROVE  IsFiniteSet(Meant(w, s)) /\ Times(w, s) = Cardinality(Meant(w, s)) /\ Times(w, s) \in Nat
<1>1. Len(s) \in Nat /\ DOMAIN s = 1..Len(s)
  BY LenProperties
<1>2. IsFiniteSet(1..Len(s)) /\ Meant(w, s) \subseteq 1..Len(s)
  <2>1. IsFiniteSet(1..Len(s))
    BY <1>1, FS_Interval
  <2>2. QED BY <1>1, <2>1 DEF Meant
<1>3. Times(w, s) = Cardinality(Meant(w, s))
  BY DEF Times, Meant
<1>4. QED BY <1>2, <1>3, FS_Subset, FS_CardinalityType

LEMMA TimesAdd ==
  ASSUME NEW S, NEW a \in Seq(S), NEW b \in Seq(S), NEW w
  PROVE  Times(w, a \o b) = Times(w, a) + Times(w, b)
<1> DEFINE A == Meant(w, a)
           B == Meant(w, b)
           C == Meant(w, a \o b)
           n == Len(a)
           D == {n + i : i \in B}
           g == [i \in B |-> n + i]
<1>1. /\ n \in Nat /\ Len(b) \in Nat /\ DOMAIN a = 1..n /\ DOMAIN b = 1..Len(b)
  BY LenProperties
<1>2. /\ a \o b \in Seq(S) /\ Len(a \o b) = n + Len(b)
      /\ \A i \in 1..(n + Len(b)) : (a \o b)[i] = IF i <= n THEN a[i] ELSE b[i - n]
  BY ConcatProperties
<1>3. DOMAIN (a \o b) = 1..(n + Len(b))
  BY <1>2, LenProperties
<1> HIDE DEF n
<1>4. C = A \cup D
  <2>1. ASSUME NEW i \in C PROVE i \in A \cup D
    <3>1. i \in 1..(n + Len(b)) /\ Expansion[(a \o b)[i]] = w
      BY <1>3 DEF Meant
    <3>2. CASE i <= n
      <4>1. i \in 1..n /\ (a \o b)[i] = a[i]
        BY <1>1, <1>2, <3>1, <3>2
      <4>2. QED BY <1>1, <3>1, <4>1 DEF Meant
    <3>3. CASE i > n
      <4>1. i - n \in 1..Len(b) /\ n + (i - n) = i /\ ~(i <= n)
        BY <1>1, <3>1, <3>3
      <4>2. (a \o b)[i] = b[i - n]
        BY <1>2, <3>1, <4>1
      <4>3. i - n \in B
        BY <1>1, <3>1, <4>1, <4>2 DEF Meant
      <4>4. QED BY <4>1, <4>3
    <3>4. QED BY <1>1, <3>1, <3>2, <3>3
  <2>2. ASSUME NEW i \in A PROVE i \in C
    <3>1. i \in 1..n /\ Expansion[a[i]] = w
      BY <1>1 DEF Meant
    <3>2. i \in 1..(n + Len(b)) /\ (a \o b)[i] = a[i]
      BY <1>1, <1>2, <3>1
    <3>3. QED BY <1>3, <3>1, <3>2 DEF Meant
  <2>3. ASSUME NEW i \in B PROVE n + i \in C
    <3>1. i \in 1..Len(b) /\ Expansion[b[i]] = w
      BY <1>1 DEF Meant
    <3>2. n + i \in 1..(n + Len(b)) /\ ~(n + i <= n) /\ (n + i) - n = i
      BY <1>1, <3>1
    <3>3. (a \o b)[n + i] = b[i]
      BY <1>2, <3>2
    <3>4. QED BY <1>3, <3>1, <3>2, <3>3 DEF Meant
  <2> HIDE DEF A, B, C
  <2>4. QED BY <2>1, <2>2, <2>3
<1>5. A \subseteq 1..n /\ B \subseteq 1..Len(b)
  BY <1>1 DEF Meant
<1>6. /\ IsFiniteSet(A) /\ Cardinality(A) = Times(w, a) /\ Times(w, a) \in Nat
      /\ IsFiniteSet(B) /\ Cardinality(B) = Times(w, b) /\ Times(w, b) \in Nat
      /\ Times(w, a \o b) = Cardinality(C)
  BY <1>2, MeantFinite
<1> HIDE DEF A, B, C
<1>7. g \in Bijection(B, D)
  <2>1. \A i, j \in B : g[i] = g[j] => i = j
    BY <1>1, <1>5
  <2>2. g \in [B -> D] /\ \A d \in D : \E i \in B : g[i] = d
    OBVIOUS
  <2>3. QED BY <2>1, <2>2 DEF Bijection, Injection, Surjection, IsInjective
<1>8. A \cap D = {}
  BY <1>1, <1>5
<1> HIDE DEF D, g
<1>9. IsFiniteSet(D) /\ Cardinality(D) = Cardinality(B)
  <2>1. ExistsBijection(B, D)
    BY <1>7 DEF ExistsBijection
  <2>2. QED BY <1>6, <2>1, FS_Bijection
<1>10. Cardinality(A \cup D) = Cardinality(A) + Cardinality(D)
  <2>1. Cardinality(A \cup D) = Cardinality(A) + Cardinality(D) - Cardinality(A \cap D)
    BY <1>6, <1>9, FS_Union
  <2>2. Cardinality(A \cap D) = 0
    BY <1>8, FS_EmptySet
  <2>3. QED BY <1>6, <1>9, <2>1, <2>2
<1>11. QED BY <1>4, <1>6, <1>9, <1>10

(* What is moved out of a name is kept in its notes. *)
LEMMA WordsAndNotes ==
  ASSUME NEW m \in Metrics, NEW w
  PROVE  /\ Words(m) \in Seq(DOMAIN Expansion) /\ Notes(m) \in Seq(DOMAIN Expansion)
         /\ Times(w, m) = Times(w, Words(m)) + Times(w, Notes(m))
<1> DEFINE S == DOMAIN Expansion
           t == Trailing(m)
           s == Stem(m)
           l == Leading(m)
           behind == SubSeq(m, Len(m) - t + 1, Len(m))
           before == SubSeq(m, 1, l)
<1>1. m \in Seq(S) /\ Len(m) \in Nat \ {0}
  BY LabelsOK, EmptySeq, LenProperties
<1>2. t \in 0..(Len(m) - 1)
  <2> DEFINE ends == {n \in 0..Len(m) - 1 :
                 \A i \in Len(m) - n + 1..Len(m) : m[i] \in Qualifiers \cup TrailingOnly}
  <2>1. 0 \in ends
    BY <1>1
  <2>2. ends \subseteq 0..(Len(m) - 1) /\ Len(m) - 1 \in Nat
    BY <1>1
  <2>3. t = Max(ends)
    BY DEF Trailing
  <2> HIDE DEF ends, t
  <2>4. QED BY <2>1, <2>2, <2>3, Greatest
<1>3. s = SubSeq(m, 1, Len(m) - t)
  BY DEF Stem
<1> HIDE DEF t, s
<1>4. Len(m) - t \in 0..Len(m) /\ Len(m) - t >= 1
  BY <1>1, <1>2
<1>5. /\ s \in Seq(S) /\ Len(s) = Len(m) - t
      /\ \A i \in 1..Len(s) : s[i] = m[i]
      /\ behind \in Seq(S) /\ m = s \o behind
  BY <1>1, <1>3, <1>4, CutInTwo, ZenonT(60)
<1>6. l \in 0..(Len(s) - 1)
  <2> DEFINE starts == {n \in 0..Len(s) - 1 : \A i \in 1..n : m[i] \in Qualifiers}
  <2>1. 0 \in starts
    BY <1>1, <1>4, <1>5
  <2>2. starts \subseteq 0..(Len(s) - 1) /\ Len(s) - 1 \in Nat
    BY <1>1, <1>4, <1>5
  <2>3. l = Max(starts)
    BY DEF Leading, s
  <2> HIDE DEF starts, l
  <2>4. QED BY <2>1, <2>2, <2>3, Greatest
<1>7. /\ Words(m) = SubSeq(s, l + 1, Len(s))
      /\ Notes(m) = behind \o before
  BY <1>5 DEF Words, Notes, s
<1> HIDE DEF l
<1>8. l \in 0..Len(s) /\ l \in 0..Len(m)
  BY <1>1, <1>4, <1>5, <1>6
<1>9. /\ SubSeq(s, 1, l) \in Seq(S) /\ Words(m) \in Seq(S)
      /\ Len(SubSeq(s, 1, l)) = l /\ \A i \in 1..l : SubSeq(s, 1, l)[i] = s[i]
      /\ s = SubSeq(s, 1, l) \o Words(m)
  <2>1. /\ SubSeq(s, 1, l) \in Seq(S)
        /\ Len(SubSeq(s, 1, l)) = l /\ \A i \in 1..l : SubSeq(s, 1, l)[i] = s[i]
        /\ SubSeq(s, l + 1, Len(s)) \in Seq(S)
        /\ s = SubSeq(s, 1, l) \o SubSeq(s, l + 1, Len(s))
    BY <1>5, <1>8, CutInTwo
  <2>2. QED BY <1>7, <2>1
<1>10. /\ before \in Seq(S) /\ Len(before) = l
       /\ \A i \in 1..l : before[i] = m[i]
  BY <1>1, <1>8, CutInTwo
<1>11. before = SubSeq(s, 1, l)
  <2> DEFINE c == SubSeq(s, 1, l)
  <2>1. c \in Seq(S) /\ Len(c) = Len(before)
    BY <1>9, <1>10
  <2>2. \A i \in 1..Len(before) : before[i] = c[i]
    BY <1>5, <1>8, <1>9, <1>10
  <2> HIDE DEF c, before
  <2>3. before = c
    BY <1>10, <2>1, <2>2, SeqEqual
  <2>4. QED BY <2>3 DEF c
<1> HIDE DEF behind, before
<1>12. s = before \o Words(m)
  BY <1>9, <1>11
<1>13. /\ Times(w, m) = Times(w, s) + Times(w, behind)
       /\ Times(w, s) = Times(w, before) + Times(w, Words(m))
       /\ Times(w, Notes(m)) = Times(w, behind) + Times(w, before)
  <2>1. Times(w, s \o behind) = Times(w, s) + Times(w, behind)
    BY <1>5, TimesAdd
  <2>2. Times(w, before \o Words(m)) = Times(w, before) + Times(w, Words(m))
    BY <1>9, <1>10, TimesAdd
  <2>3. Times(w, behind \o before) = Times(w, behind) + Times(w, before)
    BY <1>5, <1>10, TimesAdd
  <2>4. QED BY <1>5, <1>7, <1>12, <2>1, <2>2, <2>3
<1>14. Notes(m) \in Seq(S)
  BY <1>5, <1>7, <1>10, ConcatProperties
<1>15. /\ Times(w, before) \in Nat /\ Times(w, behind) \in Nat /\ Times(w, Words(m)) \in Nat
  BY <1>5, <1>9, <1>10, MeantFinite
<1>16. QED BY <1>9, <1>13, <1>14, <1>15

(* Tables that are up to date are what the generator makes of the inputs.  *)
Current ==
  /\ modelled \subseteq Metrics
  /\ fresh => labels = Labelled /\ units = Measured

LEMMA CurrentInit == InitLabels => Current
BY LabelsOK DEF InitLabels, Current

LEMMA CurrentStep == Current /\ [NextLabels]_labelsVars => Current'
<1> SUFFICES ASSUME Current, [NextLabels]_labelsVars PROVE Current'
  OBVIOUS
<1>1. CASE BuildLabels
  <2>1. UNCHANGED <<modelled, official, permille, charted, converted>>
    BY <1>1 DEF BuildLabels, inputs
  <2>2. Labelled' = Labelled
    BY <2>1 DEF Labelled, LabelOf
  <2>3. Measured' = Measured
    BY <2>1 DEF Measured, UnitOf, Said, Chart, Divided
  <2>4. QED BY <1>1, <2>1, <2>2, <2>3 DEF Current, BuildLabels
<1>2. CASE Edit
  <2>1. modelled' = modelled \/ modelled' \subseteq Reported(modelled)
    BY <1>2 DEF Edit
  <2>2. Reported(modelled) \subseteq Metrics
    BY DEF Current, Reported
  <2>3. fresh' = FALSE
    BY <1>2 DEF Edit
  <2>4. QED BY <2>1, <2>2, <2>3 DEF Current
<1>3. CASE UNCHANGED labelsVars
  <2>1. UNCHANGED <<modelled, official, permille, charted, converted, labels, units, fresh>>
    BY <1>3 DEF labelsVars, inputs
  <2>2. Labelled' = Labelled
    BY <2>1 DEF Labelled, LabelOf
  <2>3. Measured' = Measured
    BY <2>1 DEF Measured, UnitOf, Said, Chart, Divided
  <2>4. QED BY <2>1, <2>2, <2>3 DEF Current
<1>4. QED BY <1>1, <1>2, <1>3 DEF NextLabels

LEMMA UpToDate ==
  ASSUME Current, fresh, NEW m \in Defined
  PROVE  /\ m \in Metrics
         /\ MetricLabel(m) = LabelOf(m)
         /\ units[m] = UnitOf(m)
<1>1. m \in Metrics /\ m \in modelled
  BY DEF Current, Defined
<1>2. labels[m] = LabelOf(m)
  BY <1>1 DEF Current, Labelled
<1>3. units[m] = UnitOf(m)
  BY <1>1 DEF Current, Measured
<1>4. LabelOf(m).by # NoLabel.by
  BY DEF LabelOf, ByHand, ByRules, NoLabel
<1>5. QED BY <1>1, <1>2, <1>3, <1>4 DEF MetricLabel

(* What the rules make of a name tells the words it is made of. *)
LEMMA RulesKeepWords ==
  ASSUME NEW m \in Metrics, NEW n \in Metrics, ByRules(m) = ByRules(n)
  PROVE  SameWords(m, n)
<1> SUFFICES ASSUME NEW w PROVE Times(w, m) = Times(w, n)
  BY DEF SameWords
<1>1. Expanded(Words(m)) = Expanded(Words(n)) /\ Notes(m) = Notes(n)
  <2>1. /\ ByRules(m).words = Expanded(Words(m)) /\ ByRules(m).notes = Notes(m)
        /\ ByRules(n).words = Expanded(Words(n)) /\ ByRules(n).notes = Notes(n)
    BY DEF ByRules
  <2>2. QED BY <2>1
<1>2. ASSUME NEW s PROVE Times(w, s) = Cardinality({i \in DOMAIN Expanded(s) : Expanded(s)[i] = w})
  <2>1. DOMAIN Expanded(s) = DOMAIN s /\ \A i \in DOMAIN s : Expanded(s)[i] = Expansion[s[i]]
    BY DEF Expanded, Meaning
  <2>2. {i \in DOMAIN Expanded(s) : Expanded(s)[i] = w} = {i \in DOMAIN s : Expansion[s[i]] = w}
    BY <2>1
  <2>3. QED BY <2>2 DEF Times
<1>3. Times(w, Words(m)) = Times(w, Words(n))
  BY <1>1, <1>2
<1>4. QED BY <1>1, <1>3, WordsAndNotes

(* By tables that are up to date, every defined metric has the label that  *)
(* is made for it, and two that the rules named (label_for,                *)
(* src/tools/build_metric_labels.py) share one only if they are made of    *)
(* the same words.                                                         *)
THEOREM LabelsTellApart == LabelsSpec => []LabelsApart
<1>1. Current => LabelsApart
  <2> SUFFICES ASSUME Current, fresh
               PROVE  /\ \A m \in Defined : MetricLabel(m) = LabelOf(m)
                      /\ \A m, n \in Defined :
                           MetricLabel(m) = MetricLabel(n) /\ MetricLabel(m).by = "rules"
                             => SameWords(m, n)
    BY DEF LabelsApart
  <2>1. \A m \in Defined : MetricLabel(m) = LabelOf(m)
    BY UpToDate
  <2>2. ASSUME NEW m \in Defined, NEW n \in Defined,
               MetricLabel(m) = MetricLabel(n), MetricLabel(m).by = "rules"
        PROVE  SameWords(m, n)
    <3>1. m \in Metrics /\ n \in Metrics
      BY UpToDate
    <3>2. LabelOf(m) = LabelOf(n) /\ LabelOf(m).by = "rules"
      BY <2>1, <2>2
    <3>3. \A x : LabelOf(x).by = "rules" => LabelOf(x) = ByRules(x)
      BY DEF LabelOf, ByHand
    <3>4. ByRules(m) = ByRules(n)
      BY <3>2, <3>3
    <3>5. QED BY <3>1, <3>4, RulesKeepWords
  <2>3. QED BY <2>1, <2>2
<1>2. QED BY <1>1, CurrentInit, CurrentStep, PTL DEF LabelsSpec

(* By tables that are up to date, a metric that comes in parts per         *)
(* thousand is declared a percentage exactly if its values are divided by  *)
(* ten (to_percent, src/app/perfsvc.py), unless something other than the   *)
(* schema gives its unit.                                                  *)
THEOREM PercentagesAreDivided == LabelsSpec => []PercentMeansPercent
<1>1. Current => PercentMeansPercent
  <2> SUFFICES ASSUME Current, fresh, NEW m \in Defined, Said(m) = ""
               PROVE  /\ InPercent(m) => units[m] = "percent"
                      /\ InPermille(m) => units[m] # "percent"
    BY DEF PercentMeansPercent
  <2>1. units[m] = UnitOf(m)
    BY UpToDate
  <2>2. UnitOf(m) = IF m \in converted THEN "percent" ELSE ""
    BY DEF UnitOf, Divided
  <2>3. QED BY <2>1, <2>2 DEF InPercent, InPermille
<1>2. QED BY <1>1, CurrentInit, CurrentStep, PTL DEF LabelsSpec

(* By tables that are up to date, labels made by rule tell metrics of      *)
(* different words apart, and what comes in parts per thousand is declared *)
(* a percentage exactly if it is divided by ten.                           *)
THEOREM LabelsTellTheTruth == LabelsSpec => []LabelsAreTrue
<1>1. LabelsApart /\ PercentMeansPercent => LabelsAreTrue
  BY DEF LabelsAreTrue
<1>2. QED BY <1>1, LabelsTellApart, PercentagesAreDivided, PTL

-----------------------------------------------------------------------------
(* Answers.  The lookups still to be made; a configuration is of a cluster. *)
Lookups ==
  {l \in [kind : {"nodes", "config", "vms", "pools", "hcl", "drives"},
          of : Clusters \cup Hosts \cup {"all"}] :
     l.kind = "config" => l.of \in Clusters}

NamesRight == \A v \in Ids : Right(v, names[v])

HardwareRight(d, hw) ==
  /\ hw.firmware \in {None, Shown(d)}
  /\ hw.driver \in {None, Controller(d)}

FactsInv ==
  /\ device \in [Drives -> Devices]
  /\ lookups \in Seq(Lookups)
  /\ NamesRight
  /\ \A d \in Drives : HardwareRight(d, hardware[d])
  /\ OwnFacts

(* The clusters and the hosts are visited one after another. *)
LEMMA ForIsList ==
  ASSUME NEW S, IsFiniteSet(S), NEW k, \A x \in S : Lookup(k, x) \in Lookups
  PROVE  For(k, S) \in Seq(Lookups)
<1> DEFINE n == Cardinality(S)
           s == SetToSeq(S)
<1>1. n \in Nat /\ ExistsBijection(1..n, S)
  <2>1. PICK m \in Nat : ExistsBijection(1..m, S)
    BY FS_NatBijection
  <2>2. Cardinality(S) = m
    BY <2>1, FS_CountingElements
  <2>3. QED BY <2>1, <2>2
<1>2. PICK f \in [1..n -> S] : IsInjective(f)
  <2>1. \E f \in [1..n -> S] : \A a, b \in 1..n : f[a] = f[b] => a = b
    BY <1>1 DEF ExistsBijection, Bijection, Injection, IsInjective
  <2>2. QED BY <2>1 DEF IsInjective
<1>3. s \in [1..n -> S]
  BY <1>2 DEF SetToSeq
<1> HIDE DEF n, s
<1>4. DOMAIN s = 1..n /\ Len(s) = n /\ \A i \in 1..n : s[i] \in S
  BY <1>1, <1>3
<1>5. For(k, S) = [i \in 1..n |-> Lookup(k, s[i])]
  BY <1>4 DEF For, s
<1>6. \A i \in 1..n : Lookup(k, s[i]) \in Lookups
  BY <1>4
<1>7. QED BY <1>1, <1>5, <1>6

LEMMA FactsInit == InitAnswers => FactsInv
<1> SUFFICES ASSUME InitAnswers PROVE FactsInv
  OBVIOUS
<1>1. lookups \in Seq(Lookups)
  <2>1. /\ For("nodes", Clusters) \in Seq(Lookups)
        /\ For("config", Clusters) \in Seq(Lookups)
        /\ For("pools", Hosts) \in Seq(Lookups)
        /\ For("hcl", Clusters) \in Seq(Lookups)
        /\ For("drives", Hosts) \in Seq(Lookups)
    <3>1. \A c \in Clusters : /\ Lookup("nodes", c) \in Lookups
                              /\ Lookup("config", c) \in Lookups
                              /\ Lookup("hcl", c) \in Lookups
      BY DEF Lookup, Lookups
    <3>2. \A h \in Hosts : Lookup("pools", h) \in Lookups /\ Lookup("drives", h) \in Lookups
      BY DEF Lookup, Lookups
    <3>3. IsFiniteSet(Clusters) /\ IsFiniteSet(Hosts)
      BY AnswersOK
    <3>4. QED BY <3>1, <3>2, <3>3, ForIsList
  <2>2. <<Lookup("vms", "all")>> \in Seq(Lookups)
    <3>1. Lookup("vms", "all") \in Lookups
      BY DEF Lookup, Lookups
    <3>2. QED BY <3>1
  <2>3. \A a, b \in Seq(Lookups) : a \o b \in Seq(Lookups)
    BY ConcatProperties
  <2>4. lookups = For("nodes", Clusters) \o For("config", Clusters) \o <<Lookup("vms", "all")>>
               \o For("pools", Hosts) \o For("hcl", Clusters) \o For("drives", Hosts)
    BY DEF InitAnswers
  <2>5. QED BY <2>1, <2>2, <2>3, <2>4
<1>2. NamesRight
  BY DEF InitAnswers, NamesRight, Right
<1>4. \A d \in Drives : HardwareRight(d, hardware[d])
  BY DEF InitAnswers, HardwareRight, Unknown
<1>5. OwnFacts
  BY DEF InitAnswers, OwnFacts
<1>6. QED BY <1>1, <1>2, <1>4, <1>5 DEF FactsInv, InitAnswers

(* The machine that comes last of some that were listed. *)
LEMMA LastOf ==
  ASSUME NEW S, S \subseteq VMs, S # {}
  PROVE  Max(S) \in S
<1> DEFINE n == Len(VMList)
<1>1. n \in Nat /\ VMs = 1..n
  BY AnswersOK
<1> HIDE DEF n
<1>2. S \subseteq 0..n
  BY <1>1
<1>3. QED BY <1>1, <1>2, Greatest

LEMMA NamingKeeps ==
  ASSUME NamesRight, UNCHANGED world, NEW S, Name(S),
         S \subseteq Hosts \cup Clusters \cup Drives
  PROVE  NamesRight'
<1>1. UNCHANGED <<device, uuid, instance, attached>>
  BY DEF world
<1>2. \A v \in Ids : names'[v] = IF v \in S THEN Shown(v) ELSE names[v]
  BY DEF Name
<1>3. ASSUME NEW v \in Ids PROVE Right(v, names'[v])
  BY <1>2 DEF NamesRight, Right
<1>4. QED BY <1>1, <1>3 DEF NamesRight, Right

LEMMA NamingMachinesKeeps ==
  ASSUME NamesRight, UNCHANGED world, NEW got \in SUBSET VMs, NameVMs(got)
  PROVE  NamesRight'
<1> DEFINE Having(v) == {i \in got : v \in {uuid[i], instance[i]}}
           Attaching(v) == {i \in got : v \in {attached[i], Slashed[attached[i]]}}
<1>1. UNCHANGED <<device, uuid, instance, attached>>
  BY DEF world
<1>2. \A v \in Ids : names'[v] = IF Having(v) # {} THEN Shown(VMList[Max(Having(v))])
                       ELSE IF Attaching(v) # {} THEN DiskOf(VMList[Max(Attaching(v))])
                       ELSE names[v]
  BY DEF NameVMs
<1>3. ASSUME NEW v \in Ids PROVE Right(v, names'[v])
  <2>1. CASE Having(v) # {}
    <3>1. Max(Having(v)) \in Having(v)
      BY <2>1, LastOf
    <3>2. QED BY <1>2, <2>1, <3>1 DEF Right
  <2>2. CASE Having(v) = {} /\ Attaching(v) # {}
    <3>1. Max(Attaching(v)) \in Attaching(v)
      BY <2>2, LastOf
    <3>2. QED BY <1>2, <2>2, <3>1 DEF Right
  <2>3. CASE Having(v) = {} /\ Attaching(v) = {}
    BY <1>2, <2>3 DEF NamesRight
  <2>4. QED BY <2>1, <2>2, <2>3
<1>4. QED BY <1>1, <1>3 DEF NamesRight, Right

(* The driver map of a host is of its own drives. *)
LEMMA DrivesKeep ==
  ASSUME device \in [Drives -> Devices],
         \A d \in Drives : HardwareRight(d, hardware[d]),
         NEW h, NEW got \in SUBSET DrivesOf(h), ReadDrives(h, got)
  PROVE  \A d \in Drives : HardwareRight(d, hardware'[d])
<1> SUFFICES ASSUME NEW d \in Drives PROVE HardwareRight(d, hardware'[d])
  OBVIOUS
<1> DEFINE by == driverFor'[LunOf[d]]
<1>1. HostOf[d] # h => hardware'[d] = hardware[d]
  BY DEF ReadDrives
<1>2. HostOf[d] = h =>
        hardware'[d] = [firmware |-> Shown(d), driver |-> by,
                        version |-> IF by = None THEN None ELSE versions[by[2]]]
  BY DEF ReadDrives
<1>3. ASSUME HostOf[d] = h PROVE by \in {None, Controller(d)}
  <2>1. LunOf[d] \in Luns
    BY AnswersOK
  <2>2. by = IF \E e \in got : LunOf[e] = LunOf[d]
               THEN Controller(CHOOSE e \in got : LunOf[e] = LunOf[d]) ELSE None
    BY <2>1 DEF ReadDrives, AtStart
  <2>3. ASSUME NEW e \in got, LunOf[e] = LunOf[d] PROVE e = d
    BY <1>3, <2>3, AnswersOK DEF DrivesOf
  <2>4. CASE \E e \in got : LunOf[e] = LunOf[d]
    <3>1. (CHOOSE e \in got : LunOf[e] = LunOf[d]) = d
      BY <2>3, <2>4
    <3>2. QED BY <2>2, <2>4, <3>1
  <2>5. QED BY <2>2, <2>4
<1> HIDE DEF by
<1>4. QED BY <1>1, <1>2, <1>3 DEF HardwareRight

LEMMA OwnFactsStay ==
  ASSUME OwnFacts, UNCHANGED <<world, objects>>
  PROVE  OwnFacts'
<1>1. UNCHANGED <<device, uuid, instance, attached, objects>>
  BY DEF world
<1>2. \A v, x : Right(v, x) <=> Right(v, x)'
  BY <1>1 DEF Right
<1>3. \A d : Controller(d)' = Controller(d)
  BY <1>1 DEF Controller
<1>4. QED BY <1>1, <1>2, <1>3 DEF OwnFacts

LEMMA LookUpKeeps == FactsInv /\ LookUp => FactsInv'
<1> SUFFICES ASSUME FactsInv, LookUp PROVE FactsInv'
  OBVIOUS
<1> DEFINE l == Head(lookups)
<1>1. /\ l \in Lookups /\ lookups' \in Seq(Lookups)
      /\ UNCHANGED <<world, answered, objects>>
  BY HeadTailProperties DEF FactsInv, LookUp
<1>2. PICK got \in SUBSET All(l) :
        \/ /\ \/ l.kind \in {"nodes", "config", "pools"} /\ Name(got)
              \/ l.kind = "vms" /\ NameVMs(got)
           /\ UNCHANGED <<versions, driverFor, hardware>>
        \/ /\ l.kind = "hcl" /\ ReadVersions(got)
           /\ UNCHANGED <<names, driverFor, hardware>>
        \/ /\ l.kind = "drives" /\ (ReadDrives(l.of, got) \/ (got = {} /\ SkipHost))
           /\ UNCHANGED <<names, versions>>
  BY DEF LookUp
<1> HIDE DEF l
<1>3. /\ device' = device /\ device \in [Drives -> Devices]
      /\ NamesRight /\ OwnFacts
      /\ \A d \in Drives : HardwareRight(d, hardware[d])
  BY <1>1 DEF FactsInv, world
<1>4. OwnFacts'
  BY <1>1, <1>3, OwnFactsStay
<1>5. names' = names => NamesRight'
  BY <1>1, <1>3 DEF NamesRight, Right, world
<1>7. \A d, hw : HardwareRight(d, hw)' <=> HardwareRight(d, hw)
  BY <1>3 DEF HardwareRight, Controller
<1>8. NamesRight'
  <2>1. CASE l.kind \in {"nodes", "config", "pools"} /\ Name(got)
    <3>1. got \subseteq Hosts \cup Clusters \cup Drives
      BY <1>1, <2>1 DEF All, Lookups, HostsOf, DrivesOf
    <3>2. QED BY <1>1, <1>3, <2>1, <3>1, NamingKeeps
  <2>2. CASE l.kind = "vms" /\ NameVMs(got)
    <3>1. got \in SUBSET VMs
      BY <1>1, <2>2 DEF All
    <3>2. QED BY <1>1, <1>3, <2>2, <3>1, NamingMachinesKeeps
  <2>3. QED BY <1>2, <1>5, <2>1, <2>2
<1>10. \A d \in Drives : HardwareRight(d, hardware'[d])
  <2>1. CASE l.kind = "drives" /\ ReadDrives(l.of, got)
    <3>1. got \in SUBSET DrivesOf(l.of)
      BY <1>1, <2>1 DEF All
    <3>2. QED BY <1>3, <2>1, <3>1, DrivesKeep
  <2>2. QED BY <1>2, <1>3, <2>1 DEF SkipHost
<1>11. QED BY <1>1, <1>3, <1>4, <1>7, <1>8, <1>10 DEF FactsInv

(* What a reference is made of. *)
LEMMA ReferenceIs ==
  ASSUME NEW r \in References
  PROVE  /\ r = [entity |-> r.entity, parts |-> r.parts]
         /\ r.entity \in Entities /\ r.parts[1] \in Heads(r.entity)
         /\ Len(r.parts) \in Nat \ {0}
         /\ r.parts = [i \in 1..Len(r.parts) |-> r.parts[i]]
         /\ \A i \in 2..Len(r.parts) : r.parts[i] \in Parts
         /\ KeyLength(r) \in Nat /\ KeyLength(r) >= Len(r.parts)
<1> DEFINE Rest == {<<>>} \cup {<<p>> : p \in Parts} \cup (Parts \X Parts)
           Of(e) == {[entity |-> e, parts |-> <<x>> \o t] : x \in Heads(e), t \in Rest}
<1>1. References = UNION {Of(e) : e \in Entities}
  BY DEF References
<1>2. PICK e \in Entities : r \in Of(e)
  <2> HIDE DEF Of
  <2>1. QED BY <1>1
<1>3. PICK x \in Heads(e), t \in Rest : r = [entity |-> e, parts |-> <<x>> \o t]
  <2> HIDE DEF Rest
  <2>1. QED BY <1>2
<1>4. t \in Seq(Parts)
  <2>1. CASE t = <<>>
    BY <2>1
  <2>2. CASE t \in {<<p>> : p \in Parts}
    <3>1. PICK p \in Parts : t = <<p>>
      BY <2>2
    <3>2. <<p>> \in Seq(Parts)
      OBVIOUS
    <3>3. QED BY <3>1, <3>2
  <2>3. CASE t \in Parts \X Parts
    <3>1. PICK p \in Parts, q \in Parts : t = <<p, q>>
      BY <2>3
    <3>2. <<p, q>> \in Seq(Parts)
      OBVIOUS
    <3>3. QED BY <3>1, <3>2
  <2>4. QED BY <2>1, <2>2, <2>3
<1> HIDE DEF Rest
<1> DEFINE S == Parts \cup {x}
           h == <<x>>
<1>5. h \in Seq(S) /\ Len(h) = 1 /\ h[1] = x /\ t \in Seq(S)
  <2>1. t \in Seq(S)
    <3>1. \A i \in 1..Len(t) : t[i] \in S
      BY <1>4, ElementOfSeq
    <3>2. Len(t) \in Nat /\ t = [i \in 1..Len(t) |-> t[i]]
      BY <1>4, LenProperties
    <3>3. QED BY <3>1, <3>2
  <2>2. QED BY <2>1
<1> HIDE DEF S, h
<1>6. /\ h \o t \in Seq(S) /\ Len(h \o t) = Len(h) + Len(t)
      /\ \A i \in 1..(Len(h) + Len(t)) : (h \o t)[i] = IF i <= Len(h) THEN h[i] ELSE t[i - Len(h)]
  BY <1>5, ConcatProperties
<1>7. r.entity = e /\ r.parts = h \o t /\ r = [entity |-> e, parts |-> h \o t]
  BY <1>3 DEF h
<1>8. Len(t) \in Nat /\ \A i \in 1..Len(t) : t[i] \in Parts
  BY <1>4, LenProperties, ElementOfSeq
<1>9. ASSUME NEW i \in 2..Len(r.parts) PROVE r.parts[i] \in Parts
  <2>1. i - 1 \in 1..Len(t) /\ i \in 1..(Len(h) + Len(t)) /\ ~(i <= Len(h)) /\ i - Len(h) = i - 1
    BY <1>5, <1>6, <1>7, <1>8
  <2>2. QED BY <1>6, <1>7, <1>8, <2>1
<1>10. Len(r.parts) \in Nat \ {0} /\ r.parts = [i \in 1..Len(r.parts) |-> r.parts[i]]
  <2>1. Len(r.parts) = 1 + Len(t)
    BY <1>5, <1>6, <1>7
  <2>2. Len(r.parts) \in Nat \ {0}
    BY <1>8, <2>1
  <2>3. r.parts \in Seq(S)
    BY <1>6, <1>7
  <2>4. \A s \in Seq(S) : s = [i \in 1..Len(s) |-> s[i]]
    OBVIOUS
  <2>5. QED BY <2>2, <2>3, <2>4
<1>11. Len(Identifiers[r.entity]) \in Nat \ {0}
  BY <1>7, AnswersOK
<1>12. KeyLength(r) \in Nat /\ KeyLength(r) >= Len(r.parts)
  BY <1>10, <1>11 DEF KeyLength, NamedParts
<1>13. r.parts[1] \in Heads(r.entity)
  BY <1>5, <1>6, <1>7, <1>8
<1>14. QED BY <1>7, <1>9, <1>10, <1>12, <1>13

(* What is answered is of a thing, and its parts are identifiers.           *)
LEMMA KeyIs ==
  ASSUME NEW r \in References
  PROVE  /\ DOMAIN Key(r).idents = 1..Len(Key(r).idents)
         /\ 1 \in DOMAIN Key(r).idents
         /\ \A i \in DOMAIN Key(r).idents : Key(r).idents[i] \in Ids
         /\ IsDrive(Key(r)) => Key(r).idents[1] \in Drives
<1>1. /\ r.entity \in Entities /\ r.parts[1] \in Heads(r.entity)
      /\ Len(r.parts) \in Nat \ {0} /\ \A i \in 2..Len(r.parts) : r.parts[i] \in Parts
      /\ KeyLength(r) \in Nat \ {0}
  <2>1. /\ r.entity \in Entities /\ r.parts[1] \in Heads(r.entity)
        /\ Len(r.parts) \in Nat \ {0} /\ \A i \in 2..Len(r.parts) : r.parts[i] \in Parts
        /\ KeyLength(r) \in Nat /\ KeyLength(r) >= Len(r.parts)
    BY ReferenceIs
  <2>2. KeyLength(r) \in Nat \ {0}
    BY <2>1
  <2>3. QED BY <2>1, <2>2
<1>2. Identifiers[r.entity][1] \in Things
  BY <1>1, AnswersOK
<1>3. /\ r.parts[1] \in Ids
      /\ Identifiers[r.entity][1] = "disk_uuid" => r.parts[1] \in Drives
  BY <1>1, <1>2 DEF Things, Heads, Ids
<1>4. ASSUME NEW i \in 1..Len(r.parts) PROVE r.parts[i] \in Ids
  <2>1. i = 1 \/ i \in 2..Len(r.parts)
    BY <1>1
  <2>2. QED BY <1>1, <1>3, <2>1 DEF Ids
<1>5. /\ Key(r).entity = r.entity
      /\ Key(r).idents = [i \in 1..KeyLength(r) |->
                            IF i <= Len(r.parts) THEN r.parts[i] ELSE Aggregate]
  BY DEF Key
<1>6. DOMAIN Key(r).idents = 1..KeyLength(r) /\ Len(Key(r).idents) = KeyLength(r)
  BY <1>1, <1>5
<1>7. ASSUME NEW i \in 1..KeyLength(r) PROVE Key(r).idents[i] \in Ids
  <2>1. CASE i <= Len(r.parts)
    <3>1. i \in 1..Len(r.parts)
      BY <1>1, <2>1
    <3>2. QED BY <1>4, <1>5, <2>1, <3>1
  <2>2. CASE ~(i <= Len(r.parts))
    BY <1>5, <2>2 DEF Ids
  <2>3. QED BY <2>1, <2>2
<1>8. 1 \in 1..KeyLength(r) /\ Key(r).idents[1] = r.parts[1]
  BY <1>1, <1>5
<1>9. QED BY <1>3, <1>5, <1>6, <1>7, <1>8 DEF IsDrive

LEMMA AnswerKeeps == FactsInv /\ (\E r \in References : Answer(r)) => FactsInv'
<1> SUFFICES ASSUME FactsInv, NEW r \in References, Answer(r) PROVE FactsInv'
  OBVIOUS
<1>1. /\ UNCHANGED <<device, uuid, instance, attached, lookups, names, versions, hardware>>
      /\ objects' = objects \cup {ReportOf(Key(r))}
  BY DEF Answer, world
<1>2. /\ NamesRight'
      /\ \A d \in Drives : HardwareRight(d, hardware[d])'
  BY <1>1 DEF FactsInv, NamesRight, Right, Controller, HardwareRight
<1> DEFINE k == Key(r)
           n == ReportOf(k)
<1>3. /\ n.key = k /\ n.props = [i \in 1..Len(k.idents) |-> names[k.idents[i]]]
      /\ n.hardware = IF IsDrive(k) THEN hardware[k.idents[1]] ELSE Unknown
  BY DEF ReportOf
<1> HIDE DEF n, k
<1>4. ASSUME NEW i \in DOMAIN n.props PROVE Right(n.key.idents[i], n.props[i])
  <2>1. i \in DOMAIN k.idents /\ n.props[i] = names[k.idents[i]] /\ k.idents[i] \in Ids
    BY <1>3, <1>4, KeyIs DEF k
  <2>2. QED BY <1>3, <2>1 DEF FactsInv, NamesRight
<1>5. ASSUME IsDrive(n.key)
      PROVE  n.key.idents[1] \in Drives /\ HardwareRight(n.key.idents[1], n.hardware)
  <2>1. k.idents[1] \in Drives
    BY <1>3, <1>5, KeyIs DEF k
  <2>2. QED BY <1>3, <1>5, <2>1 DEF FactsInv
<1>6. OwnFacts'
  <2>1. \A v, x : Right(v, x) <=> Right(v, x)'
    BY <1>1 DEF Right
  <2>2. \A d : Controller(d)' = Controller(d)
    BY <1>1 DEF Controller
  <2>3. ASSUME NEW o \in objects'
        PROVE  /\ \A i \in DOMAIN o.props : Right(o.key.idents[i], o.props[i])
               /\ IsDrive(o.key) => HardwareRight(o.key.idents[1], o.hardware)
    <3>1. CASE o \in objects
      BY <3>1 DEF FactsInv, OwnFacts, HardwareRight
    <3>2. CASE o = n
      BY <1>4, <1>5, <3>2
    <3>3. QED BY <1>1, <3>1, <3>2 DEF n, k
  <2>4. QED BY <1>1, <2>1, <2>2, <2>3 DEF OwnFacts, HardwareRight
<1>7. QED BY <1>1, <1>2, <1>6 DEF FactsInv

LEMMA FactsStep == FactsInv /\ [NextAnswers]_answersVars => FactsInv'
<1>1. FactsInv /\ UNCHANGED answersVars => FactsInv'
  <2> SUFFICES ASSUME FactsInv, UNCHANGED answersVars PROVE FactsInv'
    OBVIOUS
  <2>1. UNCHANGED <<device, uuid, instance, attached, lookups, names, versions, hardware, objects>>
    BY DEF answersVars, world
  <2>2. OwnFacts'
    BY <2>1, OwnFactsStay DEF FactsInv, world
  <2>3. QED BY <2>1, <2>2 DEF FactsInv, NamesRight, Right, Controller, HardwareRight
<1>2. QED BY <1>1, LookUpKeeps, AnswerKeeps DEF NextAnswers

(* Whatever lookups failed (build_name_map, build_disk_hardware,           *)
(* src/app/perfsvc.py), an object is named after things that have its      *)
(* identifiers, or the identifiers stay, and a drive has its own firmware  *)
(* and driver or none.  The version of the driver is not among this.       *)
THEOREM DescribedByOwnFacts == AnswersSpec => []OwnFacts
<1>1. FactsInv => OwnFacts
  BY DEF FactsInv
<1>2. QED BY <1>1, FactsInit, FactsStep, PTL DEF AnswersSpec

(* What a shorter reference lacks is filled up with what no part is. *)
LEMMA KeysApart ==
  ASSUME NEW r \in References, NEW q \in References, Key(r) = Key(q)
  PROVE  r = q
<1>1. \A x \in References :
        /\ Key(x).entity = x.entity
        /\ Key(x).idents = [i \in 1..KeyLength(x) |-> IF i <= Len(x.parts) THEN x.parts[i] ELSE Aggregate]
  BY DEF Key
<1>2. r.entity = q.entity
  BY <1>1
<1> DEFINE k(x) == [i \in 1..KeyLength(x) |-> IF i <= Len(x.parts) THEN x.parts[i] ELSE Aggregate]
<1>3. k(r) = k(q)
  BY <1>1
<1>4. KeyLength(r) = KeyLength(q)
  <2>0. KeyLength(r) \in Nat /\ KeyLength(q) \in Nat
    BY ReferenceIs
  <2>1. Len(k(r)) = KeyLength(r) /\ Len(k(q)) = KeyLength(q)
    BY <2>0
  <2> HIDE DEF k
  <2>2. QED BY <1>3, <2>1
<1>5. ASSUME NEW x \in References, NEW y \in References, k(x) = k(y), KeyLength(x) = KeyLength(y)
      PROVE  ~(Len(x.parts) < Len(y.parts))
  <2> SUFFICES ASSUME Len(x.parts) < Len(y.parts) PROVE FALSE
    OBVIOUS
  <2> DEFINE n == Len(y.parts)
  <2>0. /\ n \in Nat \ {0} /\ KeyLength(y) \in Nat /\ KeyLength(y) >= n
        /\ Len(x.parts) \in Nat \ {0}
    BY ReferenceIs
  <2>1. n \in 2..Len(y.parts) /\ n \in 1..KeyLength(y) /\ n \in 1..KeyLength(x) /\ ~(n <= Len(x.parts))
    BY <1>5, <2>0
  <2>2. k(y)[n] = y.parts[n] /\ k(x)[n] = Aggregate
    BY <2>1
  <2>3. y.parts[n] \in Parts
    BY <2>1, ReferenceIs
  <2>4. QED BY <1>5, <2>2, <2>3, AnswersOK
<1>6. Len(r.parts) = Len(q.parts)
  <2>1. ~(Len(r.parts) < Len(q.parts)) /\ ~(Len(q.parts) < Len(r.parts))
    BY <1>3, <1>4, <1>5
  <2>2. Len(r.parts) \in Nat /\ Len(q.parts) \in Nat
    BY ReferenceIs
  <2>3. QED BY <2>1, <2>2
<1>7. ASSUME NEW i \in 1..Len(r.parts) PROVE r.parts[i] = q.parts[i]
  <2>0. /\ Len(r.parts) \in Nat \ {0} /\ KeyLength(r) \in Nat /\ KeyLength(r) >= Len(r.parts)
    BY ReferenceIs
  <2>1. i \in 1..KeyLength(r) /\ i <= Len(r.parts) /\ i \in 1..KeyLength(q) /\ i <= Len(q.parts)
    BY <1>4, <1>6, <2>0
  <2>2. k(r)[i] = r.parts[i] /\ k(q)[i] = q.parts[i]
    BY <2>1
  <2>3. QED BY <1>3, <2>2
<1>8. r.parts = q.parts
  <2>1. /\ r.parts = [i \in 1..Len(r.parts) |-> r.parts[i]]
        /\ q.parts = [i \in 1..Len(q.parts) |-> q.parts[i]]
    BY ReferenceIs
  <2>2. QED BY <1>6, <1>7, <2>1
<1>9. QED BY <1>2, <1>8, ReferenceIs

(* The objects are, by their keys, what was answered. *)
ApartInv ==
  /\ answered \subseteq References
  /\ IsFiniteSet(answered) /\ IsFiniteSet(objects)
  /\ \A o \in objects : \E r \in answered : o.key = Key(r)
  /\ ObjectsApart

LEMMA ApartStep == ApartInv /\ [NextAnswers]_answersVars => ApartInv'
<1> SUFFICES ASSUME ApartInv, [NextAnswers]_answersVars PROVE ApartInv'
  OBVIOUS
<1>1. CASE UNCHANGED <<answered, objects>>
  BY <1>1 DEF ApartInv, ObjectsApart
<1>2. ASSUME NEW r \in References, Answer(r) PROVE ApartInv'
  <2> DEFINE n == ReportOf(Key(r))
  <2>1. /\ r \notin answered /\ answered' = answered \cup {r}
        /\ objects' = objects \cup {n}
    BY <1>2 DEF Answer
  <2>2. n.key = Key(r)
    BY DEF ReportOf
  <2> HIDE DEF n
  <2>3. n \notin objects
    BY <2>1, <2>2, KeysApart DEF ApartInv
  <2>4. /\ IsFiniteSet(answered') /\ Cardinality(answered') = Cardinality(answered) + 1
        /\ IsFiniteSet(objects') /\ Cardinality(objects') = Cardinality(objects) + 1
    BY <2>1, <2>3, FS_AddElement DEF ApartInv
  <2>5. \A o \in objects' : \E q \in answered' : o.key = Key(q)
    BY <2>1, <2>2 DEF ApartInv
  <2>6. QED BY <2>1, <2>4, <2>5 DEF ApartInv, ObjectsApart
<1>3. CASE LookUp
  BY <1>1, <1>3 DEF LookUp
<1>4. QED BY <1>1, <1>2, <1>3 DEF NextAnswers, answersVars

-----------------------------------------------------------------------------
(* What was reported is what the maps, which no lookup changes any more,   *)
(* make of a reference that was answered.                                  *)
TellInv ==
  /\ uuid \in [VMs -> VMIds] /\ instance \in [VMs -> VMIds] /\ attached \in [VMs -> Paths]
  /\ objects # {} => lookups = <<>>
  /\ \A o \in objects : \E r \in References : o = ReportOf(Key(r))

LEMMA TellStep == TellInv /\ [NextAnswers]_answersVars => TellInv'
<1> SUFFICES ASSUME TellInv, [NextAnswers]_answersVars PROVE TellInv'
  OBVIOUS
<1>1. CASE UNCHANGED answersVars
  <2>1. UNCHANGED <<uuid, instance, attached, lookups, names, hardware, objects>>
    BY <1>1 DEF answersVars, world
  <2>2. \A k : ReportOf(k)' = ReportOf(k)
    BY <2>1 DEF ReportOf, Display
  <2>3. QED BY <2>1, <2>2 DEF TellInv
<1>2. ASSUME NEW r \in References, Answer(r) PROVE TellInv'
  <2>1. /\ UNCHANGED <<uuid, instance, attached, lookups, names, hardware>>
        /\ lookups = <<>> /\ objects' = objects \cup {ReportOf(Key(r))}
    BY <1>2 DEF Answer, world
  <2>2. \A k : ReportOf(k)' = ReportOf(k)
    BY <2>1 DEF ReportOf, Display
  <2>3. \A o \in objects' : \E q \in References : o = ReportOf(Key(q))'
    BY <2>1, <2>2 DEF TellInv
  <2>4. QED BY <2>1, <2>3 DEF TellInv
<1>3. CASE LookUp
  <2>1. /\ UNCHANGED <<uuid, instance, attached, objects>> /\ lookups # <<>>
    BY <1>3 DEF LookUp, world
  <2>2. objects = {}
    BY <2>1 DEF TellInv
  <2>3. QED BY <2>1, <2>2 DEF TellInv
<1>4. QED BY <1>1, <1>2, <1>3 DEF NextAnswers

(* A set of places 2, 3, ... n can be put in order. *)
LEMMA OrderIs ==
  ASSUME NEW n \in Nat \ {0}
  PROVE  /\ DOMAIN InOrder(2..n) = 1..(n - 1)
         /\ \A x \in 2..n : \E j \in 1..(n - 1) : InOrder(2..n)[j] = x
<1> DEFINE S == 2..n
           c == Cardinality(S)
           Fits(s) == \A i, j \in DOMAIN s : i < j => s[i] < s[j]
           t == [i \in 1..c |-> i + 1]
           o == InOrder(S)
<1>1. /\ IsFiniteSet(S) /\ c \in Nat /\ c = n - 1
  <2>1. IsFiniteSet(S) /\ c = IF 2 > n THEN 0 ELSE n - 2 + 1
    BY FS_Interval
  <2>2. QED BY <2>1
<1> HIDE DEF c
<1>2. t \in [1..c -> S] /\ Fits(t)
  BY <1>1
<1>3. o \in [1..c -> S] /\ Fits(o)
  <2>1. o = CHOOSE s \in [1..c -> S] : Fits(s)
    BY DEF InOrder, c
  <2>2. QED BY <1>2, <2>1
<1> HIDE DEF o
<1>4. IsInjective(o)
  <2>1. \A i, j \in 1..c : i < j => o[i] < o[j]
    BY <1>3
  <2>2. \A i \in 1..c : o[i] \in S /\ o[i] \in Int
    BY <1>3
  <2>3. \A i, j \in 1..c : i # j => i < j \/ j < i
    BY <1>1
  <2>4. \A i, j \in 1..c : o[i] = o[j] => i = j
    BY <2>1, <2>2, <2>3
  <2>5. QED BY <1>3, <2>4 DEF IsInjective
<1>5. \A x \in S : \E j \in 1..c : o[j] = x
  <2>1. o \in Injection(1..c, S)
    BY <1>3, <1>4 DEF Injection, IsInjective
  <2>2. Cardinality(1..c) = c
    BY <1>1, FS_Interval
  <2>3. o \in Surjection(1..c, S)
    BY <1>1, <2>1, <2>2, FS_Injection DEF c
  <2>4. QED BY <2>3 DEF Surjection
<1>6. QED BY <1>1, <1>3, <1>5 DEF o

(* An object's name shows which parts its reference has.                   *)
LEMMA NameIs ==
  ASSUME NEW r \in References
  PROVE  /\ Key(r).idents[1] = r.parts[1]
         /\ {i \in 2..Len(Key(r).idents) : Key(r).idents[i] # Aggregate} = 2..Len(r.parts)
         /\ \A i \in 2..Len(r.parts) : Key(r).idents[i] = r.parts[i]
<1>1. /\ Len(r.parts) \in Nat \ {0} /\ \A i \in 2..Len(r.parts) : r.parts[i] \in Parts
      /\ KeyLength(r) \in Nat /\ KeyLength(r) >= Len(r.parts)
  BY ReferenceIs
<1>2. Key(r).idents = [i \in 1..KeyLength(r) |-> IF i <= Len(r.parts) THEN r.parts[i] ELSE Aggregate]
  BY DEF Key
<1>3. Len(Key(r).idents) = KeyLength(r)
  BY <1>1, <1>2
<1> DEFINE v == Key(r).idents
           n == Len(r.parts)
<1>4. \A i \in 1..KeyLength(r) : v[i] = IF i <= n THEN r.parts[i] ELSE Aggregate
  BY <1>2
<1> HIDE DEF v, n
<1>5. \A i \in 2..n : v[i] = r.parts[i] /\ v[i] # Aggregate
  <2> SUFFICES ASSUME NEW i \in 2..n PROVE v[i] = r.parts[i] /\ v[i] # Aggregate
    OBVIOUS
  <2>1. i \in 1..KeyLength(r) /\ i <= n
    BY <1>1 DEF n
  <2>2. v[i] = r.parts[i] /\ r.parts[i] \in Parts
    BY <1>1, <1>4, <2>1 DEF n
  <2>3. QED BY <2>2, AnswersOK
<1>6. {i \in 2..KeyLength(r) : v[i] # Aggregate} = 2..n
  <2>1. ASSUME NEW i \in 2..KeyLength(r), v[i] # Aggregate PROVE i \in 2..n
    BY <1>1, <1>4, <2>1 DEF n
  <2>2. \A i \in 2..n : i \in 2..KeyLength(r)
    BY <1>1 DEF n
  <2>3. QED BY <1>5, <2>1, <2>2
<1>7. v[1] = r.parts[1]
  BY <1>1, <1>4 DEF n
<1>8. QED BY <1>3, <1>5, <1>6, <1>7 DEF v, n

LEMMA NamesTell ==
  ASSUME FactsInv, TellInv, NEW r \in References, NEW q \in References,
         r.entity = q.entity, r.parts[1] = q.parts[1], Display(Key(r)) = Display(Key(q))
  PROVE  r = q
<1> DEFINE scoped(x) == InOrder({i \in 2..Len(Key(x).idents) : Key(x).idents[i] # Aggregate})
           rest(x) == [j \in DOMAIN scoped(x) |-> names[Key(x).idents[scoped(x)[j]]]]
<1>1. rest(r) = rest(q)
  <2>1. Display(Key(r)).rest = rest(r) /\ Display(Key(q)).rest = rest(q)
    BY DEF Display
  <2>2. QED BY <2>1
<1>2. /\ scoped(r) = InOrder(2..Len(r.parts)) /\ scoped(q) = InOrder(2..Len(q.parts))
      /\ \A i \in 2..Len(r.parts) : Key(r).idents[i] = r.parts[i]
      /\ \A i \in 2..Len(q.parts) : Key(q).idents[i] = q.parts[i]
  BY NameIs
<1>3. /\ Len(r.parts) \in Nat \ {0} /\ Len(q.parts) \in Nat \ {0}
      /\ \A i \in 2..Len(r.parts) : r.parts[i] \in Parts
      /\ \A i \in 2..Len(q.parts) : q.parts[i] \in Parts
  BY ReferenceIs
<1>4. Len(r.parts) = Len(q.parts)
  <2>1. DOMAIN scoped(r) = 1..(Len(r.parts) - 1) /\ DOMAIN scoped(q) = 1..(Len(q.parts) - 1)
    BY <1>2, <1>3, OrderIs
  <2>2. DOMAIN rest(r) = DOMAIN scoped(r) /\ DOMAIN rest(q) = DOMAIN scoped(q)
    OBVIOUS
  <2> HIDE DEF scoped, rest
  <2>3. 1..(Len(r.parts) - 1) = 1..(Len(q.parts) - 1)
    BY <1>1, <2>1, <2>2
  <2>4. QED BY <1>3, <2>3
<1>5. \A u, v \in Parts : names[u] = names[v] => u = v
  <2> SUFFICES ASSUME NEW u \in Parts, NEW v \in Parts, names[u] = names[v] PROVE u = v
    OBVIOUS
  <2>1. Right(u, names[u]) /\ Right(v, names[v])
    BY DEF FactsInv, NamesRight, Ids
  <2>2. ASSUME NEW i \in VMs
        PROVE  /\ u \notin {uuid[i], instance[i]} /\ u \notin {attached[i], Slashed[attached[i]]}
               /\ v \notin {uuid[i], instance[i]} /\ v \notin {attached[i], Slashed[attached[i]]}
    BY AnswersOK, ZenonT(60) DEF TellInv, DiskIds
  <2>3. names[u] \in {Raw(u), Shown(u)} /\ names[v] \in {Raw(v), Shown(v)}
    BY <2>1, <2>2 DEF Right
  <2>4. /\ Raw(u) = Raw(v) => u = v
        /\ Shown(u) = Shown(v) => u = v
        /\ Raw(u) # Shown(v) /\ Shown(u) # Raw(v)
    BY DEF Raw, Shown
  <2>5. QED BY <2>3, <2>4
<1>6. ASSUME NEW i \in 2..Len(r.parts) PROVE r.parts[i] = q.parts[i]
  <2>0. \E j \in 1..(Len(r.parts) - 1) : InOrder(2..Len(r.parts))[j] = i
    BY <1>3, OrderIs
  <2>1. PICK j \in DOMAIN scoped(r) : scoped(r)[j] = i
    BY <1>2, <1>3, <2>0, OrderIs
  <2>2. scoped(q) = scoped(r)
    BY <1>2, <1>4
  <2>3. rest(r)[j] = names[Key(r).idents[i]] /\ rest(q)[j] = names[Key(q).idents[i]]
    BY <2>1, <2>2
  <2> HIDE DEF scoped, rest
  <2>4. names[r.parts[i]] = names[q.parts[i]]
    BY <1>1, <1>2, <1>4, <2>3
  <2>5. QED BY <1>3, <1>4, <1>5, <2>4
<1>7. \A i \in 1..Len(r.parts) : r.parts[i] = q.parts[i]
  <2>1. \A i \in 1..Len(r.parts) : i = 1 \/ i \in 2..Len(r.parts)
    BY <1>3
  <2>2. QED BY <1>6, <2>1
<1>8. r.parts = q.parts
  <2>1. /\ r.parts = [i \in 1..Len(r.parts) |-> r.parts[i]]
        /\ q.parts = [i \in 1..Len(q.parts) |-> q.parts[i]]
    BY ReferenceIs
  <2>2. QED BY <1>4, <1>7, <2>1
<1>9. QED BY <1>8, ReferenceIs

(* No two answers become one object, whatever parts references have        *)
(* (parse_ref, src/app/perfsvc.py), and two objects of one entity type     *)
(* that are of one thing have different names (ObjectKey.display).         *)
THEOREM AnswersAreToldApart == AnswersSpec => []ToldApart
<1>1. FactsInv /\ ApartInv /\ TellInv => ToldApart
  <2> SUFFICES ASSUME FactsInv, ApartInv, TellInv, NEW o \in objects, NEW p \in objects,
                      o.key.entity = p.key.entity, o.name = p.name,
                      o.key.idents[1] = p.key.idents[1]
               PROVE  o = p
    BY DEF ToldApart, ApartInv
  <2>1. PICK r \in References : o = ReportOf(Key(r))
    BY DEF TellInv
  <2>2. PICK q \in References : p = ReportOf(Key(q))
    BY DEF TellInv
  <2>3. /\ o.key = Key(r) /\ o.name = Display(Key(r))
        /\ p.key = Key(q) /\ p.name = Display(Key(q))
    BY <2>1, <2>2 DEF ReportOf
  <2>4. r.entity = q.entity
    BY <2>3 DEF Key
  <2>5. r.parts[1] = q.parts[1]
    BY <2>3, NameIs
  <2>6. r = q
    BY <2>3, <2>4, <2>5, NamesTell
  <2>7. QED BY <2>1, <2>2, <2>6
<1>2. InitAnswers => FactsInv /\ ApartInv /\ TellInv
  <2>1. InitAnswers => ApartInv
    BY FS_EmptySet DEF InitAnswers, ApartInv, ObjectsApart
  <2>2. InitAnswers => TellInv
    BY DEF InitAnswers, TellInv
  <2>3. QED BY <2>1, <2>2, FactsInit
<1>3. FactsInv /\ [NextAnswers]_answersVars => FactsInv'
  BY FactsStep
<1>4. QED BY <1>1, <1>2, <1>3, ApartStep, TellStep, PTL DEF AnswersSpec
=============================================================================
