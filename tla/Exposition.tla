------------------------------ MODULE Exposition ------------------------------
(***************************************************************************)
(* The host's metrics endpoint: a model is derived from one scrape         *)
(* (tools/model_from_exposition.py, app/model.py), and the samples of      *)
(* later scrapes are folded into objects by it, one by one in the order    *)
(* they come (app/vsanmetrics.py).  Which labels tell objects apart, which *)
(* tell the metrics of an object apart and which only describe it is       *)
(* decided from what the first scrape happened to hold.                    *)
(* One host and one family: families and hosts share nothing.  Help texts, *)
(* kind names and counts are left out; an absent label is an empty one.    *)
(***************************************************************************)
EXTENDS Integers, FiniteSets

CONSTANTS
  Names,        \* metric names of the family
  Counters,     \* those that classify_metrics.py takes for counters
  EntityLabels, MeasurementLabels, OtherLabels,
  ValuesOf,     \* the values of each label
  MaxTrained,   \* bound: samples of the scrape the model is derived from
  MaxNew        \* bound: samples of a later scrape that were not in the first

Labels == EntityLabels \cup MeasurementLabels \cup OtherLabels

ASSUME ExpositionOK ==
  /\ Counters \subseteq Names
  /\ \A k \in Labels : "" \notin ValuesOf[k]
  /\ \A k, l \in Labels : k = l \/ ValuesOf[k] \cap ValuesOf[l] = {}
  /\ EntityLabels \cap MeasurementLabels = {}
  /\ OtherLabels \cap (EntityLabels \cup MeasurementLabels) = {}
  /\ MaxTrained \in Nat \ {0} /\ MaxNew \in Nat

Values == UNION {ValuesOf[k] : k \in Labels} \cup {""}
Samples == [name : Names,
            labels : {f \in [Labels -> Values] : \A k \in Labels : f[k] \in ValuesOf[k] \cup {""}}]

Scrapes(n) == {{f[i] : i \in 1..n} : f \in [1..n -> Samples]}

VARIABLES
  trained,   \* the scrape the model is derived from
  model,     \* what is derived from it
  scrape,    \* the samples of a later scrape that are parsed
  pending,   \* those not yet folded
  stored,    \* samples that gave an object the value of a metric
  unknown,   \* samples that group() reports
  props      \* properties given to objects

vars == <<trained, model, scrape, pending, stored, unknown, props>>

-----------------------------------------------------------------------------
(* model_from_exposition.build, emit_python.                               *)

Project(s, K) == [k \in K |-> s.labels[k]]
Seen(rows, k) == {s.labels[k] : s \in rows} \ {""}

(* What identifies an object: the entity labels it may have. *)
Identity(rows) == {k \in EntityLabels : Seen(rows, k) # {}}

(* A label varies if one object has samples that differ in it. *)
Varies(rows, k) ==
  \E s, t \in rows : /\ Project(s, Identity(rows)) = Project(t, Identity(rows))
                     /\ s.labels[k] # t.labels[k]

Constant(rows) == {k \in Labels \ EntityLabels : Cardinality(Seen(rows, k)) = 1}
Variants(rows) == {k \in MeasurementLabels : Cardinality(Seen(rows, k)) > 1}
Unclassified(rows) == {k \in OtherLabels : Cardinality(Seen(rows, k)) > 1}

(* Mutant: no label tells metrics apart.                                   *)
NoKeyLabels(rows) == {}
KeyLabels(rows) == {k \in Variants(rows) : Varies(rows, k)}

Derived(rows) ==
  [names      |-> {s.name : s \in rows},
   identity   |-> Identity(rows),
   keys       |-> KeyLabels(rows),
   properties |-> Constant(rows) \cup (Variants(rows) \ KeyLabels(rows)),
   metrics    |-> {[name |-> s.name, key |-> Project(s, KeyLabels(rows))] : s \in rows}]

NoModel == [names |-> {}, identity |-> {}, keys |-> {}, properties |-> {}, metrics |-> {}]

-----------------------------------------------------------------------------
(* vsanmetrics.group.  The metric key joins the values of the key labels    *)
(* that are not empty; no two labels have a value in common.                *)

ObjectOf(s) == Project(s, model.identity)
MetricOf(s) == [name |-> s.name, key |-> Project(s, model.keys)]

(* Mutant: the key is the name, as it was when io_type collided.           *)
NameOnly(s) == <<s.name, {}>>
KeyText(s) == <<s.name, {s.labels[k] : k \in model.keys} \ {""}>>
Bucket(s) == IF s.name \in Counters THEN "counters" ELSE "gauges"
Slot(s) == <<ObjectOf(s), Bucket(s), KeyText(s)>>

Taken(s) == \E t \in stored : Slot(t) = Slot(s)

Described(s) == {k \in model.properties : s.labels[k] # ""}


Init ==
  /\ trained \in Scrapes(MaxTrained)
  /\ model = NoModel
  /\ scrape = {} /\ pending = {}
  /\ stored = {} /\ unknown = {} /\ props = {}

Derive ==
  /\ model = NoModel
  /\ model' = Derived(trained)
  /\ UNCHANGED <<trained, scrape, pending, stored, unknown, props>>

(* parse: with the model's names as a filter, others are dropped unseen.   *)
Parse ==
  /\ model # NoModel /\ scrape = {}
  /\ \E old \in SUBSET trained, new \in Scrapes(MaxNew), keep \in BOOLEAN :
       scrape' = {s \in old \cup new : keep => s.name \in model.names}
  /\ pending' = scrape'
  /\ UNCHANGED <<trained, model, stored, unknown, props>>

Report(s) ==
  /\ s.name \notin model.names \/ MetricOf(s) \notin model.metrics \/ Taken(s)
  /\ unknown' = unknown \cup {s}
  /\ UNCHANGED <<stored, props>>

Store(s) ==
  /\ s.name \in model.names /\ MetricOf(s) \in model.metrics /\ ~Taken(s)
  /\ stored' = stored \cup {s}
  /\ props' = {p \in props : p.of # ObjectOf(s) \/ p.label \notin Described(s)}
                \cup {[of |-> ObjectOf(s), label |-> k, value |-> s.labels[k]] : k \in Described(s)}
  /\ UNCHANGED unknown

Fold(s) ==
  /\ pending' = pending \ {s}
  /\ Report(s) \/ Store(s)
  /\ UNCHANGED <<trained, model, scrape>>

Next ==
  \/ Derive
  \/ Parse
  \/ \E s \in pending : Fold(s)

Spec == Init /\ [][Next]_vars

-----------------------------------------------------------------------------
(* Properties.                                                              *)

(* A sample that was folded gave its object the one value of a metric, or   *)
(* is reported: none is dropped, none replaces another                      *)
(* (vsanmetrics.py:373-379, the collision of io_type).                      *)
NothingLost ==
  /\ scrape = pending \cup stored \cup unknown
  /\ stored \cap unknown = {}
  /\ \A s, t \in stored : s # t => Slot(s) # Slot(t)

(* The labels of a scrape from which the model can be derived completely:   *)
(* none is unclassified, and one that only describes is on every sample.    *)
Clean == /\ Unclassified(trained) = {}
         /\ \A k \in Constant(trained), s \in trained : s.labels[k] # ""

(* The samples the model was derived from fit it, in any order: "the model  *)
(* is meant to make it impossible" that two are one metric of one object    *)
(* (vsanmetrics.py:414).                                                    *)
TrainedFits == Clean /\ scrape \subseteq trained => unknown = {}

(* No sample is lost, to another of its object or to the model it was       *)
(* derived from: it is stored or reported, and one the model was derived    *)
(* from is stored (vsanmetrics.py:373-379, 414).                            *)
SamplesAreKept == NothingLost /\ TrainedFits

(* A property of an object does not change from sample to sample of what    *)
(* the model was derived from, in any order: labels that differ within an   *)
(* object are not properties (model_from_exposition.py:144-163).            *)
PropertiesSettled == [][scrape \subseteq trained => props \subseteq props']_vars
=============================================================================
