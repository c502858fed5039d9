--------------------------------- MODULE Labels ---------------------------------
(***************************************************************************)
(* What a metric is called and measured in.  build_metric_labels.py makes  *)
(* two tables, LABELS and UNITS, of the modelled metrics, Broadcom's names,*)
(* the units HCIBench charts metrics in, some curated exceptions, the      *)
(* metric's own name, and the list of metrics that perfsvc.py divides by   *)
(* ten; the adapter defines its metrics by the tables and reports values   *)
(* by the list.  People edit the inputs and run the generator in any order.*)
(* A metric is the sequence of the tokens its name splits into; capitals,  *)
(* spaces and the wording of expansions are left out.                      *)
(***************************************************************************)
EXTENDS Integers, SequencesExt

CONSTANTS
  Metrics,        \* the metrics there may be
  Models,         \* sets of metrics an entity type may have
  Qualifiers,     \* min, max, avg, actual, rate, total
  TrailingOnly,   \* read, write: qualifiers at the end only
  Expansion,      \* token -> what it stands for
  Curated,        \* OVERRIDE: metrics labelled by hand
  NameHas,        \* word -> metrics with it somewhere in their names
  NameEnds,       \* word -> metrics whose names end with it
  UnitOverride,   \* metric -> unit
  AmbiguousUnit,  \* metrics that must stay without one
  ChartUnits,     \* what HCIBench charts in: keys of UNIT_MAP
  MaxSourced,     \* bound: metrics that HCIBench charts, that are in permille
  MaxEdits        \* bound: edits of the inputs

(* What the unit rules look for: "Ms", "Us" and "USec" with their capitals,  *)
(* the others in any.                                                       *)
NameWords == {"Ms", "Us", "USec", "latency", "lat", "qlat", "throughput", "bytespersec",
              "iops", "bytes", "sbspace", "ctxq", "pct", "percent", "util"}

ASSUME LabelsOK ==
  /\ Metrics \subseteq Seq(DOMAIN Expansion) \ {<<>>}
  /\ Models \subseteq SUBSET Metrics
  /\ NameHas \in [NameWords -> SUBSET Metrics]
  /\ NameEnds \in [NameWords -> SUBSET Metrics]
  /\ Curated \cup AmbiguousUnit \cup DOMAIN UnitOverride \subseteq Metrics
  /\ MaxSourced \in Nat /\ MaxEdits \in Nat

VARIABLES
  modelled,   \* the metrics of an entity type in the two models
  official,   \* metrics the Performance Service has a name for
  permille,   \* metrics its schema gives in parts per thousand
  charted,    \* HCIBench: metric -> unit, "": none
  converted,  \* perfsvc.PERMILLE
  labels, units,  \* metric_labels.py
  fresh,      \* history: the tables were generated after the last edit
  edits

inputs == <<modelled, official, permille, charted, converted>>
labelsVars == <<inputs, labels, units, fresh, edits>>

-----------------------------------------------------------------------------
(* label_for: qualifiers at either end go behind the rest, in brackets; one *)
(* token always stays.                                                      *)

Trailing(m) ==
  LET ends == {n \in 0..Len(m) - 1 :
                 \A i \in Len(m) - n + 1..Len(m) : m[i] \in Qualifiers \cup TrailingOnly}
  IN Max(ends)
Stem(m) == SubSeq(m, 1, Len(m) - Trailing(m))

Leading(m) ==
  Max({n \in 0..Len(Stem(m)) - 1 : \A i \in 1..n : m[i] \in Qualifiers})
Words(m) == SubSeq(Stem(m), Leading(m) + 1, Len(Stem(m)))

Notes(m) == SubSeq(m, Len(Stem(m)) + 1, Len(m)) \o SubSeq(m, 1, Leading(m))

Meaning(token) == Expansion[token]
Expanded(s) == [i \in DOMAIN s |-> Meaning(s[i])]
ByRules(m) == [by |-> "rules", words |-> Expanded(Words(m)), notes |-> Notes(m)]

Twin(m) == Len(m) > 1 /\ Last(m) = "actual"
Base(m) == IF Twin(m) THEN Front(m) ELSE m

NoLabel == [by |-> "none", words |-> <<>>, notes |-> <<>>]

(* What a person wrote of a metric is said of its twins too; of the raw twin *)
(* of an actual one it is not.                                              *)
CuratedTwin(m) ==
  /\ Len(m) > 1 /\ Front(m) \in Curated
  /\ Last(m) \in {"actual", "raw"} /\ (Last(m) = "raw" => Last(Front(m)) # "actual")
ByHand(m) ==
  [by |-> "hand", words |-> IF CuratedTwin(m) THEN Front(m) ELSE m,
   notes |-> IF CuratedTwin(m) THEN <<Last(m)>> ELSE <<>>]

(* It outranks Broadcom, Broadcom the rules. *)
LabelOf(m) ==
  IF m \in Curated \/ CuratedTwin(m) THEN ByHand(m)
  ELSE IF m \in official THEN [by |-> "Broadcom", words |-> m, notes |-> <<>>]
  ELSE ByRules(m)

-----------------------------------------------------------------------------
(* _unit_from_name and the unit rules of main.                              *)

UnitRules ==
  <<[ends |-> {"Ms"}, has |-> {}, unit |-> "milliseconds"],
    [ends |-> {"Us", "USec"}, has |-> {}, unit |-> "microseconds"],
    [ends |-> {"lat"}, has |-> {"latency", "qlat"}, unit |-> "microseconds"],
    [ends |-> {"bytespersec"}, has |-> {"throughput"}, unit |-> "bytes per second"],
    [ends |-> {}, has |-> {"iops"}, unit |-> "IO operations per second"],
    [ends |-> {"bytes"}, has |-> {"sbspace", "ctxq"}, unit |-> "bytes"],
    [ends |-> {"pct", "percent", "util"}, has |-> {}, unit |-> "percent"]>>

(* The first rule that the name fits says. *)
Fitting(m) == {i \in DOMAIN UnitRules :
              \/ \E w \in UnitRules[i].ends : m \in NameEnds[w]
              \/ \E w \in UnitRules[i].has : m \in NameHas[w]}
UnitFromName(m) == IF Fitting(m) = {} THEN "" ELSE UnitRules[Min(Fitting(m))].unit

(* UNIT_MAP: counts have no unit. *)
Mapped(unit) == IF unit = "short" THEN "" ELSE unit

Chart(m) == IF charted[m] = "" /\ Base(m) \in Metrics THEN charted[Base(m)] ELSE charted[m]

Overridden(m) == m \in DOMAIN UnitOverride
Ambiguous(m) == m \in AmbiguousUnit

Said(m) == IF Overridden(m) THEN UnitOverride[m]
           ELSE IF Mapped(Chart(m)) # "" THEN Mapped(Chart(m)) ELSE UnitFromName(m)

(* Mutant: every metric that the schema gives in permille is called percent, *)
(* as the generator once did.                                               *)
BySchema(m) == m \in permille
Divided(m) == m \in converted

UnitOf(m) == IF Said(m) # "" /\ ~Ambiguous(m) THEN Said(m)
             ELSE IF Divided(m) THEN "percent" ELSE ""

Labelled == [m \in Metrics |-> IF m \in modelled THEN LabelOf(m) ELSE NoLabel]
Measured == [m \in Metrics |-> IF m \in modelled THEN UnitOf(m) ELSE ""]

BuildLabels ==
  /\ labels' = Labelled /\ units' = Measured
  /\ fresh' = TRUE
  /\ UNCHANGED <<inputs, edits>>

-----------------------------------------------------------------------------
(* The adapter: which metrics it defines (perfsvc.metrics_for), what it     *)
(* calls them, and which values it divides (perfsvc.to_percent).            *)

Defined == {m \in modelled : ~(Twin(m) /\ Base(m) \in modelled)}
MetricLabel(m) == IF labels[m] # NoLabel THEN labels[m] ELSE [NoLabel EXCEPT !.words = m]
InPercent(m) == Base(m) \in permille /\ m \in converted
InPermille(m) == Base(m) \in permille /\ m \notin converted

-----------------------------------------------------------------------------
(* What people edit and harvest.  Nothing charts a metric in percent that   *)
(* comes in permille and is not converted.                                  *)

Reported(model) == model \cup ({Base(m) : m \in model} \cap Metrics)

Consistent ==
  \A m \in Metrics : charted[m] = "percent" /\ m \in permille => m \in converted

(* What HCIBench charts and in which unit, and what the schema gives in     *)
(* permille: any metrics, as many as the bound allows.                      *)
Few(S) == {T \in SUBSET S : Cardinality(T) <= MaxSourced}
Charts(model) ==
  {[m \in Metrics |-> IF m \in DOMAIN f THEN f[m] ELSE ""] :
     f \in UNION {[S -> ChartUnits] : S \in Few(Reported(model))}}
Schemas(model) == Few(Reported(model))

InitLabels ==
  /\ modelled \in Models
  /\ official \in SUBSET modelled
  /\ permille \in Schemas(modelled)
  /\ converted \in SUBSET permille
  /\ charted \in Charts(modelled)
  /\ Consistent
  /\ labels = Labelled /\ units = Measured
  /\ fresh = TRUE /\ edits = 0

Edit ==
  /\ edits < MaxEdits
  /\ \/ /\ converted' \in SUBSET permille
        /\ UNCHANGED <<modelled, official, permille, charted>>
     \/ /\ modelled' \in {S \in SUBSET Reported(modelled) : S # {}}
        /\ UNCHANGED <<official, permille, charted, converted>>
  /\ Consistent'
  /\ fresh' = FALSE /\ edits' = edits + 1
  /\ UNCHANGED <<labels, units>>

NextLabels == BuildLabels \/ Edit

LabelsSpec == InitLabels /\ [][NextLabels]_labelsVars

-----------------------------------------------------------------------------
(* Properties.                                                              *)

Times(w, m) == Cardinality({i \in DOMAIN m : Expansion[m[i]] = w})
SameWords(m, n) == \A w \in Range(Expansion) : Times(w, m) = Times(w, n)

(* By tables that are up to date, every metric has the label made for it,   *)
(* and two that the rules named have one label only if their names are made *)
(* of the same words: a qualifier is moved, not lost                        *)
(* (build_metric_labels.py:189-209, adapter.py:427-445).                    *)
LabelsApart ==
  fresh =>
    /\ \A m \in Defined : MetricLabel(m) = LabelOf(m)
    /\ \A m, n \in Defined :
         MetricLabel(m) = MetricLabel(n) /\ MetricLabel(m).by = "rules"
           => SameWords(m, n)

(* By tables that are up to date, what is declared a percentage is one: a   *)
(* metric that comes in permille is declared so if and only if the adapter  *)
(* divides it by ten, unless something other than the schema says what its  *)
(* unit is ("a 10x overstatement", build_metric_labels.py:247-262).         *)
PercentMeansPercent ==
  fresh =>
    \A m \in Defined : Said(m) = "" =>
      /\ InPercent(m) => units[m] = "percent"
      /\ InPermille(m) => units[m] # "percent"

(* By tables that are up to date, what a metric is called tells it apart    *)
(* and what is declared its unit is true                                    *)
(* (build_metric_labels.py:189-209, 247-262).                               *)
LabelsAreTrue == LabelsApart /\ PercentMeansPercent
=============================================================================
