------------------------------- MODULE Placeholders -------------------------------
(***************************************************************************)
(* build_dashboard.py and clone_dashboard.py: a dashboard refers to kinds   *)
(* and pinned objects by numbered placeholders, which its `entries` map     *)
(* back.  The numbers are given by two registries of the module, which are  *)
(* emptied for every dashboard; some shapes of widgets write the number 0   *)
(* without asking a registry.  A clone numbers the kinds of its own panels. *)
(* Layout and wording are left out, and where a widget stands.              *)
(***************************************************************************)
EXTENDS Naturals, Sequences, FiniteSets, SequencesExt

CONSTANTS
  Kinds,        \* resource kinds of the adapter
  Metrics,
  Known,        \* <<kind, metric>> of the model
  HostSystem,   \* the kind of vCenter's hosts
  Objects,      \* objects that may be pinned
  Shapes,       \* widgets that are built
  MaxWidgets,   \* bound: widgets of a dashboard
  MaxDocs       \* bound: dashboards

VARIABLES
  kinds,    \* _KINDS: the kinds that have a number, in its order
  objects,  \* _RESOURCES: the objects that have one
  widgets,  \* of the dashboard that is being built
  open,     \* a dashboard is being built
  docs,     \* the finished ones
  ended     \* an unknown metric ended the script

placeholderVars == <<kinds, objects, widgets, open, docs, ended>>

Init ==
  /\ kinds = <<>> /\ objects = <<>> /\ widgets = <<>>
  /\ open = FALSE /\ docs = <<>> /\ ended = FALSE

-----------------------------------------------------------------------------
(* A widget: the placeholders in it, each with what the code means by it,   *)
(* the metrics it shows, and whether it selects objects itself, is fed, or  *)
(* neither.                                                                 *)
Widget(shape, uses, keys, role) == [shape |-> shape, uses |-> uses, keys |-> keys, role |-> role]

KindPlace(n, k) == [sort |-> "kind", n |-> n, means |-> k]
ObjectPlace(n, o) == [sort |-> "object", n |-> n, means |-> o]

Building(shape) == open /\ ~ended /\ shape \in Shapes /\ Len(widgets) < MaxWidgets

Add(w) ==
  /\ widgets' = Append(widgets, w)
  /\ UNCHANGED <<open, docs, ended>>

AddPlain(w) == Add(w) /\ UNCHANGED <<kinds, objects>>

(* A typo'd key has to be caught while the file is built. *)
Validate(k, m) == <<k, m>> \in Known

Begin ==
  /\ ~open /\ ~ended /\ Len(docs) < MaxDocs /\ Shapes # {"clone"}
  /\ kinds' = <<>> /\ objects' = <<>> /\ widgets' = <<>>
  /\ open' = TRUE
  /\ UNCHANGED <<docs, ended>>

Text == Building("text") /\ AddPlain(Widget("text", {}, {}, "none"))

Heatmap(k, m) ==
  /\ Building("heatmap") /\ Validate(k, m)
  /\ AddPlain(Widget("heatmap", {KindPlace(0, HostSystem)}, {<<k, m>>}, "selects"))

Scoreboard(k, m) ==
  /\ Building("scoreboard")
  /\ AddPlain(Widget("scoreboard", {KindPlace(0, k)}, {<<k, m>>}, "selects"))

ScoreboardKindScoped(k, m) ==
  /\ Building("kind scoped")
  /\ AddPlain(Widget("kind scoped", {KindPlace(0, k), ObjectPlace(0, k)}, {<<k, m>>}, "selects"))

ScoreboardRelationship(k, m) ==
  /\ Building("relationship")
  /\ AddPlain(Widget("relationship", {KindPlace(0, k)}, {<<k, m>>}, "fed"))

HostProvider ==
  /\ Building("host provider")
  /\ AddPlain(Widget("host provider", {ObjectPlace(0, HostSystem)}, {}, "provides"))

(* Every pinned object gets the next number. *)
ObjectListPinned(o) ==
  /\ Building("pinned")
  /\ objects' = Append(objects, o)
  /\ Add(Widget("pinned", {ObjectPlace(Len(objects), o)}, {}, "provides"))
  /\ UNCHANGED kinds

(* A kind gets the next number when it is met first. *)
Registered(k) == IF k \in Range(kinds) THEN kinds ELSE Append(kinds, k)

NumberOf(seq, k) == CHOOSE n \in 0..(Len(seq) - 1) : seq[n + 1] = k

ScoreboardReceiver(k, m) ==
  /\ Building("receiver") /\ Validate(k, m)
  /\ kinds' = Registered(k)
  /\ Add(Widget("receiver", {KindPlace(NumberOf(kinds', k), k)}, {<<k, m>>}, "fed"))
  /\ UNCHANGED objects

Invalid(k, m) ==
  /\ Building("receiver") \/ Building("heatmap")
  /\ ~Validate(k, m)
  /\ ended' = TRUE /\ open' = FALSE
  /\ UNCHANGED <<kinds, objects, widgets, docs>>

Positions(ws, role) == {i \in DOMAIN ws : ws[i].role = role}

ProviderOf(ws) ==
  LET ps == Positions(ws, "provides") IN {i \in ps : \A j \in ps : i <= j}

Wire(ws) == ProviderOf(ws) \X Positions(ws, "fed")

(* The lists go into the document, the objects as a copy. *)
Finish ==
  /\ open /\ widgets # <<>>
  /\ docs' = Append(docs, [widgets |-> widgets, kinds |-> kinds, objects |-> objects,
                           wires |-> Wire(widgets)])
  /\ open' = FALSE
  /\ UNCHANGED <<kinds, objects, widgets, ended>>

-----------------------------------------------------------------------------
(* A clone of the working export: its object list with the pinned object,   *)
(* and for every panel a copy of its Scoreboard.                            *)
Distinct(panels) ==
  FoldLeft(LAMBDA ks, p : IF p[1] \in Range(ks) THEN ks ELSE Append(ks, p[1]), <<>>, panels)

ScoreboardsFrom(panels) ==
  LET refs == Distinct(panels) IN
  [i \in DOMAIN panels |->
     LET p == panels[i] IN
     Widget("copy", {KindPlace(NumberOf(refs, p[1]), p[1])}, {p}, "fed")]

Clone(o, panels) ==
  /\ "clone" \in Shapes /\ ~open /\ ~ended /\ Len(docs) < MaxDocs
  /\ IF \E i \in DOMAIN panels : ~Validate(panels[i][1], panels[i][2])
     THEN ended' = TRUE /\ UNCHANGED docs
     ELSE LET ws == <<Widget("pinned", {ObjectPlace(0, o)}, {}, "provides")>>
                      \o ScoreboardsFrom(panels) IN
          /\ docs' = Append(docs, [widgets |-> ws, kinds |-> Distinct(panels),
                                   objects |-> <<o>>, wires |-> {1} \X (DOMAIN ws \ {1})])
          /\ UNCHANGED ended
  /\ UNCHANGED <<kinds, objects, widgets, open>>

Panels == UNION {[1..n -> Kinds \X Metrics] : n \in 1..MaxWidgets}

Next ==
  \/ Begin \/ Text \/ HostProvider \/ Finish
  \/ \E k \in Kinds, m \in Metrics :
       \/ Heatmap(k, m) \/ Scoreboard(k, m) \/ ScoreboardKindScoped(k, m)
       \/ ScoreboardRelationship(k, m) \/ ScoreboardReceiver(k, m) \/ Invalid(k, m)
  \/ \E o \in Objects : ObjectListPinned(o) \/ \E panels \in Panels : Clone(o, panels)

Spec == Init /\ [][Next]_placeholderVars

-----------------------------------------------------------------------------
ObjectsOf(d) == d.objects

Resolved(d, u) ==
  LET map == IF u.sort = "kind" THEN d.kinds ELSE ObjectsOf(d) IN
  IF u.n < Len(map) THEN {map[u.n + 1]} ELSE {}

(* What a document's receivers, object lists and copied panels refer to is  *)
(* mapped back to what they mean, and the entries map nothing else, however *)
(* many dashboards one script builds and in whatever order they name kinds  *)
(* and objects (build_dashboard.py:111-138, clone_dashboard.py:129-140).    *)
OwnPlacesResolve ==
  \A i \in DOMAIN docs :
    LET d == docs[i]
        own == {j \in DOMAIN d.widgets : d.widgets[j].shape \in {"receiver", "pinned", "copy"}}
        used == UNION {d.widgets[j].uses : j \in own}
    IN /\ \A u \in used : Resolved(d, u) = {u.means}
       /\ Len(d.kinds) + Len(ObjectsOf(d)) = Cardinality({<<u.sort, u.n>> : u \in used})

(* A widget that is fed is fed by exactly one widget, the document's first  *)
(* provider, if it has one (build_dashboard.py:534-539,                     *)
(* clone_dashboard.py:149-155).                                             *)
FedByProvider ==
  \A i \in DOMAIN docs :
    LET d == docs[i] IN
    Positions(d.widgets, "provides") # {} =>
      \A r \in Positions(d.widgets, "fed") :
        \E p \in Positions(d.widgets, "provides") : {w \in d.wires : w[2] = r} = {<<p, r>>}

(* What a receiver, a heatmap or a copied panel of a document shows is a    *)
(* metric of its kind (build_dashboard.py:49-55, clone_dashboard.py:58-64). *)
KeysExist ==
  \A i \in DOMAIN docs : \A w \in Range(docs[i].widgets) :
    w.shape \in {"receiver", "heatmap", "copy"} => w.keys \subseteq Known

=============================================================================
