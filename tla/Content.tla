------------------------------- MODULE Content -------------------------------
(***************************************************************************)
(* How tables become what ships and what is collected.  The entity types   *)
(* come from a live cluster (tools/model_from_perfsvc.py), the rest from   *)
(* the advertised schema (build_model_extra.py); build_view.py and         *)
(* build_dash.py write views and dashboards into a directory outside the   *)
(* repository, which they never clean; sync_content.py copies them into    *)
(* the tree a pak is built from; gen_metric_scope.py writes what the       *)
(* adapter asks for by default (adapter.py, perfsvc.py).  People edit the  *)
(* tables and run the scripts in any order.                                *)
(* The project tree gets every write the repository gets: one tree stands  *)
(* for both.  Labels, units, seeds and layout are left out.                *)
(***************************************************************************)
EXTENDS Integers, FiniteSets, SequencesExt

CONSTANTS
  Entities, Metrics,
  Actual,      \* the metrics named <base>Actual, each with its base
  LiveKind,    \* model_from_perfsvc.kind_and_label, per entity type
  ExtraKind,   \* build_model_extra.kind_for: not always the same
  Served,      \* what clusters return of every entity type, {}: nothing, or
               \* the query failed
  Schema,      \* perfsvc_schema.json: what the service advertises
  Excluded,    \* THREAD_SCOPED and REDUNDANT_WITH_VCENTER
  Whole,       \* DEFAULT_EXTRA: kinds collected although no view uses them
  Titles, Selector,  \* view titles; the cluster selector of every dashboard
  Dashboards,
  ColumnSets,  \* the columns views are edited to have
  MaxEdits     \* bound: edits of the tables

Kinds == {LiveKind[e] : e \in Entities} \cup {ExtraKind[e] : e \in Entities}

ASSUME ContentOK ==
  /\ Actual \in [DOMAIN Actual -> Metrics] /\ DOMAIN Actual \subseteq Metrics
  /\ Served \subseteq [Entities -> SUBSET Metrics]
  /\ Schema \in [Entities -> SUBSET Metrics]
  /\ Excluded \cup Whole \subseteq Kinds
  /\ Selector \in Titles /\ "none" \notin Titles \cup Kinds
  /\ ColumnSets \subseteq (SUBSET Metrics) \ {{}}
  /\ MaxEdits \in Nat
  /\ \A e, f \in Entities :  \* no two entity types share a kind
       e = f \/ {LiveKind[e], ExtraKind[e]} \cap {LiveKind[f], ExtraKind[f]} = {}

VARIABLES
  live, extra,  \* perfsvc_model, perfsvc_model_extra: entity type -> metrics
  covered,      \* metric_scope.COVERED: kind -> metrics, {}: not there
  views,        \* build_view.VIEWS
  guid,         \* the title whose uuid5 is the identity of a title: PINNED
  dashes,       \* build_dash.DASHBOARDS: the views of each, {}: not there
  outViews, outDashes,    \* the output directory: *.xml, and *.zip of dashboards
  treeViews, treeDashes,  \* content/reports, content/dashboards
  fresh,        \* history: steps that succeeded since views or dashes changed
  edits

model == <<live, extra>>
tables == <<views, guid, dashes>>
out == <<outViews, outDashes>>
tree == <<treeViews, treeDashes>>
contentVars == <<model, covered, tables, out, tree, fresh, edits>>

-----------------------------------------------------------------------------
Foreign == "vCenter"  \* the kind of the selector's subject, of another adapter
View(k, cols) == [kind |-> k, cols |-> cols]
NoView == View("none", {})
NoFile == [guid |-> "none", view |-> NoView]

TitlesOf(table) == {t \in Titles : table[t] # NoView}
FilesIn(dir) == {t \in Titles : dir[t] # NoFile}
DashesIn(dir) == {d \in Dashboards : dir[d] # {}}

(* build_view.build: identity from the title, subject and columns from the *)
(* table; build_dash.build: the selector, then one widget for each panel.   *)
Built(t) == [guid |-> guid[t], view |-> views[t]]

Refs(panels) == {guid[t] : t \in panels \cup {Selector}}
Resolves(panels) == panels \cup {Selector} \subseteq TitlesOf(views)

(* gen_metric_scope.main: the provisional model is laid over the live one,  *)
(* and what views show of each kind is collected.                           *)
Generated ==
  [k \in Kinds |-> UNION {IF extra[e] # {} THEN (IF ExtraKind[e] = k THEN extra[e] ELSE {})
                          ELSE (IF LiveKind[e] = k THEN live[e] ELSE {}) : e \in Entities}]

(* Mutant: the columns of one view only are remembered for each kind. *)
UsedOnce(k) == LET ts == {u \in Titles : views[u].kind = k}
               IN IF ts = {} THEN {} ELSE views[CHOOSE t \in ts : TRUE].cols

Used(k) == UNION {views[t].cols : t \in {u \in Titles : views[u].kind = k}}
Scope == [k \in Kinds |->
            IF k \in Excluded THEN {}
            ELSE IF k \in Whole THEN Generated[k] ELSE Generated[k] \cap Used(k)]

(* verify_pak.verify, what it says of views and dashboards: each view is    *)
(* shown, each reference defined, and neither part is empty.                *)
Defined == {treeViews[t].guid : t \in FilesIn(treeViews)}
Referenced == UNION {treeDashes[d] : d \in Dashboards}

(* A check that examined nothing is a failure. *)
Examined == Defined # {} /\ Referenced # {}

(* Mutant: views that no dashboard uses pass. *)
VerifiedReferences == Examined /\ Referenced \subseteq Defined

Verified == Examined /\ Defined = Referenced

-----------------------------------------------------------------------------
(* At run time: perfsvc lays the live model over the provisional one, and   *)
(* adapter._scope_for translates kinds to entity types.                     *)

Modelled(e) == IF live[e] # {} THEN live[e] ELSE extra[e]
KindOf(e) == IF live[e] # {} THEN LiveKind[e] ELSE ExtraKind[e]

Twin(m, S) == m \in DOMAIN Actual /\ Actual[m] \in S
MetricsFor(e) == {m \in Modelled(e) : ~Twin(m, Modelled(e))}

Queried(e) == Modelled(e) # {} /\ covered[KindOf(e)] # {}
Keep(e) == Modelled(e) \cap covered[KindOf(e)]

(* perfsvc.collect with the scope "dashboard": the metrics that objects of  *)
(* an entity type get from what the service returns of it.                  *)
Collected(e, returned) ==
  IF Queried(e) THEN {m \in returned : ~Twin(m, Keep(e))} ELSE {}

(* The setting's description counts what the scope holds of the metrics the *)
(* adapter defines (adapter.get_adapter_definition).                        *)
Announced(e) == IF Modelled(e) = {} THEN {} ELSE covered[KindOf(e)] \cap MetricsFor(e)

(* check_columns_populate.main: columns of a view that no object of the     *)
(* view's entity type has data for.                                         *)
Dead(v, e, returned) == v.cols \ Collected(e, returned)

-----------------------------------------------------------------------------
(* The repository starts with what the scripts make of its tables.         *)

(* What the schema advertises of entity types the live model lacks. *)
Provisional == [e \in Entities |-> IF live[e] # {} THEN {} ELSE Schema[e]]

CommittedLive == live \in Served
CommittedExtra == extra = Provisional
CommittedScope == covered = Scope
CommittedViews ==
  \E t \in Titles \ {Selector}, e \in Entities, cols \in ColumnSets, d \in Dashboards :
    /\ live[e] # {} /\ LiveKind[e] \notin Excluded
    /\ views = [u \in Titles |-> IF u = Selector THEN View(Foreign, cols)
                                 ELSE IF u = t THEN View(LiveKind[e], cols) ELSE NoView]
    /\ guid = [u \in Titles |-> u]
    /\ dashes = [c \in Dashboards |-> IF c = d THEN {t} ELSE {}]

InitContent ==
  /\ CommittedLive /\ CommittedExtra /\ CommittedViews /\ CommittedScope
  /\ outViews = [t \in Titles |-> IF views[t] # NoView THEN Built(t) ELSE NoFile]
  /\ outDashes = [d \in Dashboards |-> IF dashes[d] # {} THEN Refs(dashes[d]) ELSE {}]
  /\ treeViews = outViews /\ treeDashes = outDashes
  /\ fresh = {"views", "dashes", "sync"}
  /\ edits = 0

-----------------------------------------------------------------------------
(* People.                                                                  *)

Edit(v, g, ds) ==
  /\ edits < MaxEdits
  /\ edits' = edits + 1
  /\ views' = v /\ guid' = g /\ dashes' = ds
  /\ tables' # tables
  /\ fresh' = {}
  /\ UNCHANGED <<model, covered, out, tree>>

(* Adding, changing or dropping a view. *)
EditView(t, v) == Edit([views EXCEPT ![t] = v], guid, dashes)

(* A new title, with the old identity pinned or not, in the dashboards too. *)
Renamed(S, t, u) == IF t \in S THEN (S \ {t}) \cup {u} ELSE S
RenameView(t, u, pin) ==
  /\ t # u /\ views[t] # NoView /\ views[u] = NoView
  /\ Edit([views EXCEPT ![t] = NoView, ![u] = views[t]],
          IF pin THEN [guid EXCEPT ![u] = guid[t]] ELSE guid,
          [d \in Dashboards |-> Renamed(dashes[d], t, u)])

EditDash(d, panels) == Edit(views, guid, [dashes EXCEPT ![d] = panels])

(* The output directory is emptied by hand. *)
ClearOut ==
  /\ out # <<[t \in Titles |-> NoFile], [d \in Dashboards |-> {}]>>
  /\ outViews' = [t \in Titles |-> NoFile]
  /\ outDashes' = [d \in Dashboards |-> {}]
  /\ fresh' = {}
  /\ UNCHANGED <<model, covered, tables, tree, edits>>

-----------------------------------------------------------------------------
(* The scripts.                                                             *)

(* model_from_perfsvc.py: entity types without data are left out, those     *)
(* whose query fails too.                                                   *)
Harvest(cluster) ==
  /\ live' = cluster
  /\ live' # live
  /\ UNCHANGED <<extra, covered, tables, out, tree, fresh, edits>>

(* build_model_extra.py: what is advertised and not in the live model. *)
BuildExtra ==
  /\ extra' = Provisional
  /\ UNCHANGED <<live, covered, tables, out, tree, fresh, edits>>

GenScope ==
  /\ covered' = Scope
  /\ UNCHANGED <<model, tables, out, tree, fresh, edits>>

(* build_view.py: one file for each title; files of other titles stay. *)
BuildViews ==
  /\ outViews' = [t \in Titles |-> IF views[t] # NoView THEN Built(t) ELSE outViews[t]]
  /\ fresh' = fresh \cup {"views"}
  /\ UNCHANGED <<model, covered, tables, outDashes, tree, edits>>

(* build_dash.py: in the order of the table, up to a panel whose view is    *)
(* not in VIEWS.                                                            *)
BuildDashes ==
  LET good == {d \in Dashboards : dashes[d] # {} /\ Resolves(dashes[d])}
      all  == \A d \in Dashboards : dashes[d] # {} => d \in good
  IN \E written \in SUBSET good :
       /\ all => written = good
       /\ outDashes' = [d \in Dashboards |-> IF d \in written THEN Refs(dashes[d]) ELSE outDashes[d]]
       /\ fresh' = IF all THEN fresh \cup {"dashes"} ELSE fresh
       /\ UNCHANGED <<model, covered, tables, outViews, tree, edits>>

(* sync_content.py.  Directories without a generated file go first; then    *)
(* the views; then, in the order of the table, the dashboards, up to one    *)
(* that was neither generated nor committed.                                *)
Orphans == FilesIn(treeViews) \ FilesIn(outViews)

(* Mutant: views that are there are not copied over. *)
FetchNew(t) == IF t \in Orphans THEN NoFile
               ELSE IF treeViews[t] # NoFile THEN treeViews[t] ELSE outViews[t]

Fetch(t) == IF t \in Orphans THEN NoFile
            ELSE IF outViews[t] # NoFile THEN outViews[t] ELSE treeViews[t]
Named == {d \in Dashboards : dashes[d] # {}}
Missing == {d \in Named : outDashes[d] = {} /\ treeDashes[d] = {}}
Sync ==
  \E copied \in SUBSET (Named \cap DashesIn(outDashes)) :
    /\ Missing = {} => copied = Named \cap DashesIn(outDashes)
    /\ treeViews' = [t \in Titles |-> Fetch(t)]
    /\ treeDashes' = [d \in Dashboards |-> IF d \in copied THEN outDashes[d] ELSE treeDashes[d]]
    /\ fresh' = IF {"views", "dashes"} \subseteq fresh /\ Missing = {}
                     /\ FilesIn(outViews) # {} /\ Named # {}
                THEN fresh \cup {"sync"} ELSE fresh
    /\ UNCHANGED <<model, covered, tables, out, edits>>

NextContent ==
  \/ \E t \in Titles \ {Selector} :
       \/ EditView(t, NoView)
       \/ \E k \in Kinds \ Excluded, cols \in ColumnSets : EditView(t, View(k, cols))
       \/ \E u \in Titles \ {Selector}, pin \in BOOLEAN : RenameView(t, u, pin)
  \/ \E d \in Dashboards, panels \in SUBSET (Titles \ {Selector}) : EditDash(d, panels)
  \/ ClearOut
  \/ \E cluster \in Served : Harvest(cluster)
  \/ BuildExtra
  \/ GenScope
  \/ BuildViews
  \/ BuildDashes
  \/ Sync

ContentSpec == InitContent /\ [][NextContent]_contentVars

-----------------------------------------------------------------------------
(* Properties.                                                              *)

(* Every part holds what its scripts can write, and a dashboard never ships *)
(* without its selector (build_dash.py:264).                                *)
Files == {NoFile} \cup [guid : Titles, view : [kind : Kinds \cup {Foreign}, cols : SUBSET Metrics]]
ContentTypeOK ==
  /\ live \in [Entities -> SUBSET Metrics] /\ extra \in [Entities -> SUBSET Metrics]
  /\ covered \in [Kinds -> SUBSET Metrics]
  /\ views \in [Titles -> {NoView} \cup [kind : Kinds \cup {Foreign}, cols : SUBSET Metrics]]
  /\ guid \in [Titles -> Titles]
  /\ dashes \in [Dashboards -> SUBSET (Titles \ {Selector})]
  /\ outViews \in [Titles -> Files] /\ treeViews \in [Titles -> Files]
  /\ \A dir \in {outDashes, treeDashes} :
       dir \in [Dashboards -> {{}} \cup {S \in SUBSET Titles : guid[Selector] \in S}]
  /\ fresh \subseteq {"views", "dashes", "sync"}
  /\ edits \in 0..MaxEdits

Synced == "sync" \in fresh

(* After the two builders and the sync, with no edit since, what ships is   *)
(* what the tables say, whatever was generated, removed, refused or half    *)
(* written before (sync_content.py:3-11).                                   *)
SyncedIsCurrent ==
  Synced => /\ \A t \in TitlesOf(views) : treeViews[t] = Built(t)
            /\ \A d \in Named : treeDashes[d] = Refs(dashes[d])

(* What the sync leaves of dropped or renamed views gets past verify_pak    *)
(* only if it has the identity of a view that ships, or a dashboard that    *)
(* was dropped still shows it (sync_content.py:33-36, verify_pak.py:176).   *)
LeftoversAreTwins ==
  Synced /\ Verified =>
    \A t \in FilesIn(treeViews) \ TitlesOf(views) :
      \/ \E u \in TitlesOf(views) : treeViews[u].guid = treeViews[t].guid
      \/ \E d \in Dashboards \ Named : treeViews[t].guid \in treeDashes[d]

(* When the scope is what the tests generate (test_perfsvc.py:541) and no   *)
(* entity type is in both models, a column of a shipped view is dead only   *)
(* if its metric is not defined, does not come back, or is of a kind that   *)
(* is excluded (check_columns_populate.py:9-15).                            *)
ColumnsCollected ==
  /\ Synced /\ covered = Scope
  /\ \A e \in Entities : live[e] = {} \/ extra[e] = {}
  => \A t \in TitlesOf(views), e \in Entities :
       views[t].kind = KindOf(e) /\ views[t].kind \notin Excluded =>
         \A returned \in SUBSET Metrics :
           Dead(views[t], e, returned) \cap MetricsFor(e) \cap returned = {}

(* With the default scope the adapter collects the metrics that shipped     *)
(* views render, and no other: "dashboard (default) collects the N metrics  *)
(* that the shipped views and dashboards render" (adapter.py:134).          *)
OnlyScopedCollected ==
  \A cluster \in Served, e \in Entities :
    live = cluster => Collected(e, cluster[e]) \subseteq Announced(e)
=============================================================================
