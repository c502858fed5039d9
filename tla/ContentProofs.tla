---------------------------- MODULE ContentProofs ----------------------------
(* Theorems about Content, for every value of its constants. *)
EXTENDS Content, TLAPS

ViewType == {NoView} \cup [kind : Kinds \cup {Foreign}, cols : SUBSET Metrics]
DashTypeOK(dir) ==
  dir \in [Dashboards -> {{}} \cup {S \in SUBSET Titles : guid[Selector] \in S}]

-----------------------------------------------------------------------------
(* What the scripts make of well-formed tables is well-formed. *)
LEMMA BuiltType ==
  ASSUME ContentTypeOK, NEW t \in Titles, views[t] # NoView
  PROVE  Built(t) \in Files
  BY DEF ContentTypeOK, Built, Files

LEMMA BuiltIsFile ==
  ASSUME NEW t, views[t] # NoView
  PROVE  Built(t) # NoFile
  BY DEF Built, NoFile

LEMMA RefsType ==
  ASSUME ContentTypeOK, NEW S \in SUBSET Titles
  PROVE  Refs(S) \in SUBSET Titles /\ guid[Selector] \in Refs(S) /\ Refs(S) # {}
  BY ContentOK DEF ContentTypeOK, Refs

LEMMA GeneratedType ==
  ASSUME live \in [Entities -> SUBSET Metrics], extra \in [Entities -> SUBSET Metrics]
  PROVE  Scope \in [Kinds -> SUBSET Metrics]
<1>1. Generated \in [Kinds -> SUBSET Metrics]
  BY DEF Generated
<1>2. \A k \in Kinds : Generated[k] \subseteq Metrics
  BY <1>1
<1>3. QED BY <1>2 DEF Scope

LEMMA ProvisionalType == Provisional \in [Entities -> SUBSET Metrics]
  BY ContentOK DEF Provisional

LEMMA TypeInit == InitContent => ContentTypeOK
<1> SUFFICES ASSUME InitContent PROVE ContentTypeOK
  OBVIOUS
<1>1. live \in [Entities -> SUBSET Metrics] /\ extra \in [Entities -> SUBSET Metrics]
  BY ProvisionalType, ContentOK DEF InitContent, CommittedLive, CommittedExtra
<1>2. covered \in [Kinds -> SUBSET Metrics]
  BY <1>1, GeneratedType DEF InitContent, CommittedScope
<1>3. PICK t \in Titles \ {Selector}, e \in Entities, cols \in ColumnSets, d \in Dashboards :
        /\ views = [u \in Titles |-> IF u = Selector THEN View(Foreign, cols)
                                     ELSE IF u = t THEN View(LiveKind[e], cols) ELSE NoView]
        /\ guid = [u \in Titles |-> u]
        /\ dashes = [c \in Dashboards |-> IF c = d THEN {t} ELSE {}]
  BY SMTT(30) DEF InitContent, CommittedViews
<1>4. views \in [Titles -> ViewType]
  BY <1>3, ContentOK DEF View, ViewType, Kinds
<1>5. guid \in [Titles -> Titles] /\ dashes \in [Dashboards -> SUBSET (Titles \ {Selector})]
  BY <1>3
<1>6. outViews \in [Titles -> Files]
  BY <1>4, <1>5 DEF InitContent, Built, Files, ViewType
<1>7. DashTypeOK(outDashes)
  BY <1>5, ContentOK DEF InitContent, DashTypeOK, Refs
<1>8. treeViews = outViews /\ treeDashes = outDashes /\ fresh = {"views", "dashes", "sync"}
      /\ edits \in 0..MaxEdits
  BY ContentOK DEF InitContent
<1>9. QED BY <1>1, <1>2, <1>4, <1>5, <1>6, <1>7, <1>8 DEF ContentTypeOK, ViewType, DashTypeOK

LEMMA EditType ==
  ASSUME ContentTypeOK, NEW v \in [Titles -> ViewType], NEW g \in [Titles -> Titles],
         g[Selector] = guid[Selector], NEW ds \in [Dashboards -> SUBSET (Titles \ {Selector})],
         Edit(v, g, ds)
  PROVE  ContentTypeOK'
  BY ContentOK DEF Edit, ContentTypeOK, ViewType, model, out, tree

LEMMA TypeStep == ContentTypeOK /\ [NextContent]_contentVars => ContentTypeOK'
<1> SUFFICES ASSUME ContentTypeOK, [NextContent]_contentVars PROVE ContentTypeOK'
  OBVIOUS
<1> USE DEF model, tables, out, tree
<1>0. /\ views \in [Titles -> ViewType] /\ guid \in [Titles -> Titles]
      /\ dashes \in [Dashboards -> SUBSET (Titles \ {Selector})]
      /\ outViews \in [Titles -> Files] /\ treeViews \in [Titles -> Files]
      /\ DashTypeOK(outDashes) /\ DashTypeOK(treeDashes)
  BY DEF ContentTypeOK, ViewType, DashTypeOK
<1>1. ASSUME NEW t \in Titles \ {Selector}, EditView(t, NoView) PROVE ContentTypeOK'
  BY <1>0, <1>1, EditType DEF EditView, ViewType
<1>2. ASSUME NEW t \in Titles \ {Selector}, NEW k \in Kinds \ Excluded, NEW cols \in ColumnSets,
             EditView(t, View(k, cols))
      PROVE  ContentTypeOK'
  <2>1. View(k, cols) \in ViewType
    BY ContentOK DEF View, ViewType
  <2>2. QED BY <1>0, <1>2, <2>1, EditType DEF EditView
<1>3. ASSUME NEW t \in Titles \ {Selector}, NEW u \in Titles \ {Selector}, NEW pin \in BOOLEAN,
             RenameView(t, u, pin)
      PROVE  ContentTypeOK'
  <2> DEFINE v == [views EXCEPT ![t] = NoView, ![u] = views[t]]
             g == IF pin THEN [guid EXCEPT ![u] = guid[t]] ELSE guid
             ds == [d \in Dashboards |-> Renamed(dashes[d], t, u)]
  <2>1. v \in [Titles -> ViewType]
    BY <1>0 DEF ViewType
  <2>2. g \in [Titles -> Titles] /\ g[Selector] = guid[Selector]
    BY <1>0
  <2>3. ds \in [Dashboards -> SUBSET (Titles \ {Selector})]
    BY <1>0 DEF Renamed
  <2>4. Edit(v, g, ds)
    BY <1>3 DEF RenameView
  <2> HIDE DEF v, g, ds
  <2>5. QED BY <2>1, <2>2, <2>3, <2>4, EditType
<1>4. ASSUME NEW d \in Dashboards, NEW panels \in SUBSET (Titles \ {Selector}), EditDash(d, panels)
      PROVE  ContentTypeOK'
  BY <1>0, <1>4, EditType DEF EditDash
<1>5. CASE ClearOut
  BY <1>5 DEF ClearOut, ContentTypeOK, Files
<1>6. ASSUME NEW cluster \in Served, Harvest(cluster) PROVE ContentTypeOK'
  BY <1>6, ContentOK DEF Harvest, ContentTypeOK
<1>7. CASE BuildExtra
  BY <1>7, ProvisionalType DEF BuildExtra, ContentTypeOK
<1>8. CASE GenScope
  BY <1>8, GeneratedType DEF GenScope, ContentTypeOK
<1>9. CASE BuildViews
  <2>1. outViews' \in [Titles -> Files]
    BY <1>0, <1>9, BuiltType DEF BuildViews
  <2>2. QED BY <1>9, <2>1 DEF BuildViews, ContentTypeOK
<1>10. CASE BuildDashes
  <2>1. PICK written \in SUBSET Dashboards :
          outDashes' = [d \in Dashboards |-> IF d \in written THEN Refs(dashes[d]) ELSE outDashes[d]]
    BY <1>10 DEF BuildDashes
  <2>2. \A d \in Dashboards : dashes[d] \in SUBSET Titles
    BY <1>0
  <2>3. /\ UNCHANGED <<live, extra, covered, views, guid, dashes, outViews, treeViews, treeDashes, edits>>
        /\ fresh' \subseteq {"views", "dashes", "sync"}
    BY <1>10 DEF BuildDashes, ContentTypeOK
  <2>4. DashTypeOK(outDashes)' /\ DashTypeOK(treeDashes)'
    BY <1>0, <2>1, <2>2, <2>3, RefsType DEF DashTypeOK
  <2>5. QED BY <2>3, <2>4 DEF ContentTypeOK, DashTypeOK
<1>11. CASE Sync
  <2>1. /\ UNCHANGED <<live, extra, covered, views, guid, dashes, outViews, outDashes, edits>>
        /\ fresh' \subseteq {"views", "dashes", "sync"}
        /\ treeViews' = [t \in Titles |-> Fetch(t)]
    BY <1>11 DEF Sync, ContentTypeOK
  <2>2. PICK copied \in SUBSET Dashboards :
          treeDashes' = [d \in Dashboards |-> IF d \in copied THEN outDashes[d] ELSE treeDashes[d]]
    BY <1>11 DEF Sync, DashesIn
  <2>3. treeViews' \in [Titles -> Files]
    BY <1>0, <2>1 DEF Fetch, Files
  <2>4. DashTypeOK(outDashes)' /\ DashTypeOK(treeDashes)'
    BY <1>0, <2>1, <2>2 DEF DashTypeOK
  <2>5. QED BY <2>1, <2>3, <2>4 DEF ContentTypeOK, DashTypeOK
<1>12. CASE UNCHANGED contentVars
  BY <1>12 DEF contentVars, ContentTypeOK
<1>13. QED
  BY <1>1, <1>2, <1>3, <1>4, <1>5, <1>6, <1>7, <1>8, <1>9, <1>10, <1>11, <1>12 DEF NextContent

(* Whatever people edit and in whatever order the scripts run, every part  *)
(* holds what its scripts write, and no dashboard lacks its selector.      *)
THEOREM TypeCorrect == ContentSpec => []ContentTypeOK
  BY TypeInit, TypeStep, PTL DEF ContentSpec

-----------------------------------------------------------------------------
(* What each step that succeeded since the last edit has left behind.  The *)
(* dashboards that were built show views that are in the table.            *)
ViewsCurrent == \A t \in TitlesOf(views) : outViews[t] = Built(t)
DashesCurrent == \A d \in Named : outDashes[d] = Refs(dashes[d]) /\ Resolves(dashes[d])
TreeCurrent == /\ \A t \in TitlesOf(views) : treeViews[t] = Built(t)
               /\ \A d \in Named : treeDashes[d] = Refs(dashes[d])

FreshInv ==
  /\ "views" \in fresh => ViewsCurrent
  /\ "dashes" \in fresh => DashesCurrent
  /\ "sync" \in fresh => {"views", "dashes"} \subseteq fresh /\ TreeCurrent

LEMMA FreshInit == InitContent => FreshInv
<1> SUFFICES ASSUME InitContent PROVE FreshInv
  OBVIOUS
<1>1. PICK t \in Titles \ {Selector}, e \in Entities, cols \in ColumnSets, d \in Dashboards :
        /\ views = [u \in Titles |-> IF u = Selector THEN View(Foreign, cols)
                                     ELSE IF u = t THEN View(LiveKind[e], cols) ELSE NoView]
        /\ dashes = [c \in Dashboards |-> IF c = d THEN {t} ELSE {}]
  BY SMTT(30) DEF InitContent, CommittedViews
<1>2. cols # {}
  BY ContentOK
<1>3. views[t] # NoView /\ views[Selector] # NoView
  BY <1>1, <1>2, ContentOK DEF View, NoView
<1>4. \A c \in Named : Resolves(dashes[c])
  BY <1>1, <1>3, ContentOK DEF Named, Resolves, TitlesOf
<1>5. ViewsCurrent
  BY DEF InitContent, ViewsCurrent, TitlesOf
<1>6. DashesCurrent
  BY <1>4 DEF InitContent, DashesCurrent, Named
<1>7. TreeCurrent
  BY <1>5, <1>6 DEF InitContent, TreeCurrent, ViewsCurrent, DashesCurrent
<1>8. QED BY <1>5, <1>6, <1>7 DEF InitContent, FreshInv

(* With both directories current, the sync copies everything the tables     *)
(* name.                                                                   *)
LEMMA SyncCopies ==
  ASSUME ContentTypeOK, ViewsCurrent, DashesCurrent, Sync
  PROVE  TreeCurrent'
<1>1. UNCHANGED <<views, guid, dashes, outViews, outDashes>>
  BY DEF Sync, tables, out
<1>2. ASSUME NEW t \in TitlesOf(views) PROVE treeViews'[t] = Built(t)
  <2>1. t \in Titles /\ outViews[t] = Built(t) /\ Built(t) # NoFile
    BY BuiltIsFile DEF ViewsCurrent, TitlesOf
  <2>2. Fetch(t) = outViews[t]
    BY <2>1 DEF Fetch, Orphans, FilesIn
  <2>3. QED BY <2>1, <2>2 DEF Sync
<1>3. \A d \in Named : outDashes[d] = Refs(dashes[d]) /\ outDashes[d] # {}
  BY RefsType DEF DashesCurrent, ContentTypeOK, Named
<1>4. Missing = {} /\ Named \subseteq DashesIn(outDashes)
  BY <1>3 DEF Missing, DashesIn, Named
<1>5. \A d \in Named : treeDashes'[d] = outDashes[d]
  BY <1>4 DEF Sync, Named
<1>6. TitlesOf(views') = TitlesOf(views) /\ Named' = Named
      /\ \A t : Built(t)' = Built(t)
      /\ \A S : Refs(S)' = Refs(S)
  BY <1>1 DEF TitlesOf, Named, Built, Refs
<1>7. QED BY <1>1, <1>2, <1>3, <1>5, <1>6 DEF TreeCurrent

LEMMA FreshStep == ContentTypeOK /\ FreshInv /\ [NextContent]_contentVars => FreshInv'
<1> SUFFICES ASSUME ContentTypeOK, FreshInv, [NextContent]_contentVars PROVE FreshInv'
  OBVIOUS
<1> USE DEF model, tables, out, tree
<1>1. ASSUME fresh' = {} PROVE FreshInv'
  BY <1>1 DEF FreshInv
<1>2. CASE \/ \E t \in Titles \ {Selector} :
                \/ EditView(t, NoView)
                \/ \E k \in Kinds \ Excluded, cols \in ColumnSets : EditView(t, View(k, cols))
                \/ \E u \in Titles \ {Selector}, pin \in BOOLEAN : RenameView(t, u, pin)
           \/ \E d \in Dashboards, panels \in SUBSET (Titles \ {Selector}) : EditDash(d, panels)
           \/ ClearOut
  BY <1>1, <1>2 DEF EditView, RenameView, EditDash, Edit, ClearOut
<1>3. ASSUME UNCHANGED <<tables, out, tree, fresh>> PROVE FreshInv'
  BY <1>3 DEF FreshInv, ViewsCurrent, DashesCurrent, TreeCurrent, TitlesOf, Named, Built,
              Refs, Resolves
<1>4. CASE (\E cluster \in Served : Harvest(cluster)) \/ BuildExtra \/ GenScope
  BY <1>3, <1>4 DEF Harvest, BuildExtra, GenScope
<1>5. ASSUME UNCHANGED <<views, guid, dashes>>
      PROVE  /\ TitlesOf(views') = TitlesOf(views) /\ Named' = Named
             /\ \A t : Built(t)' = Built(t)
             /\ \A S : Refs(S)' = Refs(S) /\ Resolves(S)' = Resolves(S)
  BY <1>5 DEF TitlesOf, Named, Built, Refs, Resolves
<1>6. CASE BuildViews
  <2>1. UNCHANGED <<views, guid, dashes, outDashes, treeViews, treeDashes>>
        /\ fresh' = fresh \cup {"views"}
    BY <1>6 DEF BuildViews
  <2>2. ViewsCurrent'
    BY <1>5, <1>6, <2>1 DEF BuildViews, ViewsCurrent, TitlesOf
  <2>3. DashesCurrent => DashesCurrent'
    BY <1>5, <2>1 DEF DashesCurrent
  <2>4. TreeCurrent => TreeCurrent'
    BY <1>5, <2>1 DEF TreeCurrent
  <2>5. QED BY <2>1, <2>2, <2>3, <2>4 DEF FreshInv
<1>7. CASE BuildDashes
  <2> DEFINE good == {d \in Dashboards : dashes[d] # {} /\ Resolves(dashes[d])}
             all  == \A d \in Dashboards : dashes[d] # {} => d \in good
  <2>1. PICK written \in SUBSET good :
          /\ all => written = good
          /\ outDashes' = [d \in Dashboards |-> IF d \in written THEN Refs(dashes[d]) ELSE outDashes[d]]
          /\ fresh' = IF all THEN fresh \cup {"dashes"} ELSE fresh
          /\ UNCHANGED <<model, covered, tables, outViews, tree, edits>>
    BY <1>7 DEF BuildDashes
  <2>2. UNCHANGED <<views, guid, dashes, outViews, treeViews, treeDashes>>
    BY <2>1
  <2>3. ViewsCurrent => ViewsCurrent'
    BY <1>5, <2>2 DEF ViewsCurrent
  <2>4. TreeCurrent => TreeCurrent'
    BY <1>5, <2>2 DEF TreeCurrent
  <2>5. CASE all
    <3>1. \A d \in Named : d \in written /\ Resolves(dashes[d])
      BY <2>1, <2>5 DEF Named
    <3>2. DashesCurrent'
      BY <1>5, <2>1, <2>2, <3>1 DEF DashesCurrent, Named
    <3>3. QED BY <2>1, <2>3, <2>4, <2>5, <3>2 DEF FreshInv
  <2>6. CASE ~all
    <3>1. DashesCurrent => DashesCurrent'
      BY <1>5, <2>1, <2>2 DEF DashesCurrent, Named
    <3>2. fresh' = fresh
      BY <2>1, <2>6
    <3>3. QED BY <2>3, <2>4, <3>1, <3>2 DEF FreshInv
  <2>7. QED BY <2>5, <2>6
<1>8. CASE Sync
  <2>1. /\ UNCHANGED <<views, guid, dashes, outViews, outDashes>>
        /\ fresh' \in {fresh, fresh \cup {"sync"}}
        /\ fresh' # fresh => {"views", "dashes"} \subseteq fresh
    BY <1>8 DEF Sync
  <2>2. ViewsCurrent => ViewsCurrent'
    BY <1>5, <2>1 DEF ViewsCurrent
  <2>3. DashesCurrent => DashesCurrent'
    BY <1>5, <2>1 DEF DashesCurrent
  <2>4. {"views", "dashes"} \subseteq fresh => TreeCurrent'
    BY <1>8, SyncCopies DEF FreshInv
  <2>5. QED BY <2>1, <2>2, <2>3, <2>4 DEF FreshInv
<1>9. CASE UNCHANGED contentVars
  BY <1>3, <1>9 DEF contentVars
<1>10. QED BY <1>2, <1>4, <1>6, <1>7, <1>8, <1>9 DEF NextContent

LEMMA FreshInvariant == ContentSpec => []FreshInv
  BY TypeInit, TypeStep, FreshInit, FreshStep, PTL DEF ContentSpec

(* sync_content.py: after the builders and the sync, what ships is what    *)
(* the tables say, whatever was there before.                              *)
THEOREM SyncIsCurrent == ContentSpec => []SyncedIsCurrent
<1>1. FreshInv => SyncedIsCurrent
  BY DEF FreshInv, TreeCurrent, SyncedIsCurrent, Synced
<1>2. QED BY <1>1, FreshInvariant, PTL

(* verify_pak.py: a leftover passes only if it is taken for a view that     *)
(* ships or is shown by a leftover dashboard.                              *)
THEOREM LeftoversPassAsTwins == ContentSpec => []LeftoversAreTwins
<1>1. FreshInv => LeftoversAreTwins
  <2> SUFFICES ASSUME FreshInv, Synced, Verified,
                      NEW t \in FilesIn(treeViews) \ TitlesOf(views)
               PROVE  \/ \E u \in TitlesOf(views) : treeViews[u].guid = treeViews[t].guid
                      \/ \E d \in Dashboards \ Named : treeViews[t].guid \in treeDashes[d]
    BY DEF LeftoversAreTwins
  <2>1. TreeCurrent /\ DashesCurrent
    BY DEF FreshInv, Synced
  <2>2. PICK d \in Dashboards : treeViews[t].guid \in treeDashes[d]
    BY DEF Verified, Defined, Referenced
  <2>3. CASE d \in Named
    <3>1. PICK u \in dashes[d] \cup {Selector} : treeViews[t].guid = guid[u]
      BY <2>1, <2>2, <2>3 DEF TreeCurrent, Refs
    <3>2. u \in TitlesOf(views)
      BY <2>1, <2>3 DEF DashesCurrent, Resolves
    <3>3. treeViews[u] = Built(u)
      BY <2>1, <3>2 DEF TreeCurrent
    <3>4. treeViews[u].guid = guid[u]
      BY <3>3 DEF Built
    <3>5. QED BY <3>1, <3>2, <3>4
  <2>4. CASE d \notin Named
    BY <2>2, <2>4
  <2>5. QED BY <2>3, <2>4
<1>2. QED BY <1>1, FreshInvariant, PTL

(* gen_metric_scope.py and perfsvc.collect agree: with a scope that is up  *)
(* to date, a metric that a shipped view shows and the service returns is  *)
(* collected, or is not defined, or is of an excluded kind.                *)
THEOREM ColumnsAreCollected == ContentSpec => []ColumnsCollected
<1>1. ColumnsCollected
  <2> SUFFICES ASSUME covered = Scope, \A e \in Entities : live[e] = {} \/ extra[e] = {},
                      NEW t \in TitlesOf(views), NEW e \in Entities,
                      views[t].kind = KindOf(e), views[t].kind \notin Excluded,
                      NEW returned \in SUBSET Metrics,
                      NEW m \in Dead(views[t], e, returned) \cap MetricsFor(e) \cap returned
               PROVE  FALSE
    BY DEF ColumnsCollected
  <2>1. /\ m \in views[t].cols /\ m \notin Collected(e, returned) /\ m \in returned
        /\ m \in Modelled(e) /\ ~Twin(m, Modelled(e))
    BY DEF Dead, MetricsFor
  <2>2. KindOf(e) \in Kinds
    BY DEF KindOf, Kinds
  <2>3. m \in Used(KindOf(e))
    BY <2>1 DEF Used, TitlesOf
  <2>4. m \in Generated[KindOf(e)]
    BY <2>1, <2>2 DEF Generated, Modelled, KindOf
  <2>5. m \in covered[KindOf(e)]
    BY <2>2, <2>3, <2>4 DEF Scope
  <2>6. ~Twin(m, Keep(e))
    BY <2>1 DEF Keep, Twin
  <2>7. QED BY <2>1, <2>5, <2>6 DEF Collected, Queried
<1>2. QED BY <1>1, PTL
=============================================================================
