------------------------------ MODULE MCReferences ------------------------------
(* What refers to what, and whether it is what was meant: this pack's        *)
(* objects to vCenter's (ParentMap), Operations' hosts to their machines     *)
(* (Alarm), a verdict to its causes (Diagnosis), dashboards to kinds and     *)
(* objects (Placeholders), and builds to the dashboards that were imported   *)
(* (DashLayout).  They share no state: a behaviour follows one of them and   *)
(* the others rest.                                                          *)
EXTENDS ParentMap, TLC

CONSTANTS
  k1, h1, h2, v1, v2, d1, x1, ax, ay, a,                        \* ParentMap
  tmpl, VMs, Templates, Nowhere, Absent, MaxStrays, MaxChecks,  \* Alarm
  c1, c2, DiagnosedClusters, MaxChanges, MaxRuns, MaxKills,     \* Diagnosis
  kindA, kindB, metricA, metricB, pinned, Kinds, Metrics, HostSystem, Objects,
  Numbered, AllShapes, MaxWidgets, MaxDocs,                     \* Placeholders
  MaxPanels, MaxEdits, MaxRebuilds                              \* DashLayout

VARIABLES
  followed,
  dwelling, alarmPc, vms, hosts, claimed, unknown, orphans, alarmVerdict, lost, strayed,
  departed, moves, checks,
  about, shown, walked, config, node, alike, diagnosisPc, clusters, unread, some, fail,
  diagnosis, session, changed, changes, runs, kills,
  kinds, objects, widgets, open, docs, ended,
  table, dist, instance, refused, edits, builds

alarmVars == <<dwelling, alarmPc, vms, hosts, claimed, unknown, orphans, alarmVerdict,
               lost, strayed, departed, moves, checks>>
diagnosisVars == <<about, shown, walked, config, node, alike, diagnosisPc, clusters, unread,
                   some, fail, diagnosis, session, changed, changes, runs, kills>>
docVars == <<kinds, objects, widgets, open, docs, ended>>
layoutVars == <<table, dist, instance, refused, edits, builds>>

-----------------------------------------------------------------------------
(* Two host names share their short form; both hosts are in one of the two *)
(* clusters that are diagnosed.                                            *)
ShortNames == [n \in HostNames |-> a]
Home == [h \in Hosts |-> c1]

Relatives == INSTANCE Alarm WITH
  place <- dwelling, pc <- alarmPc, verdict <- alarmVerdict, moved <- departed,
  MaxMoves <- MaxStrays
Diagnosed == INSTANCE Diagnosis WITH
  pc <- diagnosisPc, verdict <- diagnosis, left <- unread, open <- session,
  Clusters <- DiagnosedClusters, HomeOf <- Home

(* Each of two kinds has one metric of its own and lacks the other's.  Two   *)
(* dashboards of the shapes that ask for their numbers, or one of any        *)
(* shapes.                                                                   *)
OwnMetrics == {<<kindA, metricA>>, <<kindB, metricB>>}
Registered == INSTANCE Placeholders WITH Known <- OwnMetrics, Shapes <- Numbered
Shaped == INSTANCE Placeholders WITH Known <- OwnMetrics, Shapes <- AllShapes, MaxDocs <- 1

(* Every box of a grid of five columns that is up to two rows high and       *)
(* begins in the first three, laid out once; or two boxes that fit together, *)
(* in two dashboards that are edited, renamed and built again.               *)
AllBoxes == {b \in [x : 1..5, y : 1..3, w : {1, 2, 3}, h : {1, 2}] : b.x + b.w - 1 <= 5}
TwoBoxes == {[x |-> 3, y |-> 1, w |-> 2, h |-> 1], [x |-> 1, y |-> 2, w |-> 4, h |-> 1]}
Grid == INSTANCE DashLayout WITH
  Slots <- {1}, Names <- {"a"}, Titles <- {"p"}, Columns <- 5, Boxes <- AllBoxes,
  MaxEdits <- 0, MaxBuilds <- 1
Renames == INSTANCE DashLayout WITH
  Slots <- {1, 2}, Names <- {"a", "b", "c"}, Titles <- {"p", "q"}, Columns <- 4,
  Boxes <- TwoBoxes, MaxPanels <- 1, MaxBuilds <- MaxRebuilds

Symmetry == Permutations(Hosts) \cup Permutations(Vms) \cup Permutations({ax, ay})

-----------------------------------------------------------------------------
(* A walk that has not begun, checks that were not made, nothing built.      *)
WalkRests ==
  /\ place = [m \in Hosts \cup Vms \cup Disks \cup Vdisks |-> None]
  /\ vcName = [h \in Hosts |-> a] /\ vsanName = [h \in Hosts |-> a] /\ opaque = {}
  /\ vcid = FALSE /\ pc = "start" /\ left = {} /\ cluster = None /\ todo = {}
  /\ byName = NoAlias /\ out = NoMap /\ named = {} /\ cache = {} /\ linked = {}
  /\ blamed = {} /\ moved = {} /\ faults = 0
AlarmRests == dwelling = [v \in VMs |-> Absent] /\ Relatives!Idle
DiagnosisRests ==
  /\ about = TRUE /\ shown = {} /\ walked = {} /\ config = {} /\ node = {} /\ alike = {}
  /\ Diagnosed!Idle
LayoutRests ==
  /\ table = <<>> /\ dist = [n \in {"a", "b", "c"} |-> <<>>] /\ instance = {}
  /\ refused = <<>> /\ edits = 0 /\ builds = 0

ReferencesInit ==
  /\ followed \in {"walk", "alarm", "diagnosis", "numbers", "shapes", "grid", "renames"}
  /\ IF followed = "walk" THEN Init ELSE WalkRests
  /\ IF followed = "alarm" THEN Relatives!Init ELSE AlarmRests
  /\ IF followed = "diagnosis" THEN Diagnosed!Init ELSE DiagnosisRests
  /\ Registered!Init
  /\ CASE followed = "grid" -> Grid!Init
       [] followed = "renames" -> Renames!Init
       [] OTHER -> LayoutRests

ReferencesNext ==
  /\ UNCHANGED followed
  /\ IF followed = "walk" THEN Next ELSE UNCHANGED vars
  /\ IF followed = "alarm" THEN Relatives!Next ELSE UNCHANGED alarmVars
  /\ IF followed = "diagnosis" THEN Diagnosed!Next ELSE UNCHANGED diagnosisVars
  /\ CASE followed = "numbers" -> Registered!Next
       [] followed = "shapes" -> Shaped!Next
       [] OTHER -> UNCHANGED docVars
  /\ CASE followed = "grid" -> Grid!Next
       [] followed = "renames" -> Renames!Next
       [] OTHER -> UNCHANGED layoutVars

referencesVars == <<followed, vars, alarmVars, diagnosisVars, docVars, layoutVars>>
ReferencesSpec == ReferencesInit /\ [][ReferencesNext]_referencesVars

-----------------------------------------------------------------------------
(* The alarm names every machine that has no host from the list to the end,  *)
(* and nothing that had one and stayed (watch_relationships.py:81-101).      *)
AlarmIsTrue == Relatives!AlarmIsTrue



(* A layout is written if its boxes are apart and refused if they are not   *)
(* (build_dash.py:388-413).                                                 *)
LayoutIsRight == Grid!LayoutIsRight

(* Operations never has two dashboards of a name, or with one widget         *)
(* (build_dash.py:171-189).                                                  *)
OneOfAName == Renames!OneOfAName
=============================================================================
