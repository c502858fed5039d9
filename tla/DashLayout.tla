-------------------------------- MODULE DashLayout --------------------------------
(***************************************************************************)
(* build_dash.py lays the selector, the panels and the help of a dashboard  *)
(* out, refuses a layout in which two of them overlap, and gives it and its *)
(* widgets identities made of names, so that importing it again updates     *)
(* what is there.  The table of dashboards is edited, built and imported,   *)
(* and dist is never emptied.  What a panel shows is left out.              *)
(***************************************************************************)
EXTENDS Naturals, Sequences, FiniteSets, FiniteSetsExt, SequencesExt

CONSTANTS
  Slots,      \* dashboards in the table: 1..n
  Names, Titles,
  Columns,    \* of the grid
  Boxes,      \* boxes of panels: records of x, y, w and h
  MaxPanels,  \* bound: panels of a dashboard
  MaxEdits,   \* bound: edits of the table
  MaxBuilds   \* bound: builds

VARIABLES
  table,     \* DASHBOARDS: slot -> a name and panels, a title and a box each
  dist,      \* the files: name -> a dashboard, none: <<>>
  instance,  \* dashboards of Operations
  refused,   \* history: the layout that ended the last build, none: <<>>
  edits, builds

layoutVars == <<table, dist, instance, refused, edits, builds>>

Panels == UNION {[1..n -> [title : Titles, box : Boxes]] : n \in 1..MaxPanels}
Rows == [name : Names, panels : Panels]

Init ==
  /\ table \in [Slots -> Rows]
  /\ \A s, t \in Slots : table[s].name = table[t].name => s = t
  /\ dist = [n \in Names |-> <<>>] /\ instance = {} /\ refused = <<>>
  /\ edits = 0 /\ builds = 0

-----------------------------------------------------------------------------
Edit(s, row) ==
  /\ edits < MaxEdits /\ row # table[s]
  /\ \A t \in Slots \ {s} : table[t].name # row.name
  /\ table' = [table EXCEPT ![s] = row] /\ edits' = edits + 1
  /\ UNCHANGED <<dist, instance, refused, builds>>

-----------------------------------------------------------------------------
(* Mutant: every build gives identities of its own. *)
FreshId(name, part) == <<name, part, builds>>
StableId(name, part) == <<name, part>>

SelectorHeight(panels) == panels[1].box.h

Selector(panels) == [x |-> 1, y |-> 1, w |-> 2, h |-> SelectorHeight(panels)]

Help(panels) ==
  [x |-> 1, w |-> Columns, h |-> 1,
   y |-> Max({p.box.y + p.box.h : p \in Range(panels)})]

(* The boxes of a dashboard: selector, panels, help. *)
Layout(panels) ==
  <<Selector(panels)>> \o [i \in DOMAIN panels |-> panels[i].box] \o <<Help(panels)>>

(* Mutant: two boxes that share one row or column only are let through. *)
ByTwo(p, w, q) == p < q + w - 1
Reaches(p, w, q) == p <= q + w - 1

Overlap(a, b) ==
  /\ Reaches(a.x, b.w, b.x) /\ Reaches(b.x, a.w, a.x)
  /\ Reaches(a.y, b.h, b.y) /\ Reaches(b.y, a.h, a.y)

Clashes(boxes) == \E i, j \in DOMAIN boxes : i < j /\ Overlap(boxes[i], boxes[j])

Document(row) ==
  [id |-> StableId(row.name, "tab"), name |-> row.name, layout |-> Layout(row.panels),
   widgets |-> {StableId(row.name, t) :
                  t \in {"Select cluster", "How to read this"} \cup {p.title : p \in Range(row.panels)}}]

(* The dashboards are written in the order of the table; an overlap ends    *)
(* the build, and the files of the dashboards behind it stay as they were.  *)
Build ==
  /\ builds < MaxBuilds /\ builds' = builds + 1
  /\ LET bad == {s \in Slots : Clashes(Layout(table[s].panels))}
         good == {s \in Slots : \A b \in bad : s < b}
     IN /\ dist' = [n \in Names |->
                      IF \E s \in good : table[s].name = n
                      THEN <<Document(table[CHOOSE s \in good : table[s].name = n])>>
                      ELSE dist[n]]
        /\ refused' = IF bad = {} THEN <<>> ELSE table[Min(bad)].panels
  /\ UNCHANGED <<table, instance, edits>>

Files == {dist[n][1] : n \in {m \in Names : dist[m] # <<>>}}

(* Operations replaces a dashboard that has the identity of an imported one. *)
Import ==
  /\ Files # {}
  /\ instance' = Files \cup {d \in instance : \A f \in Files : f.id # d.id}
  /\ UNCHANGED <<table, dist, refused, edits, builds>>

Next ==
  \/ \E s \in Slots, row \in Rows : Edit(s, row)
  \/ Build \/ Import

Spec == Init /\ [][Next]_layoutVars

-----------------------------------------------------------------------------
Cells(b) == (b.x..(b.x + b.w - 1)) \X (b.y..(b.y + b.h - 1))

Apart(boxes) == \A i, j \in DOMAIN boxes : i # j => Cells(boxes[i]) \cap Cells(boxes[j]) = {}

(* No cell of the grid belongs to two widgets of a dashboard that was       *)
(* built, selector and help included, which no table places: Operations     *)
(* would move one of them away (build_dash.py:287-295, 388-413).            *)
WrittenIsApart == \A d \in Files : Apart(d.layout)

(* A layout that ends a build has a reason to: the panels of the table      *)
(* overlap one another, or they are not laid out as the table is meant to   *)
(* be, the first beside the selector and the others below it, which always  *)
(* fits because the selector is as high as the first panel                  *)
(* (build_dash.py:287-295, 404-413).                                        *)
RefusedForCause ==
  refused # <<>> =>
    \/ ~Apart([i \in DOMAIN refused |-> refused[i].box])
    \/ refused[1].box.x <= 2
    \/ \E i \in DOMAIN refused \ {1} : refused[i].box.y <= refused[1].box.h

(* A layout is written if its boxes are apart and refused if they are not   *)
(* (build_dash.py:388-413).                                                 *)
LayoutIsRight == WrittenIsApart /\ RefusedForCause

(* Operations has one dashboard of a name, and of the files it imported     *)
(* last, their widgets with the identities they had before: a new build     *)
(* updates a dashboard instead of adding a second (build_dash.py:171-189).  *)
OneOfAName ==
  \A d, e \in instance :
    /\ d.name = e.name => d = e
    /\ d.widgets \cap e.widgets # {} => d = e
=============================================================================
