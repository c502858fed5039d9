----------------------------- MODULE AtomicMerge -----------------------------
(***************************************************************************)
(* What attaching to vCenter objects promises the rest of Operations: each *)
(* collection only ADDS this pack's objects to child lists, in one step,   *)
(* and the owning adapter restates its own children.  Nothing else changes *)
(* a list, except that a collection may take children off a list whose     *)
(* request was answered by less than the list.  ChildMerge implements this *)
(* when the owner does not collect between the reads and the write.        *)
(***************************************************************************)
EXTENDS Naturals

CONSTANTS Parents, Foreign, Own, Nowhere

VARIABLES
  home, children,
  cut    \* parents whose list was answered cut short to the collection

vars == <<home, children, cut>>

Objects == Foreign \cup Own

Init ==
  /\ home \in [Objects -> Parents \cup {Nowhere}]
  /\ children = [p \in Parents |-> {c \in Foreign : home[c] = p}]
  /\ cut = {}

Move ==
  /\ home' \in [Objects -> Parents \cup {Nowhere}]
  /\ UNCHANGED <<children, cut>>

(* The owner replaces what it listed by what now belongs there. *)
Restate ==
  /\ children' = [p \in Parents |->
       (children[p] \ Foreign) \cup {c \in Foreign : home[c] = p}]
  /\ UNCHANGED <<home, cut>>

(* Requests are answered, in full or not; or the collection fails. *)
Answer ==
  /\ cut' \in SUBSET Parents
  /\ UNCHANGED <<home, children>>

(* A collection adds objects of this pack, and only those; of a list that  *)
(* was cut short it keeps what it was answered.                            *)
Attach(added, kept) ==
  /\ \A p \in Parents : kept[p] \subseteq children[p]
  /\ children' = [p \in Parents |->
       added[p] \cup IF p \in cut THEN kept[p] ELSE children[p]]
  /\ cut' = {}
  /\ UNCHANGED home

Next ==
  \/ Move
  \/ Restate
  \/ Answer
  \/ \E added \in [Parents -> SUBSET Own], kept \in [Parents -> SUBSET Objects] :
       Attach(added, kept)

Spec == Init /\ [][Next]_vars
=============================================================================
