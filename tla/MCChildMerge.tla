---------------------------- MODULE MCChildMerge ----------------------------
(* ChildMerge on small instances. *)
EXTENDS ChildMerge

CONSTANTS i1, i2, p1, p2, c1, c2, o1, o2
=============================================================================
