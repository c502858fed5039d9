------------------------------ MODULE MCWatchers ------------------------------
(* Watchers with three runs, issues or drives; issues 1 and 2 share a      *)
(* repository, and the listings are shorter than what there is to list.    *)
EXTENDS Watchers

RepoOfIssue == [i \in Items |-> IF i = 3 THEN "pack" ELSE "other"]
=============================================================================
