--------------------------- MODULE ResourceIndex ---------------------------
(***************************************************************************)
(* The index of Operations' resources of one kind that a collection looks  *)
(* its parents up in (app/adapter.py _resource_index, test_adapter.py).    *)
(*                                                                         *)
(* The list is fetched page by page, and Operations creates and deletes    *)
(* resources between two pages: a page is a range of positions, not of     *)
(* resources.  ChildMerge takes the index as one step that may lack any    *)
(* parent; this module says which ones it can lack.  It shares no name     *)
(* with ParentMap: one module proves theorems about both.                  *)
(***************************************************************************)
EXTENDS Naturals, Sequences, FiniteSets, SequencesExt

CONSTANTS
  Resources,   \* identifiers Operations gives to resources
  Identity,    \* uniqueness identifiers of each resource, or Absent
  Absent,      \* no uniqueness identifiers; no entry
  PageSize,    \* _PAGE
  MaxRaised,   \* bound: failed requests in a behaviour
  MaxChanges   \* bound: resources created or deleted in a behaviour

Identities == {Identity[r] : r \in Resources} \ {Absent}

ASSUME IndexConstantsOK ==
  /\ IsFiniteSet(Resources)
  /\ Absent \notin Resources
  /\ PageSize \in Nat \ {0}
  /\ MaxRaised \in Nat
  /\ MaxChanges \in Nat

VARIABLES
  listing,   \* the resources of the kind, in the order Operations lists them
  page,      \* page
  index,     \* out: identity -> resource
  loop,      \* "fetching", then "done"
  steady,    \* history: resources listed ever since the first request
  removals,  \* history: resources deleted while pages were fetched
  changes, raised

indexVars == <<listing, page, index, loop, steady, removals, changes, raised>>

-----------------------------------------------------------------------------
Listed == Range(listing)

(* Operations holds one resource of an identity. *)
Unclaimed(r) ==
  r \notin Listed /\ \A q \in Listed : Identity[q] = Absent \/ Identity[q] # Identity[r]

InitIndex ==
  /\ listing \in UNION {SetToSeqs(S) : S \in SUBSET Resources}
  /\ \A q, r \in Listed : Identity[q] = Identity[r] /\ Identity[q] # Absent => q = r
  /\ page = 0
  /\ index = [i \in Identities |-> Absent]
  /\ loop = "fetching"
  /\ steady = Listed
  /\ removals = 0
  /\ changes = 0
  /\ raised = 0

-----------------------------------------------------------------------------
CountChange == changes < MaxChanges /\ changes' = changes + 1

Create(r) ==
  /\ Unclaimed(r)
  /\ CountChange
  /\ \E at \in 1..(Len(listing) + 1) : listing' = InsertAt(listing, at, r)
  /\ UNCHANGED <<page, index, loop, steady, removals, raised>>

Delete(at) ==
  /\ CountChange
  /\ listing' = RemoveAt(listing, at)
  /\ steady' = steady \ {listing[at]}
  /\ removals' = removals + 1
  /\ UNCHANGED <<page, index, loop, raised>>

-----------------------------------------------------------------------------
(* One page: a range of positions. *)
Page(n) == SubSeq(listing, n * PageSize + 1, IF (n + 1) * PageSize < Len(listing)
                                                THEN (n + 1) * PageSize ELSE Len(listing))

(* Entries without uniqueness identifiers are skipped; a later page wins.   *)
Entered(found) ==
  [i \in Identities |->
     IF \E r \in Range(found) : Identity[r] = i
       THEN CHOOSE r \in Range(found) : Identity[r] = i
       ELSE index[i]]

(* Variants with one mistake each: a full page ends the loop; the page     *)
(* number is not advanced.                                                 *)
LastIfFull(found) == Len(found) <= PageSize

FetchSamePage ==
  /\ loop = "fetching"
  /\ index' = Entered(Page(page))
  /\ loop' = IF Len(Page(page)) < PageSize THEN "done" ELSE "fetching"
  /\ UNCHANGED <<listing, page, steady, removals, changes, raised>>

(* A page that is not full is the last one. *)
LastPage(found) == Len(found) < PageSize

Fetch ==
  LET found == Page(page)
  IN  /\ loop = "fetching"
      /\ index' = Entered(found)
      /\ IF LastPage(found)
           THEN loop' = "done" /\ UNCHANGED page
           ELSE page' = page + 1 /\ UNCHANGED loop
      /\ UNCHANGED <<listing, steady, removals, changes, raised>>

(* The request raises: what has been indexed is returned. *)
FetchRaises ==
  /\ loop = "fetching"
  /\ raised < MaxRaised
  /\ raised' = raised + 1
  /\ loop' = "done"
  /\ UNCHANGED <<listing, page, index, steady, removals, changes>>

NextIndex ==
  \/ \E r \in Resources : Create(r)
  \/ \E at \in DOMAIN listing : Delete(at)
  \/ Fetch
  \/ FetchRaises

IndexSpec == InitIndex /\ [][NextIndex]_indexVars

(* The loop goes on as long as it has not ended. *)
FairIndexSpec == IndexSpec /\ WF_indexVars(Fetch)

-----------------------------------------------------------------------------
(* Resources that were listed all the time and are not in the index.       *)
Missed == {r \in steady : Identity[r] # Absent /\ index[Identity[r]] # r}

(* How much of the listing has been fetched: all of it when the loop ended *)
(* by itself, whole pages when a request raised or the loop goes on.       *)
Fetched == IF loop = "done" /\ raised = 0 THEN Len(listing) ELSE page * PageSize

(* Each deletion shifts at most one steady resource past a page that is    *)
(* about to be fetched, and a request that raises costs only the pages     *)
(* after it: of what was fetched an index lacks no more than that.         *)
LossBounded ==
  Cardinality({at \in DOMAIN listing : at <= Fetched /\ listing[at] \in Missed}) <= removals

(* The loop ends, whatever is created and deleted while it runs.           *)
IndexEnds == <>(loop = "done")
=============================================================================
