------------------------------ MODULE ChildMerge ------------------------------
(***************************************************************************)
(* How a collection attaches this pack's objects to the hosts, virtual     *)
(* machines and clusters that the VMWARE adapter owns (app/adapter.py,     *)
(* collect and _preserve_existing_children).                               *)
(*                                                                         *)
(* Operations keeps one child list per parent.  There is no additive       *)
(* write: a parent that appears in a result states its COMPLETE list.  A   *)
(* collection therefore reads the current list of each parent it wants to  *)
(* attach to, adds what it read to its own children, and states the union  *)
(* when the result is sent.  Between the read and the write the owning     *)
(* adapter, and other instances of this pack, go on writing.               *)
(***************************************************************************)
EXTENDS Naturals

CONSTANTS
  Instances,     \* adapter instances of this pack, one process per collection
  Parents,       \* vCenter objects: HostSystem, VirtualMachine, ClusterComputeResource
  Foreign,       \* children stated by the owning (VMWARE) adapter
  Own,           \* this pack's objects
  Nowhere,       \* the home of an object that is under none of Parents
  Overlap,       \* TRUE: the owner may collect between our reads and our write
  SilentErrors,  \* TRUE: the suite API may fail without raising
  MaxFaults,     \* bound: failures in a behaviour
  MaxMoves       \* bound: inventory and configuration changes in a behaviour

Objects == Foreign \cup Own

ASSUME ConstantsOK ==
  /\ Foreign \cap Own = {}
  /\ Nowhere \notin Parents
  /\ Overlap \in BOOLEAN
  /\ SilentErrors \in BOOLEAN
  /\ MaxFaults \in Nat
  /\ MaxMoves \in Nat

VARIABLES
  home,       \* the parent each object really belongs to (vCenter, vSAN)
  children,   \* Operations' child list of each parent
  attach,     \* the "attach to vCenter" parameter of each instance
  pc,         \* where each instance's collection is
  started,    \* history: the parameter in the running collection's input
  claim,      \* the _children sets of the parents in vc_cache
  todo,       \* parents whose children are still to be read
  safe,       \* parents that will be in the result
  churn,      \* history: listings others changed since this instance's read
  garbled,    \* history: parents whose read answered less than the list
  faults,     \* failures so far
  moves       \* changes so far

opsVars  == <<home, children>>
packVars == <<pc, started, claim, todo, safe, garbled>>
vars == <<home, children, attach, pc, started, claim, todo, safe, churn,
          garbled, faults, moves>>

-----------------------------------------------------------------------------
(* Values of the parameter; an instance created before it existed has none. *)
Settings == {"true", "false", "unset"}

NoChildren == [p \in Parents |-> {}]

OwnerList(p) == {c \in Foreign : home[c] = p}

SymDiff(S, T) == (S \ T) \cup (T \ S)

Init ==
  /\ home \in [Objects -> Parents \cup {Nowhere}]
  /\ children = [p \in Parents |-> OwnerList(p)]
  /\ attach \in [Instances -> Settings]
  /\ pc = [i \in Instances |-> "idle"]
  /\ started = [i \in Instances |-> "false"]
  /\ claim = [i \in Instances |-> NoChildren]
  /\ todo = [i \in Instances |-> {}]
  /\ safe = [i \in Instances |-> {}]
  /\ churn = [i \in Instances |-> NoChildren]
  /\ garbled = [i \in Instances |-> {}]
  /\ faults = 0
  /\ moves = 0

(* The lists that the parents i has already read differ from what it read. *)
Churned(lists) ==
  [i \in Instances |->
     [p \in Parents |-> IF p \in safe[i]
                          THEN churn[i][p] \cup SymDiff(children[p], lists[p])
                          ELSE churn[i][p]]]

Fault == faults < MaxFaults /\ faults' = faults + 1

Degraded(complete) ==
  \/ complete /\ UNCHANGED faults
  \/ ~complete /\ Fault

-----------------------------------------------------------------------------
(* The world around the pack.                                              *)

(* A virtual machine is created, migrated or deleted; a disk changes host. *)
Move(o, p) ==
  /\ moves < MaxMoves
  /\ p # home[o]
  /\ moves' = moves + 1
  /\ home' = [home EXCEPT ![o] = p]
  /\ UNCHANGED <<children, attach, packVars, churn, faults>>

(* The operator edits the instance's configuration. *)
SetAttach(i) ==
  /\ moves < MaxMoves
  /\ moves' = moves + 1
  /\ \E v \in {"true", "false"} \ {attach[i]} : attach' = [attach EXCEPT ![i] = v]
  /\ UNCHANGED <<home, children, packVars, churn, faults>>

(* A cycle of the VMWARE adapter restates its own children everywhere. *)
OwnerCycle ==
  LET lists == [p \in Parents |-> (children[p] \ Foreign) \cup OwnerList(p)]
  IN  /\ Overlap \/ \A i \in Instances : pc[i] # "merge"
      /\ children' = lists
      /\ churn' = Churned(lists)
      /\ UNCHANGED <<home, attach, packVars, faults, moves>>

-----------------------------------------------------------------------------
(* One collection of instance i, in the order of collect().                *)

(* Variant: the comparison that any value but a missing one passes. *)
AttachAlways(setting) == TRUE

(* The local attach_vc: an unset parameter means "true". *)
AttachVc(setting) == setting \in {"true", "unset"}

(* Variants of the operators below, each with one plausible mistake; the   *)
(* properties tell them apart from the code.                               *)
CacheMissingParents(i, seen) ==
  [p \in Parents \cup {Nowhere} |-> {o \in seen : AttachVc(attach[i]) /\ home[o] = p}]

OursOnly(ours, existing) == ours

ExistingOnly(ours, existing) == existing

RaiseIsEmptyList(i, p) ==
  /\ pc[i] = "merge"
  /\ p \in todo[i]
  /\ Fault
  /\ todo' = [todo EXCEPT ![i] = @ \ {p}]
  /\ safe' = [safe EXCEPT ![i] = @ \cup {p}]
  /\ UNCHANGED <<opsVars, attach, pc, started, claim, churn, garbled, moves>>

(* vc_cache: this pack's objects under the vCenter parent of each.  Objects *)
(* without a parent are standalone.                                        *)
VcCache(i, seen) ==
  [p \in Parents |-> {o \in seen : AttachVc(attach[i]) /\ home[o] = p}]

(* What is stated for a parent whose children could be read. *)
Stated(ours, existing) == ours \cup existing

(* Query vSAN and resolve each object's vCenter parent; objects lost to a  *)
(* failed query or an unresolved parent are not in "seen".                 *)
Collect(i) ==
  /\ pc[i] = "idle"
  /\ LET present == {o \in Own : home[o] # Nowhere}
     IN  \E seen \in SUBSET present :
           /\ Degraded(seen = present)
           /\ claim' = [claim EXCEPT ![i] = VcCache(i, seen)]
           /\ todo' = [todo EXCEPT ![i] =
                {p \in Parents : AttachVc(attach[i]) /\ VcCache(i, seen)[p] # {}}]
  /\ started' = [started EXCEPT ![i] = attach[i]]
  /\ pc' = [pc EXCEPT ![i] = IF AttachVc(attach[i]) THEN "client" ELSE "merge"]
  /\ UNCHANGED <<opsVars, attach, safe, churn, garbled, moves>>

(* No client, no token, or an empty index: no parent is claimed. *)
NoClient(i) ==
  /\ pc[i] = "client"
  /\ Fault
  /\ pc' = [pc EXCEPT ![i] = "merge"]
  /\ todo' = [todo EXCEPT ![i] = {}]
  /\ UNCHANGED <<opsVars, attach, started, claim, safe, churn, garbled, moves>>

(* Index every kind; a parent the index lacks is left out. *)
Index(i) ==
  /\ pc[i] = "client"
  /\ \E found \in SUBSET todo[i] :
       /\ Degraded(found = todo[i])
       /\ todo' = [todo EXCEPT ![i] = found]
  /\ pc' = [pc EXCEPT ![i] = "merge"]
  /\ UNCHANGED <<opsVars, attach, started, claim, safe, churn, garbled, moves>>

(* The children request for p is answered with "reply", taken as p's list. *)
Merge(i, p, reply) ==
  /\ pc[i] = "merge"
  /\ p \in todo[i]
  /\ todo' = [todo EXCEPT ![i] = @ \ {p}]
  /\ claim' = [claim EXCEPT ![i][p] = Stated(@, reply)]
  /\ safe' = [safe EXCEPT ![i] = @ \cup {p}]
  /\ UNCHANGED <<opsVars, attach, pc, started, churn, moves>>

ReadChildren(i, p) ==
  /\ Merge(i, p, children[p])
  /\ UNCHANGED <<garbled, faults>>

(* An error status is a Response without a list, which reads as no children. *)
ReadErrorResponse(i, p) ==
  /\ SilentErrors
  /\ Merge(i, p, {})
  /\ Fault
  /\ garbled' = [garbled EXCEPT ![i] = @ \cup {p}]

(* Entries no key can be rebuilt from are skipped one by one. *)
ReadUnparsable(i, p) ==
  /\ SilentErrors
  /\ \E bad \in SUBSET children[p] \ {{}} : Merge(i, p, children[p] \ bad)
  /\ Fault
  /\ garbled' = [garbled EXCEPT ![i] = @ \cup {p}]

(* The request raises: the parent stays out of the result. *)
ReadRaises(i, p) ==
  /\ pc[i] = "merge"
  /\ p \in todo[i]
  /\ Fault
  /\ todo' = [todo EXCEPT ![i] = @ \ {p}]
  /\ UNCHANGED <<opsVars, attach, pc, started, claim, safe, churn, garbled, moves>>

(* The process ends; the next collection is a new one. *)
Exit(i) ==
  /\ pc' = [pc EXCEPT ![i] = "idle"]
  /\ started' = [started EXCEPT ![i] = "false"]
  /\ claim' = [claim EXCEPT ![i] = NoChildren]
  /\ todo' = [todo EXCEPT ![i] = {}]
  /\ safe' = [safe EXCEPT ![i] = {}]
  /\ garbled' = [garbled EXCEPT ![i] = {}]

(* The result is sent: each parent in it has its child list REPLACED. *)
Send(i) ==
  LET lists == [p \in Parents |-> IF p \in safe[i] THEN claim[i][p] ELSE children[p]]
  IN  /\ pc[i] = "merge"
      /\ todo[i] = {}
      /\ children' = lists
      /\ churn' = [Churned(lists) EXCEPT ![i] = NoChildren]
      /\ Exit(i)
      /\ UNCHANGED <<home, attach, faults, moves>>

(* The collection raises, or is killed, before anything is sent. *)
Abort(i) ==
  /\ pc[i] # "idle"
  /\ Fault
  /\ churn' = [churn EXCEPT ![i] = NoChildren]
  /\ Exit(i)
  /\ UNCHANGED <<opsVars, attach, moves>>

-----------------------------------------------------------------------------
Read(i, p) == \/ ReadChildren(i, p)
              \/ ReadErrorResponse(i, p)
              \/ ReadUnparsable(i, p)
              \/ ReadRaises(i, p)

Next ==
  \/ \E o \in Objects, p \in Parents \cup {Nowhere} : Move(o, p)
  \/ \E i \in Instances : SetAttach(i)
  \/ OwnerCycle
  \/ \E i \in Instances : Collect(i)
  \/ \E i \in Instances : NoClient(i)
  \/ \E i \in Instances : Index(i)
  \/ \E i \in Instances, p \in Parents : Read(i, p)
  \/ \E i \in Instances : Send(i)
  \/ \E i \in Instances : Abort(i)

(* Operations schedules every adapter again and again, and a collection    *)
(* that has begun runs to its end.                                         *)
Fairness ==
  /\ SF_vars(OwnerCycle)
  /\ \A i \in Instances :
       /\ WF_vars(Collect(i))
       /\ WF_vars(Index(i))
       /\ WF_vars(\E p \in Parents : Read(i, p))
       /\ WF_vars(Send(i))

Spec == Init /\ [][Next]_vars
FairSpec == Spec /\ Fairness

-----------------------------------------------------------------------------
TypeOK ==
  /\ home \in [Objects -> Parents \cup {Nowhere}]
  /\ children \in [Parents -> SUBSET Objects]
  /\ attach \in [Instances -> Settings]
  /\ pc \in [Instances -> {"idle", "client", "merge"}]
  /\ started \in [Instances -> Settings]
  /\ claim \in [Instances -> [Parents -> SUBSET Objects]]
  /\ todo \in [Instances -> SUBSET Parents]
  /\ safe \in [Instances -> SUBSET Parents]
  /\ churn \in [Instances -> [Parents -> SUBSET Objects]]
  /\ garbled \in [Instances -> SUBSET Parents]
  /\ faults \in 0..MaxFaults
  /\ moves \in 0..MaxMoves

(* i's collection ends in this step, by sending its result or by failing. *)
Ends(i) == pc[i] = "merge" /\ pc'[i] = "idle"

(* What i is about to state, against what Operations holds: unless the     *)
(* read was cut short, everything listed is stated or was listed since the *)
(* read; and everything foreign that is stated is listed, or was taken off *)
(* since the read.                                                         *)
ReadAccounted ==
  \A i \in Instances : \A p \in safe[i] :
    /\ p \notin garbled[i] => children[p] \subseteq claim[i][p] \cup churn[i][p]
    /\ claim[i][p] \ Own \subseteq children[p] \cup churn[i][p]

(* A write of this pack takes no child off a list it read in full, unless  *)
(* someone else put the child there after the read; and puts no foreign    *)
(* child on a list, unless someone else took it off after the read.        *)
OnlyRacesDisturb ==
  [][\A i \in Instances : Ends(i) =>
       \A p \in Parents :
         /\ p \notin garbled[i] => children[p] \ children'[p] \subseteq churn[i][p]
         /\ (children'[p] \ children[p]) \cap Foreign \subseteq churn[i][p]]_vars

(* With attaching off when a collection starts, that collection writes no  *)
(* child list, even when the operator turns it on half way through.        *)
SwitchStopsWrites ==
  [][\A i \in Instances :
       Ends(i) /\ children' # children => started[i] # "false"]_vars

(* Local state agrees with where the collection is: only a collection that *)
(* is merging has parents in its result, and one that runs with attaching  *)
(* off has none at all.                                                    *)
LocalState ==
  \A i \in Instances :
    /\ pc[i] # "merge" => safe[i] = {}
    /\ ~AttachVc(started[i]) => todo[i] = {} /\ safe[i] = {} /\ pc[i] # "client"

-----------------------------------------------------------------------------
(* The promise to the rest of Operations, see AtomicMerge. *)

(* The child lists are the abstract ones; the parents whose answer some    *)
(* running collection holds cut short are "cut".                           *)
CutShort == {p \in Parents : \E i \in Instances : p \in garbled[i]}

Atomic == INSTANCE AtomicMerge WITH
  home <- home, children <- children, cut <- CutShort

(* With no overlap and one instance of the pack each write is an atomic    *)
(* union, but for the parents whose list was answered cut short.           *)
ImplementsAtomicMerge == Atomic!Spec

-----------------------------------------------------------------------------
(* Statements of the source that what the code does does not keep.         *)

(* adapter.py:675-677, "Fail CLOSED": a list that could not be read is left *)
(* alone, so a write only ever drops what was created after the read.      *)
FailClosed ==
  [][\A i \in Instances : Ends(i) =>
       \A p \in Parents : children[p] \ children'[p] \subseteq churn[i][p]]_vars

-----------------------------------------------------------------------------
Listed(c, p) == c \in children[p]

(* Once failures and changes stop, an object of this pack is listed under  *)
(* its parent for good, if some instance attaches.                         *)
OursStayAttached ==
  \A o \in Own, p \in Parents :
    <>[](home[o] = p /\ \E i \in Instances : attach[i] # "false") => <>[]Listed(o, p)

(* adapter.py:355-358, a dropped child is gone for "one object for one     *)
(* cycle": once failures and changes stop, the lists of the owner settle.  *)
ForeignSettle ==
  \A c \in Foreign, p \in Parents :
    <>[](home[c] = p) => <>[]Listed(c, p)
=============================================================================
