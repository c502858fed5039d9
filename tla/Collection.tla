----------------------------- MODULE Collection -----------------------------
(***************************************************************************)
(* One process of the adapter: main dispatches a method, "collect" or      *)
(* "test" connects to vCenter, queries the vSAN Performance Service and    *)
(* sends a result (app/adapter.py main, collect, test; app/perfsvc.py      *)
(* connect, probe, collect and the build_* maps).  Operations starts a     *)
(* fresh process for every call; what outlives a process is the session it *)
(* opened at vCenter and the answer it gave.                               *)
(*                                                                         *)
(* How child lists are read and written is ChildMerge; here a collection   *)
(* only knows which of its objects found a parent and which parents were   *)
(* kept.                                                                   *)
(***************************************************************************)
EXTENDS Naturals, FiniteSets

CONSTANTS
  Clusters,    \* clusters in the inventory
  Entities,    \* entity types that are queried: MODEL.ENTITIES, or the scope
  NoCluster,   \* no cluster is being queried
  MaxFaults    \* bound: failures in a behaviour

ASSUME ConstantsOK ==
  /\ NoCluster \notin Clusters
  /\ MaxFaults \in Nat

VARIABLES
  service,     \* what the Performance Service holds for a cluster and entity
  listed,      \* clusters the walk of connect finds
  pc,          \* where the process is
  method,      \* the method it runs
  verdict,     \* how the try block of collect or test was left
  held,        \* collect's si is a live session
  sessions,    \* sessions open at vCenter
  lost,        \* history: sessions opened that no process can close
  returned,    \* clusters connect returned
  visible,     \* those of them that are still to be collected
  cluster,     \* the cluster being queried
  asked,       \* entity types of it that have been queried
  out,         \* entity types of it that returned objects
  result,      \* <<cluster, entity>> pairs with objects in the result
  problems,    \* total_problems: <<cluster, entity>> pairs reported
  failed,      \* history: <<cluster, entity>> pairs whose query did not answer
  linked,      \* some object found a vCenter parent
  kept,        \* some parent is in the result with its children
  orphaned,    \* the ORPHANED problem was reported
  answer,      \* what the process sent
  code,        \* its exit status
  faults       \* failures so far

connection == <<held, sessions, lost, returned, visible>>
querying   == <<cluster, asked, out, failed>>
outcome    == <<answer, code>>
relations  == <<linked, kept, orphaned>>
world == <<service, listed>>
vars == <<world, pc, method, verdict, connection, querying, result, problems,
          relations, outcome, faults>>

-----------------------------------------------------------------------------
Pairs == Clusters \X Entities

(* Deployment properties: an entity type has objects, has none, or is not  *)
(* available on the cluster.                                               *)
Service == {"data", "empty", "unsupported"}

(* vCenter's inventory and the account's roles: a cluster is listed if its *)
(* Datacenter is right below the root folder and the account may see it.   *)
(* One in a Datacenter in a folder is not, whatever the role.              *)

Init ==
  /\ service \in [Pairs -> Service]
  /\ listed \in SUBSET Clusters
  /\ pc = "idle"
  /\ method = "none"
  /\ verdict = "none"
  /\ held = FALSE
  /\ sessions = 0
  /\ lost = 0
  /\ returned = {} /\ visible = {}
  /\ cluster = NoCluster
  /\ asked = {}
  /\ out = {}
  /\ result = {}
  /\ problems = {}
  /\ failed = {}
  /\ linked = FALSE
  /\ kept = FALSE
  /\ orphaned = FALSE
  /\ answer = "none"
  /\ code = 0
  /\ faults = 0

Fault == faults < MaxFaults /\ faults' = faults + 1

(* A role is given or taken, a Datacenter is moved into or out of a folder. *)
Relist ==
  /\ \E k \in Clusters : listed' \in {listed \cup {k}, listed \ {k}}
  /\ listed' # listed
  /\ Fault
  /\ UNCHANGED <<service, pc, method, verdict, connection, querying, result,
                 problems, relations, outcome>>

-----------------------------------------------------------------------------
(* Operations starts the process. *)
Start(m) ==
  /\ pc = "idle"
  /\ pc' = "connect"
  /\ method' = m
  /\ verdict' = "none"
  /\ returned' = {} /\ visible' = {} /\ cluster' = NoCluster /\ asked' = {} /\ out' = {}
  /\ result' = {} /\ problems' = {} /\ failed' = {}
  /\ linked' = FALSE /\ kept' = FALSE /\ orphaned' = FALSE
  /\ answer' = "none"
  /\ UNCHANGED <<world, held, sessions, lost, code, faults>>

(* The try block of collect or test is left, with a result or by raising.  *)
Leave(how) ==
  /\ verdict' = how
  /\ pc' = "finally"
  /\ UNCHANGED <<world, method, connection, querying, result, problems, outcome>>

Raise == Leave("raised") /\ UNCHANGED relations

(* Variants with one mistake each, that the properties tell apart: a       *)
(* process that logs out only on success, a query whose failure is         *)
(* swallowed, a fault of an absent feature that is not caught.             *)
LogOutOnSuccess ==
  /\ pc = "finally"
  /\ held' = FALSE
  /\ sessions' = IF held /\ verdict = "result" THEN sessions - 1 ELSE sessions
  /\ pc' = IF verdict = "result" THEN "send"
           ELSE IF method = "test" THEN "error" ELSE "exit"
  /\ UNCHANGED <<world, method, verdict, lost, returned, visible, querying, result,
                 problems, relations, outcome, faults>>

FailsQuietly(e) ==
  /\ pc = "query"
  /\ e \in Entities \ asked
  /\ asked' = asked \cup {e}
  /\ Fault
  /\ failed' = failed \cup {<<cluster, e>>}
  /\ UNCHANGED <<world, pc, method, verdict, connection, cluster, out, result,
                 problems, relations, outcome>>

UnsupportedRaises(e) ==
  /\ pc = "query"
  /\ service[<<cluster, e>>] = "unsupported"
  /\ e \in Entities \ asked
  /\ Raise
  /\ UNCHANGED faults

(* Where the process goes after the finally.  An exception leaves collect  *)
(* and ends in main's own finally; test has turned it into an error result. *)
AfterFinally ==
  IF verdict = "result" THEN "send"
  ELSE IF method = "test" THEN "error" ELSE "exit"

(* _safe_disconnect, on every way out. *)
LogOut ==
  /\ pc = "finally"
  /\ held' = FALSE
  /\ sessions' = IF held THEN sessions - 1 ELSE sessions
  /\ pc' = AfterFinally
  /\ UNCHANGED <<world, method, verdict, lost, returned, visible, querying, result,
                 problems, relations, outcome, faults>>

(* Disconnect raises, which is swallowed. *)
LogOutFails ==
  /\ pc = "finally"
  /\ held
  /\ Fault
  /\ held' = FALSE
  /\ lost' = lost + 1
  /\ pc' = AfterFinally
  /\ UNCHANGED <<world, method, verdict, sessions, returned, visible, querying, result,
                 problems, relations, outcome>>

-----------------------------------------------------------------------------
(* perfsvc.connect: log in, walk the Datacenters right below the root      *)
(* folder for clusters, look up the vSAN managed objects.  What the walk   *)
(* does not reach is not missed.                                           *)
Connect ==
  /\ pc = "connect"
  /\ held' = TRUE
  /\ sessions' = sessions + 1
  /\ returned' = listed /\ visible' = listed
  /\ pc' = IF method = "test" THEN "probe" ELSE "maps"
  /\ UNCHANGED <<world, method, verdict, lost, querying, result, problems,
                 relations, outcome, faults>>

LoginFails == pc = "connect" /\ Fault /\ Raise

(* RetrieveContent or GetVsanVcMos raises after SmartConnect returned: si  *)
(* never reaches the caller, whose finally has nothing to log out.         *)
FailsAfterLogin ==
  /\ pc = "connect"
  /\ Fault
  /\ sessions' = sessions + 1
  /\ lost' = lost + 1
  /\ verdict' = "raised"
  /\ pc' = "finally"
  /\ UNCHANGED <<world, method, held, returned, visible, querying, result, problems,
                 relations, outcome>>

(* The walk found no cluster at all. *)
NoClustersVisible ==
  /\ pc \in {"maps", "probe"}
  /\ visible = {}
  /\ Raise
  /\ UNCHANGED faults

-----------------------------------------------------------------------------
(* The name, parent and disk maps.  Reading a cluster's hosts is outside   *)
(* every try in two of the three.                                          *)
BuildMaps ==
  /\ pc = "maps" /\ visible # {}
  /\ pc' = "clusters"
  /\ UNCHANGED <<world, method, verdict, connection, querying, result, problems,
                 relations, outcome, faults>>

MapsRaise == pc = "maps" /\ visible # {} /\ Fault /\ Raise

(* perfsvc.collect is called for the next cluster. *)
BeginCluster(k) ==
  /\ pc = "clusters"
  /\ k \in visible
  /\ cluster' = k
  /\ asked' = {}
  /\ out' = {}
  /\ pc' = "query"
  /\ UNCHANGED <<world, method, verdict, connection, result, problems, failed,
                 relations, outcome, faults>>

Ask(e) ==
  /\ pc = "query"
  /\ e \in Entities \ asked
  /\ asked' = asked \cup {e}
  /\ UNCHANGED <<world, pc, method, verdict, connection, cluster, result, relations, outcome>>

(* One round trip per entity type. *)
QueryAnswers(e) ==
  /\ Ask(e)
  /\ out' = IF service[<<cluster, e>>] = "data" THEN out \cup {e} ELSE out
  /\ service[<<cluster, e>>] # "unsupported"
  /\ UNCHANGED <<problems, failed, faults>>

(* InvalidArgument or NotSupported: reported once for the cluster. *)
QueryUnsupported(e) ==
  /\ Ask(e)
  /\ service[<<cluster, e>>] = "unsupported"
  /\ problems' = problems \cup {<<cluster, e>>}
  /\ failed' = failed \cup {<<cluster, e>>}
  /\ UNCHANGED <<out, faults>>

(* Any other exception: reported, and the next entity type is queried. *)
QueryFails(e) ==
  /\ Ask(e)
  /\ Fault
  /\ problems' = problems \cup {<<cluster, e>>}
  /\ failed' = failed \cup {<<cluster, e>>}
  /\ UNCHANGED out

(* The cluster's objects go into the result. *)
ClusterDone ==
  /\ pc = "query"
  /\ asked = Entities
  /\ out # {}
  /\ result' = result \cup ({cluster} \X out)
  /\ visible' = visible \ {cluster}
  /\ cluster' = NoCluster
  /\ pc' = IF visible = {cluster} THEN "relate" ELSE "clusters"
  /\ UNCHANGED <<world, method, verdict, held, sessions, lost, returned, asked, out, problems,
                 failed, relations, outcome, faults>>

(* No entity type of this cluster returned an object: PerfSvcError. *)
NoData ==
  /\ pc = "query"
  /\ asked = Entities
  /\ out = {}
  /\ Raise
  /\ UNCHANGED faults

(* Attach objects to parents and keep the parents whose children could be  *)
(* read; with nothing linked, report the orphaning.  Nothing is linked by  *)
(* an instance that does not attach, or if no identifier has a parent.     *)
Relate ==
  /\ pc = "relate"
  /\ linked' \in BOOLEAN
  /\ kept' \in BOOLEAN
  /\ kept' => linked'
  /\ IF linked' /\ ~kept' THEN Fault ELSE UNCHANGED faults
  /\ orphaned' = ~linked'
  /\ Leave("result")

(* A cluster's answers cannot be made into objects, or these not be        *)
(* related.                                                                *)
ProcessingRaises ==
  /\ pc = "relate" \/ (pc = "query" /\ asked = Entities /\ out # {})
  /\ Fault
  /\ Raise

(* The result cannot be serialised or sent: it is logged behind the        *)
(* finally, and sent by main.                                              *)
SendFails ==
  /\ pc \in {"send", "error"}
  /\ Fault
  /\ pc' = "exit"
  /\ UNCHANGED <<world, method, verdict, connection, querying, result, problems,
                 relations, outcome>>

SendResult ==
  /\ pc = "send"
  /\ answer' = "result"
  /\ pc' = "exit"
  /\ UNCHANGED <<world, method, verdict, connection, querying, result, problems,
                 relations, code, faults>>

-----------------------------------------------------------------------------
(* test: one query against one entity type of the first cluster. *)
ProbeAnswers ==
  /\ pc = "probe" /\ visible # {}
  /\ Leave("result")
  /\ UNCHANGED <<relations, faults>>

ProbeFails == pc = "probe" /\ visible # {} /\ Fault /\ Raise

SendError ==
  /\ pc = "error"
  /\ answer' = "error"
  /\ pc' = "exit"
  /\ UNCHANGED <<world, method, verdict, connection, querying, result, problems,
                 relations, code, faults>>

(* main's finally: sys.exit(0), whatever happened. *)
Exit ==
  /\ pc = "exit"
  /\ code' = 0
  /\ pc' = "idle"
  /\ UNCHANGED <<world, method, verdict, connection, querying, result, problems,
                 relations, answer, faults>>

(* Operations kills a process that runs too long: no finally runs. *)
Killed ==
  /\ pc # "idle"
  /\ Fault
  /\ lost' = IF held THEN lost + 1 ELSE lost
  /\ held' = FALSE
  /\ code' = 9
  /\ pc' = "idle"
  /\ UNCHANGED <<world, method, verdict, sessions, returned, visible, querying, result,
                 problems, relations, answer>>

Next ==
  \/ \E m \in {"collect", "test"} : Start(m)
  \/ Connect \/ LoginFails \/ FailsAfterLogin \/ NoClustersVisible
  \/ BuildMaps \/ MapsRaise
  \/ \E k \in Clusters : BeginCluster(k)
  \/ \E e \in Entities : QueryAnswers(e) \/ QueryUnsupported(e) \/ QueryFails(e)
  \/ ClusterDone \/ NoData
  \/ Relate \/ ProcessingRaises \/ SendResult \/ SendFails
  \/ Relist
  \/ ProbeAnswers \/ ProbeFails \/ SendError
  \/ LogOut \/ LogOutFails
  \/ Exit \/ Killed

Spec == Init /\ [][Next]_vars

(* Operations collects again and again; a process that runs goes on.       *)
GoesOn ==
  \/ Connect \/ BuildMaps \/ NoClustersVisible
  \/ \E k \in Clusters : BeginCluster(k)
  \/ \E e \in Entities : QueryAnswers(e) \/ QueryUnsupported(e)
  \/ ClusterDone \/ NoData \/ Relate \/ ProbeAnswers \/ LogOut
  \/ SendResult \/ SendError \/ Exit

Fairness == SF_vars(Start("collect")) /\ WF_vars(GoesOn)

FairSpec == Spec /\ Fairness

-----------------------------------------------------------------------------
TypeOK ==
  /\ service \in [Pairs -> Service]
  /\ listed \subseteq Clusters
  /\ pc \in {"idle", "connect", "maps", "clusters", "query", "relate", "probe",
             "finally", "send", "error", "exit"}
  /\ method \in {"none", "collect", "test"}
  /\ verdict \in {"none", "result", "raised"}
  /\ held \in BOOLEAN
  /\ sessions \in 0..(MaxFaults + 1)
  /\ lost \in 0..MaxFaults
  /\ returned \subseteq Clusters /\ visible \subseteq returned
  /\ cluster \in Clusters \cup {NoCluster}
  /\ asked \subseteq Entities
  /\ out \subseteq Entities
  /\ result \subseteq Pairs
  /\ problems \subseteq Pairs
  /\ failed \subseteq Pairs
  /\ linked \in BOOLEAN
  /\ kept \in BOOLEAN
  /\ orphaned \in BOOLEAN
  /\ answer \in {"none", "result", "error"}
  /\ code \in {0, 9}
  /\ faults \in 0..MaxFaults

(* A process leaves no session open at vCenter, however it ends, but those *)
(* nobody could close: a login that failed half way, a log out that        *)
(* failed, a process that was killed.                                      *)
SessionsAccounted ==
  /\ sessions = IF held THEN lost + 1 ELSE lost
  /\ lost <= faults
  /\ pc \in {"idle", "connect", "send", "error", "exit"} => ~held

Collected == method = "collect" /\ answer = "result"

(* A collection that is sent holds data of every cluster connect returned, *)
(* and whatever it does not hold of what the service has of these is       *)
(* reported as a problem.  Of the clusters connect did not return it says  *)
(* nothing (perfsvc.py:198-200), but it is never sent for want of any.     *)
NothingSilentlyMissing ==
  Collected =>
    /\ returned # {}
    /\ \A k \in returned : \E e \in Entities : <<k, e>> \in result
    /\ \A s \in returned \X Entities : service[s] = "data" => s \in result \/ s \in problems
    /\ failed \subseteq problems

(* "Orphaning everything must not be silent": a collection that is sent    *)
(* attached something, or says that it did not (adapter.py:686-701).       *)
OrphaningIsLoud == Collected => kept \/ orphaned

(* Where every cluster that stays listed has data, and one does, Operations *)
(* gets a result again and again once failures stop.                       *)
Served(k) == \E e \in Entities : service[<<k, e>>] = "data"
CollectsAgain ==
  (\A k \in Clusters : Served(k) \/ <>[](k \notin listed)) /\ <>[](listed # {})
    => []<>Collected
=============================================================================
