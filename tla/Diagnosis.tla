-------------------------------- MODULE Diagnosis ---------------------------------
(***************************************************************************)
(* diagnose_parents.py reads, one after the other and with the adapter's    *)
(* account, what the adapter attaches its objects by, and names what it     *)
(* finds missing: the vCenter's uuid, the clusters, their vSAN uuids, the   *)
(* node uuids of their hosts.  The vCenter changes meanwhile.  Every        *)
(* cluster is a vSAN cluster.                                               *)
(***************************************************************************)
EXTENDS Naturals, FiniteSets

CONSTANTS
  Clusters, Hosts,
  HomeOf,      \* host -> its cluster
  MaxChanges,  \* bound: changes of the vCenter
  MaxRuns,     \* bound: diagnoses
  MaxKills     \* bound: diagnoses that are killed

Causes == {"instanceUuid", "clusters", "clusterUuid", "nodeUuid"}

VARIABLES
  about,     \* the vCenter's uuid can be read
  shown,     \* clusters the account sees
  walked,    \* clusters in a datacenter right below the root folder
  config,    \* clusters whose vSAN configuration can be read
  node,      \* hosts whose vSAN configuration can be read
  alike,     \* hosts that vCenter and the Performance Service call by one name
  pc,
  clusters,  \* clusters the diagnosis found
  left,      \* objects this part of it has not read yet
  some,      \* a read of this part found what it looked for
  fail,      \* causes it named
  verdict,   \* "none", "healthy", "orphaning", "raised"
  open,      \* sessions that are open
  changed,   \* history: the vCenter changed since this diagnosis began
  changes, runs, kills

vcenter == <<about, shown, walked, config, node, alike>>
found == <<clusters, left, some, fail>>
bounds == <<changes, runs, kills>>
diagnosisVars == <<vcenter, pc, found, verdict, open, changed, bounds>>

(* No diagnosis was made. *)
Idle ==
  /\ pc = "off" /\ clusters = {} /\ left = {} /\ some = FALSE /\ fail = {}
  /\ verdict = "none" /\ open = 0 /\ changed = FALSE
  /\ changes = 0 /\ runs = 0 /\ kills = 0

Init ==
  /\ about \in BOOLEAN
  /\ shown \in SUBSET Clusters /\ walked \in SUBSET Clusters /\ config \in SUBSET Clusters
  /\ node \in SUBSET Hosts /\ alike \in SUBSET Hosts
  /\ Idle

-----------------------------------------------------------------------------
(* What the adapter attaches, of what this vCenter holds: it walks the      *)
(* datacenters below the root folder, and knows a host by its node uuid or, *)
(* where that cannot be read, by its name.                                  *)
Attached ==
  IF ~about THEN {}
  ELSE LET walk == shown \cap walked IN
       (walk \cap config) \cup {h \in Hosts : HomeOf[h] \in walk /\ h \in node \cup alike}

HostsIn(cs) == {h \in Hosts : HomeOf[h] \in cs}

Toggled(S, x) == IF x \in S THEN S \ {x} ELSE S \cup {x}

(* A role is granted or withdrawn, a cluster or host becomes readable or    *)
(* unreadable.                                                              *)
Change ==
  /\ changes < MaxChanges
  /\ changes' = changes + 1 /\ changed' = TRUE
  /\ \/ \E c \in Clusters : shown' = Toggled(shown, c) /\ UNCHANGED <<config, node>>
     \/ \E c \in Clusters : config' = Toggled(config, c) /\ UNCHANGED <<shown, node>>
     \/ \E h \in Hosts : node' = Toggled(node, h) /\ UNCHANGED <<shown, config>>
  /\ UNCHANGED <<about, walked, alike, pc, found, verdict, open, runs, kills>>

-----------------------------------------------------------------------------
Login ==
  /\ pc = "off" /\ runs < MaxRuns
  /\ runs' = runs + 1 /\ open' = open + 1
  /\ pc' = "about" /\ verdict' = "none" /\ changed' = FALSE
  /\ clusters' = {} /\ left' = {} /\ some' = FALSE /\ fail' = {}
  /\ UNCHANGED <<vcenter, changes, kills>>

Blame(cause, missing) == fail' = IF missing THEN fail \cup {cause} ELSE fail

InstanceUuid ==
  /\ pc = "about"
  /\ Blame("instanceUuid", ~about)
  /\ pc' = "view"
  /\ UNCHANGED <<vcenter, clusters, left, some, verdict, open, changed, bounds>>

(* A view of everything below the root folder, whatever folder it is in. *)
View ==
  /\ pc = "view"
  /\ clusters' = shown /\ left' = shown /\ some' = FALSE
  /\ Blame("clusters", shown = {})
  /\ pc' = "clusters"
  /\ UNCHANGED <<vcenter, verdict, open, changed, bounds>>

ReadCluster(c) ==
  /\ pc = "clusters" /\ c \in left
  /\ left' = left \ {c}
  /\ some' = (some \/ c \in config)
  /\ UNCHANGED <<vcenter, pc, clusters, fail, verdict, open, changed, bounds>>

NoneOfThem == ~some

ClustersRead ==
  /\ pc = "clusters" /\ left = {}
  /\ Blame("clusterUuid", clusters # {} /\ NoneOfThem)
  /\ left' = HostsIn(clusters) /\ some' = FALSE
  /\ pc' = "hosts"
  /\ UNCHANGED <<vcenter, clusters, verdict, open, changed, bounds>>

ReadHost(h) ==
  /\ pc = "hosts" /\ h \in left
  /\ left' = left \ {h}
  /\ some' = (some \/ h \in node)
  /\ UNCHANGED <<vcenter, pc, clusters, fail, verdict, open, changed, bounds>>

AnyHosts == HostsIn(clusters) # {}

HostsRead ==
  /\ pc = "hosts" /\ left = {}
  /\ Blame("nodeUuid", AnyHosts /\ NoneOfThem)
  /\ pc' = "told"
  /\ UNCHANGED <<vcenter, clusters, left, some, verdict, open, changed, bounds>>

Disconnect == open' = open - 1

Tell ==
  /\ pc = "told"
  /\ Disconnect
  /\ verdict' = IF fail # {} THEN "orphaning" ELSE "healthy"
  /\ pc' = "off"
  /\ UNCHANGED <<vcenter, found, changed, bounds>>

(* The names of clusters and hosts, the view and the list of a cluster's    *)
(* hosts are read without a try: an error ends the diagnosis.               *)
Raises ==
  /\ pc \in {"about", "view", "clusters", "hosts"}
  /\ Disconnect
  /\ verdict' = "raised" /\ pc' = "off"
  /\ UNCHANGED <<vcenter, found, changed, bounds>>

Killed ==
  /\ pc # "off" /\ kills < MaxKills
  /\ kills' = kills + 1 /\ pc' = "off"
  /\ UNCHANGED <<vcenter, found, verdict, open, changed, changes, runs>>

Next ==
  \/ Change \/ Login \/ InstanceUuid \/ View
  \/ (\E c \in Clusters : ReadCluster(c)) \/ ClustersRead
  \/ (\E h \in Hosts : ReadHost(h)) \/ HostsRead \/ Tell \/ Raises \/ Killed

Spec == Init /\ [][Next]_diagnosisVars

-----------------------------------------------------------------------------
(* A diagnosis of a vCenter that did not change calls it healthy only if    *)
(* the adapter attaches a cluster, and a host where there are hosts, of     *)
(* what its walk meets: each link of the chain was followed                 *)
(* (diagnose_parents.py:49-108).                                            *)
HealthyAttachesSome ==
  verdict = "healthy" /\ ~changed =>
    /\ about /\ shown \cap config # {}
    /\ shown \subseteq walked =>
         /\ Attached \cap Clusters # {}
         /\ HostsIn(shown) # {} => Attached \cap Hosts # {}

(* A cause that is named, of a vCenter that did not change, keeps the       *)
(* adapter from attaching what it is said to: everything, or the clusters,  *)
(* or the hosts but those with one name everywhere                          *)
(* (diagnose_parents.py:54-56, 65-67, 83-86, 105-108).                                   *)
CausesAreReal ==
  pc = "off" /\ ~changed =>
    /\ fail \cap {"instanceUuid", "clusters"} # {} => Attached = {}
    /\ "clusterUuid" \in fail => Attached \cap Clusters = {}
    /\ "nodeUuid" \in fail => HostsIn(shown) # {} /\ Attached \cap Hosts \subseteq alike

(* A diagnosis that ends, as it should or with an error, leaves no session  *)
(* at the vCenter; one that is killed leaves one                            *)
(* (diagnose_parents.py:109-110).                                           *)
LeavesNoSession == open = kills + (IF pc = "off" THEN 0 ELSE 1)

=============================================================================
