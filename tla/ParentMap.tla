----------------------------- MODULE ParentMap -----------------------------
(***************************************************************************)
(* Which vCenter object each of this pack's objects hangs off              *)
(* (app/perfsvc.py build_parent_map, app/adapter.py _vc_parent).           *)
(*                                                                         *)
(* The inventory is walked with one remote read after another: clusters    *)
(* and their hosts, the hosts' physical disks, the virtual machines.       *)
(* Hosts and machines vanish and disks move while the walk goes on, and a  *)
(* read of an object that has vanished raises.  Each part of the walk has  *)
(* its own idea of how much an exception costs.                            *)
(***************************************************************************)
EXTENDS Naturals, FiniteSets

CONSTANTS
  Clusters, Hosts, Vms,  \* managed object references
  Disks, Vdisks,         \* vSAN disk uuids, datastore paths of virtual disks
  HostNames,             \* spellings of host names
  Short,                 \* Short[n]: n up to its first dot
  None,                  \* no entry in a map; no place in the inventory
  MaxFaults,             \* bound: failed reads in a behaviour
  MaxMoves               \* bound: objects that vanish or move in a behaviour

Moids == Clusters \cup Hosts \cup Vms

ASSUME ConstantsOK ==
  /\ None \notin Moids
  /\ Hosts \cap (Disks \cup Vdisks) = {}
  /\ Short \in [HostNames -> HostNames]
  /\ MaxFaults \in Nat
  /\ MaxMoves \in Nat

VARIABLES
  place,     \* inventory: where a host, machine, disk or virtual disk is
  vcName,    \* the name vCenter shows for a host
  vsanName,  \* the host name the Performance Service reports for a node
  opaque,    \* hosts whose vsanSystem cannot be read
  vcid,      \* the vCenter instance UUID could be read
  pc,        \* where the walk is
  left,      \* clusters that this part of the walk has still to visit
  cluster,   \* the cluster whose hosts are being read
  todo,      \* hosts or machines still to be read
  byName,    \* by_name: alias -> host of this cluster
  out,       \* the map: bucket -> identifier -> managed object reference
  named,     \* out.names: objects whose real name is known
  cache,     \* vc_cache: the parents that are going to be stated
  linked,    \* objects of this pack that found a parent
  blamed,    \* history: <<part of the walk, object>> that was not read
  moved,     \* history: what vanished or moved
  faults     \* failed reads so far

inventory == <<place, vcName, vsanName, opaque>>
vars == <<inventory, vcid, pc, left, cluster, todo, byName, out, named, cache,
          linked, blamed, moved, faults>>

-----------------------------------------------------------------------------
(* Every object of this pack is known by one identifier, in one bucket. A  *)
(* cluster's, host's or machine's identifier is written as its reference.  *)
Members == [clusters |-> Clusters, hosts |-> Hosts, vms |-> Vms,
            disks |-> Disks, vdisks |-> Vdisks]

Buckets == DOMAIN Members

VcKind == [clusters |-> "ClusterComputeResource", hosts |-> "HostSystem",
           vms |-> "VirtualMachine", disks |-> "HostSystem",
           vdisks |-> "VirtualMachine"]

NoMap == [clusters |-> [u \in Clusters |-> None], hosts |-> [u \in Hosts |-> None],
          vms |-> [u \in Vms |-> None], disks |-> [u \in Disks |-> None],
          vdisks |-> [u \in Vdisks |-> None]]

NoAlias == [n \in HostNames |-> None]

HostsOf(k) == {h \in Hosts : place[h] = k}

Init ==
  /\ place \in [Hosts \cup Vms \cup Disks \cup Vdisks -> Clusters \cup Hosts \cup Vms]
  /\ \A h \in Hosts \cup Vms : place[h] \in Clusters
  /\ \A d \in Disks : place[d] \in Hosts
  /\ \A x \in Vdisks : place[x] \in Vms
  /\ vcName \in [Hosts -> HostNames]
  /\ \A g, h \in Hosts : vcName[g] = vcName[h] => g = h
  /\ vsanName \in [Hosts -> HostNames]
  /\ opaque \in SUBSET Hosts
  /\ vcid = FALSE
  /\ pc = "start"
  /\ left = {}
  /\ cluster = None
  /\ todo = {}
  /\ byName = NoAlias
  /\ out = NoMap
  /\ named = {}
  /\ cache = {}
  /\ linked = {}
  /\ blamed = {}
  /\ moved = {}
  /\ faults = 0

Fault == faults < MaxFaults /\ faults' = faults + 1

Gone(m) == place[m] = None

(* A read of m raises: it has left the inventory, or the call failed.      *)
Raises(m) == \/ Gone(m) /\ UNCHANGED faults
             \/ ~Gone(m) /\ Fault

-----------------------------------------------------------------------------
(* vCenter, between two reads. *)
Change(m, p) ==
  /\ place[m] # p
  /\ place[m] # None
  /\ moved' = moved \cup {m}
  /\ Cardinality(moved') <= MaxMoves
  /\ place' = [place EXCEPT ![m] = p]
  /\ UNCHANGED <<vcName, vsanName, opaque, vcid, pc, left, cluster, todo, byName,
                 out, named, cache, linked, blamed, faults>>

Vanish(m) == Change(m, None)

-----------------------------------------------------------------------------
local == <<inventory, vcid, cache, linked, moved>>

(* content.about.instanceUuid: without it there is no map. *)
ReadVcid ==
  /\ pc = "start"
  /\ vcid' = TRUE
  /\ left' = Clusters
  /\ pc' = "clusters"
  /\ UNCHANGED <<inventory, cluster, todo, byName, out, named, cache, linked,
                 blamed, moved, faults>>

VcidUnreadable ==
  /\ pc = "start"
  /\ Fault
  /\ pc' = "attach"
  /\ UNCHANGED <<local, left, cluster, todo, byName, out, named, blamed>>

Blame(part, ms) == blamed' = blamed \cup ({part} \X ms)

(* The vSAN uuid of the cluster, then its name; one try around both.       *)
ReadCluster(k) ==
  /\ pc = "clusters"
  /\ k \in left
  /\ \/ /\ out' = [out EXCEPT !.clusters[k] = k]
        /\ named' = named \cup {k}
        /\ UNCHANGED <<blamed, faults>>
     \/ /\ out' = [out EXCEPT !.clusters[k] = k]
        /\ Fault
        /\ UNCHANGED <<named, blamed>>
     \/ /\ Fault
        /\ Blame("clusters", {k})
        /\ UNCHANGED <<out, named>>
  /\ left' = left \ {k}
  /\ cluster' = k
  /\ byName' = NoAlias
  /\ pc' = "list"
  /\ UNCHANGED <<local, todo>>

(* cluster.host is read outside every try. *)
ListHosts ==
  /\ pc = "list"
  /\ todo' = HostsOf(cluster)
  /\ pc' = "hosts"
  /\ UNCHANGED <<local, left, cluster, byName, out, named, blamed, faults>>

ListRaises ==
  /\ pc = "list"
  /\ Fault
  /\ pc' = "raised"
  /\ UNCHANGED <<local, left, cluster, todo, byName, out, named, blamed>>

Aliases(n) == {n, Short[n]}

(* The first host of a cluster to claim an alias keeps it. *)
WithAliases(h) ==
  [n \in HostNames |-> IF byName[n] = None /\ n \in Aliases(vcName[h])
                         THEN h ELSE byName[n]]

(* The name, the vSAN node uuid and the name again are read one by one. *)
ReadHost(h) ==
  /\ pc = "hosts"
  /\ h \in todo
  /\ ~Gone(h)
  /\ named' = named \cup {h}
  /\ out' = IF h \in opaque THEN out ELSE [out EXCEPT !.hosts[h] = h]
  /\ \/ byName' = WithAliases(h) /\ UNCHANGED faults
     \/ UNCHANGED byName /\ Fault
  /\ todo' = todo \ {h}
  /\ UNCHANGED <<local, pc, left, cluster, blamed>>

(* Variant: the first host that raises ends the loop. *)
HostRaiseStops(h) ==
  /\ pc = "hosts"
  /\ h \in todo
  /\ Raises(h)
  /\ todo' = {}
  /\ Blame("hosts", {h})
  /\ UNCHANGED <<local, pc, left, cluster, byName, out, named>>

(* A host whose name cannot be read is skipped, the others are not. *)
HostRaises(h) ==
  /\ pc = "hosts"
  /\ h \in todo
  /\ Raises(h)
  /\ todo' = todo \ {h}
  /\ Blame("hosts", {h})
  /\ UNCHANGED <<local, pc, left, cluster, byName, out, named>>

(* The host a node's reported name resolves to: as it is, then shortened.  *)
Match(n) == IF byName[n] # None THEN byName[n] ELSE byName[Short[n]]

(* Variant: the join on names replaces what the node uuids gave. *)
MatchedOverUuid ==
  [u \in Hosts |-> IF place[u] = cluster /\ Match(vsanName[u]) # None
                     THEN Match(vsanName[u]) ELSE out.hosts[u]]

Matched ==
  [u \in Hosts |-> IF place[u] = cluster /\ out.hosts[u] = None
                     THEN Match(vsanName[u]) ELSE out.hosts[u]]

NextCluster == pc' = IF left = {} THEN "disks" ELSE "clusters"

(* The fallback for hosts without a node uuid: a join on names. *)
QueryNodes ==
  /\ pc = "hosts"
  /\ todo = {}
  /\ out' = [out EXCEPT !.hosts = Matched]
  /\ NextCluster
  /\ UNCHANGED <<local, left, cluster, todo, byName, named, blamed, faults>>

NodesRaise ==
  /\ pc = "hosts"
  /\ todo = {}
  /\ Fault
  /\ NextCluster
  /\ UNCHANGED <<local, left, cluster, todo, byName, out, named, blamed>>

-----------------------------------------------------------------------------
(* Physical disks: one try around the walk, one around each host's query.  *)
ListDiskHosts ==
  /\ pc = "disks"
  /\ todo' = {h \in Hosts : ~Gone(h)}
  /\ pc' = "disk_hosts"
  /\ UNCHANGED <<local, left, cluster, byName, out, named, blamed, faults>>

DisksOn(h) == {d \in Disks : place[d] = h}

WithDisks(ds, h) ==
  [out EXCEPT !.disks = [d \in Disks |-> IF d \in ds THEN h ELSE out.disks[d]]]

ReadDisks(h) ==
  /\ pc = "disk_hosts"
  /\ h \in todo
  /\ ~Gone(h)
  /\ out' = WithDisks(DisksOn(h), h)
  /\ named' = IF DisksOn(h) = {} THEN named ELSE named \cup {h}
  /\ todo' = todo \ {h}
  /\ UNCHANGED <<local, pc, left, cluster, byName, blamed, faults>>

DisksRaise(h) ==
  /\ pc = "disk_hosts"
  /\ h \in todo
  /\ Raises(h)
  /\ todo' = todo \ {h}
  /\ Blame("disks", {h})
  /\ UNCHANGED <<local, pc, left, cluster, byName, out, named>>

(* host.name raises after a disk of it has been mapped, and the walk ends. *)
DiskHostNameRaises(h) ==
  /\ pc = "disk_hosts"
  /\ h \in todo
  /\ \E d \in DisksOn(h) : out' = WithDisks({d}, h)
  /\ Fault
  /\ todo' = {}
  /\ Blame("disks", todo)
  /\ UNCHANGED <<local, pc, left, cluster, byName, named>>

(* The host list of a later cluster cannot be read, and the walk ends. *)
DiskListRaises ==
  /\ pc = "disk_hosts"
  /\ todo # {}
  /\ Fault
  /\ todo' = {}
  /\ Blame("disks", todo)
  /\ UNCHANGED <<local, pc, left, cluster, byName, out, named>>

-----------------------------------------------------------------------------
(* Virtual machines and their disks: one try around the whole walk.        *)
ListVms ==
  /\ pc = "disk_hosts"
  /\ todo = {}
  /\ todo' = {v \in Vms : ~Gone(v)}
  /\ pc' = "vms"
  /\ UNCHANGED <<local, left, cluster, byName, out, named, blamed, faults>>

VmListRaises ==
  /\ pc = "disk_hosts"
  /\ todo = {}
  /\ Fault
  /\ pc' = "attach"
  /\ Blame("vms", Vms)
  /\ UNCHANGED <<local, left, cluster, todo, byName, out, named>>

WithVm(v, paths) ==
  [out EXCEPT !.vms[v] = v,
              !.vdisks = [x \in Vdisks |-> IF x \in paths THEN v ELSE out.vdisks[x]]]

ReadVm(v) ==
  /\ pc = "vms"
  /\ v \in todo
  /\ ~Gone(v)
  /\ out' = WithVm(v, {x \in Vdisks : place[x] = v})
  /\ named' = named \cup {v}
  /\ todo' = todo \ {v}
  /\ UNCHANGED <<local, pc, left, cluster, byName, blamed, faults>>

(* A machine without a config is skipped. *)
VmWithoutConfig(v) ==
  /\ pc = "vms"
  /\ v \in todo
  /\ Fault
  /\ todo' = todo \ {v}
  /\ Blame("vms", {v})
  /\ UNCHANGED <<local, pc, left, cluster, byName, out, named>>

(* The machine is gone, or was mapped and then its name could not be read: *)
(* either way the machines that are left are not mapped.                   *)
VmRaises(v) ==
  /\ pc = "vms"
  /\ v \in todo
  /\ \/ Raises(v) /\ UNCHANGED out
     \/ ~Gone(v) /\ Fault /\ out' = WithVm(v, {})
  /\ todo' = {}
  /\ Blame("vms", todo)
  /\ UNCHANGED <<local, pc, left, cluster, byName, named>>

-----------------------------------------------------------------------------
(* _vc_parent: one entry of the cache per vCenter object, named as vCenter *)
(* names it, and by its reference where the name is not known.             *)
CacheKey(b, m) == <<VcKind[b], m>>

Entry(b, m) == [key |-> CacheKey(b, m), kind |-> VcKind[b], moid |-> m,
                name |-> IF m \in named THEN "real" ELSE "moid"]

Ours == UNION {{b} \X Members[b] : b \in Buckets}

Attach ==
  /\ \/ pc = "attach"
     \/ pc = "vms" /\ todo = {}
  /\ linked' = {o \in Ours : vcid /\ out[o[1]][o[2]] # None}
  /\ cache' = {Entry(o[1], out[o[1]][o[2]]) : o \in linked'}
  /\ pc' = "done"
  /\ UNCHANGED <<inventory, vcid, left, cluster, todo, byName, out, named,
                 blamed, moved, faults>>

Next ==
  \/ \E m \in Hosts \cup Vms : Vanish(m)
  \/ \E d \in Disks, h \in Hosts : Change(d, h)
  \/ \E x \in Vdisks, v \in Vms : Change(x, v)
  \/ ReadVcid \/ VcidUnreadable
  \/ \E k \in Clusters : ReadCluster(k)
  \/ ListHosts \/ ListRaises
  \/ \E h \in Hosts : ReadHost(h) \/ HostRaises(h)
  \/ QueryNodes \/ NodesRaise
  \/ ListDiskHosts \/ DiskListRaises
  \/ \E h \in Hosts : ReadDisks(h) \/ DisksRaise(h) \/ DiskHostNameRaises(h)
  \/ ListVms \/ VmListRaises
  \/ \E v \in Vms : ReadVm(v) \/ VmWithoutConfig(v) \/ VmRaises(v)
  \/ Attach

Spec == Init /\ [][Next]_vars

-----------------------------------------------------------------------------
(* A host is taken for another one only when the uuid of the first could   *)
(* not be read and an alias of the name vSAN reports for it is an alias of *)
(* the other; and a host that anything is attached to has its real name.   *)
MistakenOnlyByAlias ==
  \A u \in Hosts :
    LET h == out.hosts[u]
    IN  h # None =>
          /\ h \in named
          /\ h # u => /\ u \in opaque \/ <<"hosts", u>> \in blamed \/ u \in moved
                      /\ Aliases(vsanName[u]) \cap Aliases(vcName[h]) # {}

(* No two parents in a result are the same vCenter object: Operations'     *)
(* library raises on the second and the collection is lost.                *)
OneEntryPerParent ==
  \A e, f \in cache : e.kind = f.kind /\ e.moid = f.moid => e = f

(* The parents a result refers to are the objects that are meant, once each *)
(* (perfsvc.py:467-635, adapter.py:245-275).                                *)
ParentsAreRight == MistakenOnlyByAlias /\ OneEntryPerParent

Parent(b, u) == IF b \in {"disks", "vdisks"} THEN place[u] ELSE u

Part == [clusters |-> "clusters", hosts |-> "hosts", disks |-> "disks",
         vms |-> "vms", vdisks |-> "vms"]

Moved(b, u) == u \in moved \/ Parent(b, u) \in moved

(* A failed read, a machine that vanished: each orphans what it was read   *)
(* for, and what its part of the walk had still to read, and nothing else. *)
(* What neither moved nor lost its parent is mapped truly.                 *)
OrphansExplained ==
  pc = "done" /\ vcid =>
    \A o \in Ours :
      LET b == o[1]  u == o[2]
      IN  \/ Moved(b, u)
          \/ o \in linked /\ (b # "hosts" => out[b][u] = Parent(b, u))
          \/ o \notin linked /\ \/ b = "hosts" /\ u \in opaque
                                \/ <<Part[b], Parent(b, u)>> \in blamed
=============================================================================
