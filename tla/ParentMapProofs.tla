-------------------------- MODULE ParentMapProofs --------------------------
(***************************************************************************)
(* Theorems about ParentMap and, after it, about the ResourceIndex that    *)
(* the parents are looked up in, for every value of their constants.       *)
(***************************************************************************)
EXTENDS ParentMap, ResourceIndex, SequenceTheorems, FiniteSetTheorems, TLAPS

(* The part of the type that the two properties below rest on. *)
MapType ==
  /\ place \in [Hosts \cup Vms \cup Disks \cup Vdisks -> Moids \cup {None}]
  /\ cluster \in Clusters \cup {None}
  /\ byName \in [HostNames -> Hosts \cup {None}]
  /\ vsanName \in [Hosts -> HostNames]
  /\ vcName \in [Hosts -> HostNames]
  /\ out \in [clusters : [Clusters -> Clusters \cup {None}],
              hosts : [Hosts -> Hosts \cup {None}], vms : [Vms -> Vms \cup {None}],
              disks : [Disks -> Hosts \cup {None}],
              vdisks : [Vdisks -> Vms \cup {None}]]

(* An alias leads to a host of that alias whose name is known. *)
AliasesLead ==
  \A n \in HostNames :
    byName[n] # None => byName[n] \in named /\ n \in Aliases(vcName[byName[n]])

Excused(u) == u \in opaque \/ <<"hosts", u>> \in blamed \/ u \in moved

(* While a cluster's hosts are read, one that is neither mapped nor still  *)
(* to be read has an excuse.                                               *)
ReadOrExcused ==
  /\ pc \in {"list", "hosts"} => cluster \in Clusters
  /\ pc = "hosts" => \A u \in Hosts : place[u] = cluster =>
       u \in todo \/ out.hosts[u] # None \/ Excused(u)

HostEntry(u) ==
  LET h == out.hosts[u]
  IN  h # None => /\ h \in named
                  /\ h # u => /\ Excused(u)
                              /\ Aliases(vsanName[u]) \cap Aliases(vcName[h]) # {}

Entries ==
  /\ cache # {} => pc = "done"
  /\ \A e \in cache :
       /\ e.key = <<e.kind, e.moid>>
       /\ e = [key |-> e.key, kind |-> e.kind, moid |-> e.moid,
               name |-> IF e.moid \in named THEN "real" ELSE "moid"]

MapInv ==
  /\ MapType
  /\ AliasesLead
  /\ ReadOrExcused
  /\ \A u \in Hosts : HostEntry(u)
  /\ Entries

LEMMA InitInv == Init => MapInv
<1> SUFFICES ASSUME Init PROVE MapInv
  OBVIOUS
<1>1. MapType
  BY DEF Init, MapType, NoAlias, NoMap, Moids
<1>2. AliasesLead
  BY DEF Init, AliasesLead, NoAlias
<1>3. ReadOrExcused /\ Entries
  BY DEF Init, ReadOrExcused, Entries
<1>4. \A u \in Hosts : HostEntry(u)
  BY DEF Init, HostEntry, NoMap
<1>5. QED BY <1>1, <1>2, <1>3, <1>4 DEF MapInv

(* What the hosts of the walk keep when neither they nor their names are   *)
(* touched, and what is known only grows.                                  *)
Quiet ==
  /\ UNCHANGED <<vcName, vsanName, opaque, cluster, byName>>
  /\ out.hosts' = out.hosts
  /\ named \subseteq named'
  /\ blamed \subseteq blamed'
  /\ moved \subseteq moved'

LEMMA QuietKeeps ==
  ASSUME MapInv, Quiet
  PROVE  AliasesLead' /\ \A u \in Hosts : HostEntry(u)'
<1>1. AliasesLead'
  BY DEF MapInv, AliasesLead, Quiet, Aliases
<1>2. ASSUME NEW u \in Hosts PROVE HostEntry(u)'
  <2>1. HostEntry(u)
    BY <1>2 DEF MapInv
  <2>2. Excused(u) => Excused(u)'
    BY DEF Quiet, Excused
  <2>3. QED BY <2>1, <2>2 DEF Quiet, HostEntry, Aliases
<1>3. QED BY <1>1, <1>2

LEMMA ChangeKeeps ==
  ASSUME MapInv, NEW m \in Hosts \cup Vms \cup Disks \cup Vdisks,
         NEW p \in Moids \cup {None}, Change(m, p),
         m \in Hosts => p = None
  PROVE  MapInv'
<1>1. MapType'
  BY DEF MapInv, MapType, Change
<1>2. Quiet
  BY DEF Change, Quiet
<1>3. ReadOrExcused'
  <2> SUFFICES ASSUME pc = "hosts", NEW u \in Hosts, place'[u] = cluster
               PROVE  (u \in todo \/ out.hosts[u] # None \/ Excused(u)')
    BY DEF Change, ReadOrExcused, MapInv
  <2>1. cluster \in Clusters /\ cluster # None
    BY ConstantsOK DEF MapInv, ReadOrExcused, Moids
  <2>2. CASE u = m
    BY <2>1, <2>2 DEF MapInv, MapType, Change
  <2>3. CASE u # m
    BY <2>3 DEF MapInv, MapType, ReadOrExcused, Change, Excused
  <2>4. QED BY <2>2, <2>3
<1>4. Entries'
  BY DEF MapInv, Entries, Change
<1>5. QED BY <1>1, <1>2, <1>3, <1>4, QuietKeeps DEF MapInv

(* A step of the walk that leaves the host map alone, outside the reading  *)
(* of a cluster's hosts.                                                   *)
LEMMA StepKeeps ==
  ASSUME MapInv, Quiet, MapType', pc' \notin {"list", "hosts"}, pc # "done",
         cache' = cache
  PROVE  MapInv'
<1>1. Entries'
  BY DEF MapInv, Entries
<1>2. ReadOrExcused'
  BY DEF ReadOrExcused
<1>3. QED BY <1>1, <1>2, QuietKeeps DEF MapInv

LEMMA InvStep == MapInv /\ [Next]_vars => MapInv'
<1> SUFFICES ASSUME MapInv, [Next]_vars PROVE MapInv'
  OBVIOUS
<1> USE DEF local, inventory
<1>1. ASSUME NEW m \in Hosts \cup Vms, Vanish(m) PROVE MapInv'
  BY <1>1, ChangeKeeps DEF Vanish
<1>2. ASSUME NEW d \in Disks, NEW h \in Hosts, Change(d, h) PROVE MapInv'
  BY <1>2, ChangeKeeps, ConstantsOK DEF Moids
<1>3. ASSUME NEW x \in Vdisks, NEW v \in Vms, Change(x, v) PROVE MapInv'
  BY <1>3, ChangeKeeps, ConstantsOK DEF Moids
<1>4. CASE ReadVcid \/ VcidUnreadable
  <2>1. Quiet /\ MapType' /\ pc' \notin {"list", "hosts"} /\ pc # "done" /\ cache' = cache
    BY <1>4 DEF ReadVcid, VcidUnreadable, Quiet, MapInv, MapType
  <2>2. QED BY <2>1, StepKeeps
<1>5. ASSUME NEW k \in Clusters, ReadCluster(k) PROVE MapInv'
  <2>1. MapType'
    BY <1>5 DEF ReadCluster, MapInv, MapType, NoAlias
  <2>2. AliasesLead'
    BY <1>5 DEF ReadCluster, AliasesLead, NoAlias
  <2>3. ReadOrExcused' /\ Entries'
    BY <1>5 DEF ReadCluster, ReadOrExcused, MapInv, Entries
  <2>4. ASSUME NEW u \in Hosts PROVE HostEntry(u)'
    <3>1. out.hosts' = out.hosts /\ named \subseteq named' /\ blamed \subseteq blamed'
      BY <1>5 DEF ReadCluster, MapInv, MapType, Blame
    <3>2. HostEntry(u)
      BY DEF MapInv
    <3>3. QED BY <1>5, <3>1, <3>2 DEF ReadCluster, HostEntry, Excused, Aliases
  <2>5. QED BY <2>1, <2>2, <2>3, <2>4 DEF MapInv
<1>6. CASE ListHosts
  <2>1. Quiet /\ MapType'
    BY <1>6 DEF ListHosts, Quiet, MapInv, MapType
  <2>2. ReadOrExcused' /\ Entries'
    BY <1>6 DEF ListHosts, ReadOrExcused, HostsOf, MapInv, MapType, Entries
  <2>3. QED BY <2>1, <2>2, QuietKeeps DEF MapInv
<1>7. CASE ListRaises
  <2>1. Quiet /\ MapType' /\ pc' \notin {"list", "hosts"} /\ pc # "done" /\ cache' = cache
    BY <1>7 DEF ListRaises, Quiet, MapInv, MapType
  <2>2. QED BY <2>1, StepKeeps
<1>8. ASSUME NEW h \in Hosts, ReadHost(h) PROVE MapInv'
  <2>1. /\ out' = IF h \in opaque THEN out ELSE [out EXCEPT !.hosts[h] = h]
        /\ byName' \in {byName, WithAliases(h)}
        /\ named' = named \cup {h} /\ todo' = todo \ {h}
        /\ UNCHANGED <<place, vcName, vsanName, opaque, cluster, blamed, moved, pc, cache>>
        /\ pc = "hosts"
    BY <1>8 DEF ReadHost
  <2>2. MapType'
    BY <2>1 DEF MapInv, MapType, WithAliases
  <2>3. \A u \in Hosts : out.hosts'[u] = IF u = h /\ h \notin opaque THEN h ELSE out.hosts[u]
    BY <2>1 DEF MapInv, MapType
  <2>4. AliasesLead'
    <3> SUFFICES ASSUME NEW n \in HostNames, byName'[n] # None
                 PROVE  byName'[n] \in named' /\ n \in Aliases(vcName[byName'[n]])
      BY <2>1 DEF AliasesLead, Aliases
    <3>1. CASE byName' = byName
      BY <2>1, <3>1 DEF MapInv, AliasesLead
    <3>2. CASE byName' = WithAliases(h)
      BY <2>1, <3>2 DEF MapInv, AliasesLead, WithAliases
    <3>3. QED BY <2>1, <3>1, <3>2
  <2>5. ReadOrExcused'
    <3>1. h \in Hosts /\ h # None
      BY ConstantsOK DEF Moids
    <3>2. QED BY <2>1, <2>3, <3>1 DEF MapInv, ReadOrExcused, Excused
  <2>6. Entries'
    BY <2>1 DEF MapInv, Entries
  <2>7. ASSUME NEW u \in Hosts PROVE HostEntry(u)'
    <3>1. HostEntry(u)
      BY DEF MapInv
    <3>2. QED BY <2>1, <2>3, <3>1 DEF HostEntry, Excused, Aliases
  <2>8. QED BY <2>2, <2>4, <2>5, <2>6, <2>7 DEF MapInv
<1>9. ASSUME NEW h \in Hosts, HostRaises(h) PROVE MapInv'
  <2>1. Quiet /\ MapType'
    BY <1>9 DEF HostRaises, Raises, Quiet, MapInv, MapType, Blame
  <2>2. ReadOrExcused'
    BY <1>9 DEF HostRaises, ReadOrExcused, MapInv, Excused, Blame
  <2>3. Entries'
    BY <1>9 DEF HostRaises, MapInv, Entries
  <2>4. QED BY <2>1, <2>2, <2>3, QuietKeeps DEF MapInv
<1>10. CASE QueryNodes
  <2>1. /\ out' = [out EXCEPT !.hosts = Matched]
        /\ pc = "hosts" /\ todo = {} /\ pc' \in {"disks", "clusters"}
        /\ UNCHANGED <<place, vcName, vsanName, opaque, cluster, byName, named,
                       blamed, moved, cache>>
    BY <1>10 DEF QueryNodes, NextCluster
  <2>2. \A u \in Hosts : Match(vsanName[u]) \in Hosts \cup {None}
    BY ConstantsOK DEF Match, MapInv, MapType
  <2>3. MapType'
    BY <2>1, <2>2 DEF Matched, MapInv, MapType
  <2>4. AliasesLead' /\ ReadOrExcused' /\ Entries'
    BY <2>1 DEF MapInv, AliasesLead, ReadOrExcused, Entries, Aliases
  <2>5. ASSUME NEW u \in Hosts PROVE HostEntry(u)'
    <3>1. HostEntry(u) /\ out.hosts' = Matched
      BY <2>1 DEF MapInv, MapType
    <3>2. CASE place[u] = cluster /\ out.hosts[u] = None
      <4> DEFINE h == Match(vsanName[u])
      <4>1. out.hosts'[u] = h
        BY <3>1, <3>2 DEF Matched
      <4>2. Excused(u)
        BY <2>1, <3>2 DEF MapInv, ReadOrExcused
      <4>3. h # None => h \in named /\ \E n \in Aliases(vsanName[u]) : n \in Aliases(vcName[h])
        <5>1. vsanName[u] \in HostNames /\ Short[vsanName[u]] \in HostNames
          BY ConstantsOK DEF MapInv, MapType
        <5>2. CASE byName[vsanName[u]] # None
          BY <5>1, <5>2 DEF Match, MapInv, AliasesLead, Aliases
        <5>3. CASE byName[vsanName[u]] = None
          BY <5>1, <5>3 DEF Match, MapInv, AliasesLead, Aliases
        <5>4. QED BY <5>2, <5>3
      <4>4. CASE h = None
        BY <4>1, <4>4 DEF HostEntry
      <4>5. CASE h # None
        <5>1. h \in named' /\ Aliases(vsanName'[u]) \cap Aliases(vcName'[h]) # {}
          BY <2>1, <4>3, <4>5 DEF Aliases
        <5>2. Excused(u)'
          BY <2>1, <4>2 DEF Excused
        <5>3. QED BY <4>1, <5>1, <5>2 DEF HostEntry, Aliases
      <4>6. QED BY <4>4, <4>5
    <3>3. CASE ~(place[u] = cluster /\ out.hosts[u] = None)
      <4>1. out.hosts'[u] = out.hosts[u]
        BY <3>1, <3>3 DEF Matched
      <4>2. QED BY <2>1, <3>1, <4>1 DEF HostEntry, Excused, Aliases
    <3>4. QED BY <3>2, <3>3
  <2>6. QED BY <2>3, <2>4, <2>5 DEF MapInv
<1>11. CASE NodesRaise
  <2>1. Quiet /\ MapType' /\ pc' \notin {"list", "hosts"} /\ pc # "done" /\ cache' = cache
    BY <1>11 DEF NodesRaise, NextCluster, Quiet, MapInv, MapType
  <2>2. QED BY <2>1, StepKeeps
<1>12. CASE ListDiskHosts \/ DiskListRaises \/ ListVms \/ VmListRaises
  <2>1. Quiet /\ MapType' /\ pc' \notin {"list", "hosts"} /\ pc # "done" /\ cache' = cache
    BY <1>12 DEF ListDiskHosts, DiskListRaises, ListVms, VmListRaises, Blame, Quiet, MapInv, MapType
  <2>2. QED BY <2>1, StepKeeps
<1>13. ASSUME NEW h \in Hosts, ReadDisks(h) \/ DisksRaise(h) \/ DiskHostNameRaises(h)
       PROVE MapInv'
  <2>1. UNCHANGED <<place, vcName, vsanName, opaque, cluster, byName, moved, pc, cache>>
        /\ named \subseteq named' /\ blamed \subseteq blamed' /\ pc = "disk_hosts"
    BY <1>13 DEF ReadDisks, DisksRaise, DiskHostNameRaises, Blame
  <2>2. out' = out \/ \E ds \in SUBSET Disks : out' = WithDisks(ds, h)
    BY <1>13 DEF ReadDisks, DisksRaise, DiskHostNameRaises, DisksOn
  <2>3. MapType' /\ out.hosts' = out.hosts
    BY <2>1, <2>2 DEF MapInv, MapType, WithDisks
  <2>4. Quiet
    BY <2>1, <2>3 DEF Quiet
  <2>5. QED BY <2>1, <2>3, <2>4, StepKeeps
<1>14. ASSUME NEW v \in Vms, ReadVm(v) \/ VmWithoutConfig(v) \/ VmRaises(v)
       PROVE MapInv'
  <2>1. UNCHANGED <<place, vcName, vsanName, opaque, cluster, byName, moved, pc, cache>>
        /\ named \subseteq named' /\ blamed \subseteq blamed' /\ pc = "vms"
    BY <1>14 DEF ReadVm, VmWithoutConfig, VmRaises, Blame
  <2>2. out' = out \/ \E paths \in SUBSET Vdisks : out' = WithVm(v, paths)
    BY <1>14 DEF ReadVm, VmWithoutConfig, VmRaises
  <2>3. MapType' /\ out.hosts' = out.hosts
    <3>1. CASE out' = out
      BY <2>1, <3>1 DEF MapInv, MapType
    <3>2. ASSUME NEW paths \in SUBSET Vdisks, out' = WithVm(v, paths)
          PROVE  MapType' /\ out.hosts' = out.hosts
      <4>1. [out.vms EXCEPT ![v] = v] \in [Vms -> Vms \cup {None}]
        BY DEF MapInv, MapType
      <4>2. [x \in Vdisks |-> IF x \in paths THEN v ELSE out.vdisks[x]]
              \in [Vdisks -> Vms \cup {None}]
        BY DEF MapInv, MapType
      <4>3. QED BY <2>1, <3>2, <4>1, <4>2 DEF MapInv, MapType, WithVm
    <3>3. QED BY <2>2, <3>1, <3>2
  <2>4. Quiet
    BY <2>1, <2>3 DEF Quiet
  <2>5. QED BY <2>1, <2>3, <2>4, StepKeeps
<1>15. CASE Attach
  <2>1. Quiet /\ MapType' /\ pc' = "done" /\ named' = named
    BY <1>15 DEF Attach, Quiet, MapInv, MapType
  <2>2. ReadOrExcused'
    BY <2>1 DEF ReadOrExcused
  <2>3. Entries'
    <3>1. \A e \in cache' : \E b, m : e = Entry(b, m)
      BY <1>15 DEF Attach
    <3>2. QED BY <2>1, <3>1 DEF Entries, Entry, CacheKey
  <2>4. QED BY <2>1, <2>2, <2>3, QuietKeeps DEF MapInv
<1>16. CASE UNCHANGED vars
  <2>1. Quiet /\ MapType' /\ ReadOrExcused' /\ Entries'
    BY <1>16 DEF vars, Quiet, MapInv, MapType, ReadOrExcused, Entries, Excused
  <2>2. QED BY <2>1, QuietKeeps DEF MapInv
<1>17. QED
  BY <1>1, <1>2, <1>3, <1>4, <1>5, <1>6, <1>7, <1>8, <1>9, <1>10, <1>11, <1>12,
     <1>13, <1>14, <1>15, <1>16 DEF Next

THEOREM MapInvariant == Spec => []MapInv
  BY InitInv, InvStep, PTL DEF Spec

(* A host is only taken for another of the same alias, and is always named. *)
THEOREM HostsAreRight == Spec => []MistakenOnlyByAlias
<1>1. MapInv => MistakenOnlyByAlias
  BY DEF MapInv, MistakenOnlyByAlias, HostEntry, Excused
<1>2. QED BY <1>1, MapInvariant, PTL

(* A vCenter object enters a result once. *)
THEOREM ParentsAreUnique == Spec => []OneEntryPerParent
<1>1. MapInv => OneEntryPerParent
  BY DEF MapInv, Entries, OneEntryPerParent
<1>2. QED BY <1>1, MapInvariant, PTL

(* build_parent_map and _vc_parent: whatever fails or moves during the     *)
(* walk, a parent is the object that is meant, or one that shares an alias *)
(* with a host whose uuid could not be read, and it enters a result once.  *)
THEOREM ParentsAreTheirs == Spec => []ParentsAreRight
<1>1. MistakenOnlyByAlias /\ OneEntryPerParent => ParentsAreRight
  BY DEF ParentsAreRight
<1>2. QED BY <1>1, HostsAreRight, ParentsAreUnique, PTL

-----------------------------------------------------------------------------
(* What is still to come for an object, in the part of the walk that reads *)
(* it: the cluster, host or machine to be read.                            *)
Early == {"clusters", "list", "hosts", "disks"}

HostPending(u) ==
  \/ place[u] \in left
  \/ place[u] = cluster /\ (pc = "list" \/ (pc = "hosts" /\ u \in todo))
DisksPending(h) == pc \in Early \/ (pc = "disk_hosts" /\ h \in todo)
VmPending(v) == pc \in Early \cup {"disk_hosts"} \/ (pc = "vms" /\ v \in todo)

(* What did not move is where it was at the beginning. *)
Settled ==
  /\ \A m \in (Hosts \cup Vms) \ moved : place[m] \in Clusters
  /\ \A d \in Disks \ moved : place[d] \in Hosts
  /\ \A x \in Vdisks \ moved : place[x] \in Vms

(* What is mapped at all is mapped truly, hosts apart. *)
TrulyMapped ==
  /\ \A k \in Clusters : out.clusters[k] \in {None, k}
  /\ \A d \in Disks \ moved : out.disks[d] \in {None, place[d]}
  /\ \A v \in Vms : out.vms[v] \in {None, v}
  /\ \A x \in Vdisks \ moved : out.vdisks[x] \in {None, place[x]}

(* What is neither still to come nor mapped has an explanation. *)
ClustersAccounted ==
  \A k \in Clusters :
    k \in left \/ out.clusters[k] # None \/ <<"clusters", k>> \in blamed
HostsAccounted ==
  \A u \in Hosts \ moved :
    \/ HostPending(u) \/ out.hosts[u] # None
    \/ u \in opaque \/ <<"hosts", u>> \in blamed
DisksAccounted ==
  \A d \in Disks \ moved : place[d] \in moved
    \/ DisksPending(place[d]) \/ out.disks[d] # None \/ <<"disks", place[d]>> \in blamed
VmsAccounted ==
  \A v \in Vms \ moved :
    VmPending(v) \/ out.vms[v] # None \/ <<"vms", v>> \in blamed
VdisksAccounted ==
  \A x \in Vdisks \ moved : place[x] \in moved
    \/ VmPending(place[x]) \/ out.vdisks[x] # None \/ <<"vms", place[x]>> \in blamed

Accounted ==
  /\ ClustersAccounted
  /\ HostsAccounted
  /\ DisksAccounted
  /\ VmsAccounted
  /\ VdisksAccounted

(* A walk that has a map and was not ended by the list of a cluster's hosts *)
(* accounts for every object.                                              *)
Walking == vcid /\ pc # "raised"

Stages ==
  /\ pc = "start" => ~vcid
  /\ Walking /\ pc \notin {"clusters", "list", "hosts"} => left = {}
  /\ Walking /\ pc = "done" => linked = {o \in Ours : out[o[1]][o[2]] # None}

WalkInv ==
  /\ Settled
  /\ TrulyMapped
  /\ Walking => Accounted
  /\ Stages

LEMMA WalkInit == Init => WalkInv
<1> SUFFICES ASSUME Init PROVE WalkInv
  OBVIOUS
<1>1. Settled
  BY DEF Init, Settled
<1>2. TrulyMapped
  BY DEF Init, TrulyMapped, NoMap
<1>3. Stages /\ ~Walking
  BY DEF Init, Stages, Walking
<1>4. QED BY <1>1, <1>2, <1>3 DEF WalkInv

(* A change of the inventory explains what it touches. *)
LEMMA ChangeExplained ==
  ASSUME MapInv, WalkInv, NEW m \in Hosts \cup Vms \cup Disks \cup Vdisks, NEW p,
         Change(m, p)
  PROVE  WalkInv'
<1> USE DEF local, inventory
<1>1. /\ moved' = moved \cup {m} /\ place' = [place EXCEPT ![m] = p]
      /\ UNCHANGED <<vcid, pc, left, cluster, todo, out, linked, blamed, opaque>>
  BY DEF Change
<1>2. \A o \in (Hosts \cup Vms \cup Disks \cup Vdisks) \ moved' :
        o \notin moved /\ place'[o] = place[o]
  BY <1>1 DEF MapInv, MapType
<1>3. Settled'
  BY <1>1, <1>2 DEF WalkInv, Settled
<1>4. TrulyMapped'
  BY <1>1, <1>2 DEF WalkInv, TrulyMapped
<1>5. Walking => Accounted'
  <2> SUFFICES ASSUME Walking PROVE Accounted'
    OBVIOUS
  <2>1. ClustersAccounted'
    BY <1>1 DEF WalkInv, Accounted, ClustersAccounted
  <2>2. HostsAccounted'
    <3>1. HostsAccounted
      BY DEF WalkInv, Accounted
    <3>2. \A u \in Hosts \ moved' : u \in Hosts \ moved /\ place'[u] = place[u]
      BY <1>2
    <3>3. \A u \in Hosts \ moved' : HostPending(u) => HostPending(u)'
      BY <1>1, <3>2 DEF HostPending
    <3>4. QED BY <1>1, <3>1, <3>2, <3>3 DEF HostsAccounted
  <2>3. DisksAccounted'
    BY <1>1, <1>2 DEF WalkInv, Accounted, DisksAccounted, DisksPending, Early
  <2>4. VmsAccounted'
    BY <1>1, <1>2 DEF WalkInv, Accounted, VmsAccounted, VmPending, Early
  <2>5. VdisksAccounted'
    BY <1>1, <1>2 DEF WalkInv, Accounted, VdisksAccounted, VmPending, Early
  <2>6. QED BY <2>1, <2>2, <2>3, <2>4, <2>5 DEF Accounted
<1>6. Stages'
  BY <1>1 DEF WalkInv, Stages, Walking, Ours, Buckets, Members
<1>7. QED BY <1>1, <1>3, <1>4, <1>5, <1>6 DEF WalkInv, Walking

(* A step of the walk leaves the inventory alone and forgets nothing.      *)
Read ==
  /\ UNCHANGED <<place, moved, opaque, vcid>>
  /\ blamed \subseteq blamed'

(* The part of the walk that reads virtual machines is still to come. *)
LEMMA VmsUntouched ==
  ASSUME Read, VmsAccounted, VdisksAccounted,
         out'.vms = out.vms, out'.vdisks = out.vdisks,
         pc' \in Early \cup {"disk_hosts"}
  PROVE  VmsAccounted' /\ VdisksAccounted'
  BY DEF Read, VmsAccounted, VdisksAccounted, VmPending

(* So is the part that reads the physical disks. *)
LEMMA DisksUntouched ==
  ASSUME Read, DisksAccounted, out'.disks = out.disks, pc' \in Early
  PROVE  DisksAccounted'
  BY DEF Read, DisksAccounted, DisksPending

(* A step that comes after the hosts. *)
LEMMA HostsUntouched ==
  ASSUME Read, Walking, WalkInv, pc \notin {"clusters", "list", "hosts"},
         out'.clusters = out.clusters, out'.hosts = out.hosts, left' = left
  PROVE  ClustersAccounted' /\ HostsAccounted'
<1>1. left = {} /\ ClustersAccounted /\ HostsAccounted
  BY DEF WalkInv, Stages, Accounted
<1>2. QED BY <1>1 DEF Read, ClustersAccounted, HostsAccounted, HostPending

LEMMA WalkStep == MapInv /\ MapInv' /\ WalkInv /\ [Next]_vars => WalkInv'
<1> SUFFICES ASSUME MapInv, MapInv', WalkInv, [Next]_vars PROVE WalkInv'
  OBVIOUS
<1> USE DEF local, inventory
<1>0. /\ Settled /\ TrulyMapped /\ Stages
      /\ Walking => /\ ClustersAccounted /\ HostsAccounted /\ DisksAccounted
                    /\ VmsAccounted /\ VdisksAccounted
  BY DEF WalkInv, Accounted
<1>1. ASSUME NEW m \in Hosts \cup Vms, Vanish(m) PROVE WalkInv'
  BY <1>1, ChangeExplained DEF Vanish
<1>2. ASSUME NEW d \in Disks, NEW h \in Hosts, Change(d, h) PROVE WalkInv'
  BY <1>2, ChangeExplained
<1>3. ASSUME NEW x \in Vdisks, NEW v \in Vms, Change(x, v) PROVE WalkInv'
  BY <1>3, ChangeExplained
<1>4. CASE ReadVcid
  <2>1. UNCHANGED <<place, moved, opaque, out, linked, blamed>> /\ pc' = "clusters" /\ left' = Clusters
    BY <1>4 DEF ReadVcid
  <2>2. Settled' /\ TrulyMapped' /\ Stages'
    BY <1>0, <2>1 DEF Settled, TrulyMapped, Stages
  <2>3. ClustersAccounted'
    BY <2>1 DEF ClustersAccounted
  <2>4. HostsAccounted'
    <3>1. \A u \in Hosts \ moved : place[u] \in Clusters
      BY <1>0 DEF Settled
    <3>2. \A u \in Hosts \ moved' : place'[u] \in left'
      BY <2>1, <3>1
    <3>3. QED BY <3>2 DEF HostsAccounted, HostPending
  <2>5. DisksAccounted' /\ VmsAccounted' /\ VdisksAccounted'
    BY <2>1 DEF DisksAccounted, VmsAccounted, VdisksAccounted, DisksPending, VmPending, Early
  <2>6. QED BY <2>2, <2>3, <2>4, <2>5 DEF WalkInv, Accounted
<1>5. CASE VcidUnreadable
  <2>1. UNCHANGED <<place, moved, out, linked, vcid>> /\ ~vcid /\ pc' = "attach"
    BY <1>0, <1>5 DEF VcidUnreadable, Stages
  <2>2. QED BY <1>0, <2>1 DEF WalkInv, Settled, TrulyMapped, Stages, Walking
<1>6. ASSUME NEW k \in Clusters, ReadCluster(k) PROVE WalkInv'
  <2>1. /\ Read /\ pc = "clusters" /\ pc' = "list" /\ k \in left
        /\ left' = left \ {k} /\ cluster' = k
        /\ \/ out' = [out EXCEPT !.clusters[k] = k]
           \/ out' = out /\ <<"clusters", k>> \in blamed'
    BY <1>6 DEF ReadCluster, Read, Blame
  <2>2. /\ UNCHANGED <<out.hosts, out.vms, out.disks, out.vdisks>>
        /\ \A c \in Clusters : \/ out'.clusters[c] = out.clusters[c]
                               \/ c = k /\ out'.clusters[c] = k
        /\ (out'.clusters[k] = k \/ <<"clusters", k>> \in blamed')
    BY <2>1 DEF MapInv, MapType
  <2>3. Settled' /\ TrulyMapped' /\ Stages'
    BY <1>0, <2>1, <2>2 DEF Read, Settled, TrulyMapped, Stages, Walking
  <2>4. ASSUME Walking PROVE Accounted'
    <3>1. ClustersAccounted'
      <4>1. k # None /\ ClustersAccounted
        BY <1>0, <2>4, ConstantsOK DEF Moids
      <4>2. QED BY <2>1, <2>2, <4>1 DEF Read, ClustersAccounted
    <3>2. HostsAccounted'
      BY <1>0, <2>1, <2>2, <2>4 DEF Read, HostsAccounted, HostPending
    <3>3. DisksAccounted' /\ VmsAccounted' /\ VdisksAccounted'
      BY <1>0, <2>1, <2>2, <2>4, DisksUntouched, VmsUntouched DEF Early
    <3>4. QED BY <3>1, <3>2, <3>3 DEF Accounted
  <2>5. QED BY <2>1, <2>3, <2>4 DEF WalkInv, Walking, Read
<1>7. CASE ListHosts
  <2>1. /\ Read /\ pc = "list" /\ pc' = "hosts" /\ todo' = HostsOf(cluster)
        /\ UNCHANGED <<out, left, cluster>>
    BY <1>7 DEF ListHosts, Read
  <2>2. Settled' /\ TrulyMapped' /\ Stages'
    BY <1>0, <2>1 DEF Read, Settled, TrulyMapped, Stages, Walking
  <2>3. ASSUME Walking PROVE Accounted'
    <3>1. ClustersAccounted'
      BY <1>0, <2>1, <2>3 DEF Read, ClustersAccounted
    <3>2. HostsAccounted'
      BY <1>0, <2>1, <2>3 DEF Read, HostsAccounted, HostPending, HostsOf
    <3>3. DisksAccounted' /\ VmsAccounted' /\ VdisksAccounted'
      BY <1>0, <2>1, <2>3, DisksUntouched, VmsUntouched DEF Early
    <3>4. QED BY <3>1, <3>2, <3>3 DEF Accounted
  <2>4. QED BY <2>1, <2>2, <2>3 DEF WalkInv, Walking, Read
<1>8. CASE ListRaises
  <2>1. UNCHANGED <<place, moved, out, vcid>> /\ pc' = "raised"
    BY <1>8 DEF ListRaises
  <2>2. QED BY <1>0, <2>1 DEF WalkInv, Settled, TrulyMapped, Stages, Walking
<1>9. ASSUME NEW h \in Hosts, ReadHost(h) \/ HostRaises(h) PROVE WalkInv'
  <2>1. /\ Read /\ pc = "hosts" /\ todo' = todo \ {h} /\ UNCHANGED <<pc, left, cluster>>
        /\ \/ out' = [out EXCEPT !.hosts[h] = h]
           \/ out' = out /\ (h \in opaque \/ <<"hosts", h>> \in blamed')
    BY <1>9 DEF ReadHost, HostRaises, Read, Blame
  <2>2. /\ UNCHANGED <<out.clusters, out.vms, out.disks, out.vdisks>>
        /\ \A u \in Hosts \ {h} : out'.hosts[u] = out.hosts[u]
        /\ (out'.hosts[h] = h \/ h \in opaque \/ <<"hosts", h>> \in blamed')
    BY <2>1 DEF MapInv, MapType
  <2>3. Settled' /\ TrulyMapped' /\ Stages'
    BY <1>0, <2>1, <2>2 DEF Read, Settled, TrulyMapped, Stages, Walking
  <2>4. ASSUME Walking PROVE Accounted'
    <3>1. ClustersAccounted'
      BY <1>0, <2>1, <2>2, <2>4 DEF Read, ClustersAccounted
    <3>2. HostsAccounted'
      <4> SUFFICES ASSUME NEW u \in Hosts \ moved
                   PROVE  (HostPending(u) \/ out.hosts[u] # None
                             \/ u \in opaque \/ <<"hosts", u>> \in blamed)'
        BY <2>1 DEF Read, HostsAccounted
      <4>1. CASE u # h
        BY <1>0, <2>1, <2>2, <2>4, <4>1 DEF Read, HostsAccounted, HostPending
      <4>2. CASE u = h
        <5>1. h # None /\ opaque' = opaque
          BY <2>1, ConstantsOK DEF Read, Moids
        <5>2. QED BY <2>2, <4>2, <5>1
      <4>3. QED BY <4>1, <4>2
    <3>3. DisksAccounted' /\ VmsAccounted' /\ VdisksAccounted'
      BY <1>0, <2>1, <2>2, <2>4, DisksUntouched, VmsUntouched DEF Early
    <3>4. QED BY <3>1, <3>2, <3>3 DEF Accounted
  <2>5. QED BY <2>1, <2>3, <2>4 DEF WalkInv, Walking, Read
<1>10. CASE QueryNodes \/ NodesRaise
  <2>1. /\ Read /\ pc = "hosts" /\ todo = {} /\ UNCHANGED <<left, cluster, todo>>
        /\ pc' = IF left = {} THEN "disks" ELSE "clusters"
        /\ out' = out \/ out' = [out EXCEPT !.hosts = Matched]
    BY <1>10 DEF QueryNodes, NodesRaise, NextCluster, Read
  <2>2. /\ UNCHANGED <<out.clusters, out.vms, out.disks, out.vdisks>>
        /\ \A u \in Hosts : out.hosts[u] # None => out'.hosts[u] # None
    BY <2>1 DEF MapInv, MapType, Matched
  <2>3. Settled' /\ TrulyMapped' /\ Stages'
    BY <1>0, <2>1, <2>2 DEF Read, Settled, TrulyMapped, Stages, Walking
  <2>4. ASSUME Walking PROVE Accounted'
    <3>1. ClustersAccounted'
      BY <1>0, <2>1, <2>2, <2>4 DEF Read, ClustersAccounted
    <3>2. HostsAccounted'
      BY <1>0, <2>1, <2>2, <2>4 DEF Read, HostsAccounted, HostPending
    <3>3. DisksAccounted' /\ VmsAccounted' /\ VdisksAccounted'
      BY <1>0, <2>1, <2>2, <2>4, DisksUntouched, VmsUntouched DEF Early
    <3>4. QED BY <3>1, <3>2, <3>3 DEF Accounted
  <2>5. QED BY <2>1, <2>3, <2>4 DEF WalkInv, Walking, Read
<1>11. CASE ListDiskHosts
  <2>1. /\ Read /\ pc = "disks" /\ pc' = "disk_hosts" /\ UNCHANGED <<left, out>>
        /\ todo' = {h \in Hosts : ~Gone(h)}
    BY <1>11 DEF ListDiskHosts, Read
  <2>2. Settled' /\ TrulyMapped' /\ Stages'
    BY <1>0, <2>1 DEF Read, Settled, TrulyMapped, Stages, Walking
  <2>3. ASSUME Walking PROVE Accounted'
    <3>1. ClustersAccounted' /\ HostsAccounted'
      BY <2>1, <2>3, HostsUntouched
    <3>2. DisksAccounted'
      <4>1. \A h \in Hosts \ moved : h \in todo'
        BY <1>0, <2>1, ConstantsOK DEF Settled, Gone, Moids
      <4>2. QED BY <1>0, <2>1, <4>1 DEF Read, DisksAccounted, DisksPending, Settled
    <3>3. VmsAccounted' /\ VdisksAccounted'
      BY <1>0, <2>1, <2>3, VmsUntouched DEF Early
    <3>4. QED BY <3>1, <3>2, <3>3 DEF Accounted
  <2>4. QED BY <2>1, <2>2, <2>3 DEF WalkInv, Walking, Read
<1>12. ASSUME NEW h \in Hosts,
              ReadDisks(h) \/ DisksRaise(h) \/ DiskHostNameRaises(h) \/ DiskListRaises
       PROVE  WalkInv'
  <2>1. /\ Read /\ pc = "disk_hosts" /\ UNCHANGED <<pc, left>>
        /\ \E ds \in SUBSET DisksOn(h) :
             /\ (out' = out /\ ds = {}) \/ out' = WithDisks(ds, h)
             /\ \A g \in todo \ todo' : <<"disks", g>> \in blamed' \/ (g = h /\ ds = DisksOn(h))
    <3>1. CASE ReadDisks(h)
      BY <3>1 DEF ReadDisks, Read
    <3>2. CASE DisksRaise(h)
      <4>1. {} \in SUBSET DisksOn(h)
        OBVIOUS
      <4>2. QED BY <3>2, <4>1 DEF DisksRaise, Read, Blame
    <3>3. CASE DiskHostNameRaises(h)
      BY <3>3 DEF DiskHostNameRaises, Read, Blame
    <3>4. CASE DiskListRaises
      BY <3>4 DEF DiskListRaises, Read, Blame
    <3>5. QED BY <1>12, <3>1, <3>2, <3>3, <3>4
  <2>2. PICK ds \in SUBSET DisksOn(h) :
          /\ (out' = out /\ ds = {}) \/ out' = WithDisks(ds, h)
          /\ \A g \in todo \ todo' : <<"disks", g>> \in blamed' \/ (g = h /\ ds = DisksOn(h))
    BY <2>1
  <2>3. /\ UNCHANGED <<out.clusters, out.hosts, out.vms, out.vdisks>>
        /\ \A d \in Disks : out'.disks[d] = IF d \in ds THEN h ELSE out.disks[d]
    BY <2>2 DEF MapInv, MapType, WithDisks
  <2>4. Settled' /\ Stages'
    BY <1>0, <2>1 DEF Read, Settled, Stages, Walking
  <2>5. TrulyMapped'
    BY <1>0, <2>1, <2>2, <2>3 DEF Read, TrulyMapped, DisksOn
  <2>6. ASSUME Walking PROVE Accounted'
    <3>1. ClustersAccounted' /\ HostsAccounted'
      BY <2>1, <2>3, <2>6, HostsUntouched
    <3>2. DisksAccounted'
      <4> SUFFICES ASSUME NEW d \in Disks \ moved, place[d] \notin moved
                   PROVE  (DisksPending(place[d]) \/ out.disks[d] # None
                             \/ <<"disks", place[d]>> \in blamed)'
        BY <2>1 DEF Read, DisksAccounted
      <4>1. CASE d \in ds
        BY <2>3, <4>1, ConstantsOK DEF Moids
      <4>2. CASE d \notin ds
        BY <1>0, <2>1, <2>2, <2>3, <2>6, <4>2 DEF Read, DisksAccounted, DisksPending, DisksOn, Early
      <4>3. QED BY <4>1, <4>2
    <3>3. VmsAccounted' /\ VdisksAccounted'
      BY <1>0, <2>1, <2>3, <2>6, VmsUntouched DEF Early
    <3>4. QED BY <3>1, <3>2, <3>3 DEF Accounted
  <2>7. QED BY <2>1, <2>4, <2>5, <2>6 DEF WalkInv, Walking, Read
<1>13. CASE DiskListRaises
  <2>1. CASE Hosts # {}
    BY <1>12, <1>13, <2>1
  <2>2. CASE Hosts = {}
    <3>1. Read /\ pc = "disk_hosts" /\ UNCHANGED <<pc, left, out>>
      BY <1>13 DEF DiskListRaises, Read, Blame
    <3>2. Settled' /\ TrulyMapped' /\ Stages'
      BY <1>0, <3>1 DEF Read, Settled, TrulyMapped, Stages, Walking
    <3>3. ASSUME Walking PROVE Accounted'
      <4>1. ClustersAccounted' /\ HostsAccounted'
        BY <3>1, <3>3, HostsUntouched
      <4>2. DisksAccounted'
        BY <1>0, <2>2, <3>1 DEF Read, DisksAccounted, Settled
      <4>3. VmsAccounted' /\ VdisksAccounted'
        BY <1>0, <3>1, <3>3, VmsUntouched DEF Early
      <4>4. QED BY <4>1, <4>2, <4>3 DEF Accounted
    <3>4. QED BY <3>1, <3>2, <3>3 DEF WalkInv, Walking, Read
  <2>3. QED BY <2>1, <2>2
<1>14. CASE ListVms \/ VmListRaises
  <2>1. /\ Read /\ pc = "disk_hosts" /\ todo = {} /\ UNCHANGED <<left, out>>
        /\ \/ pc' = "vms" /\ todo' = {v \in Vms : ~Gone(v)}
           \/ pc' = "attach" /\ \A v \in Vms : <<"vms", v>> \in blamed'
    BY <1>14 DEF ListVms, VmListRaises, Read, Blame
  <2>2. Settled' /\ TrulyMapped' /\ Stages'
    BY <1>0, <2>1 DEF Read, Settled, TrulyMapped, Stages, Walking
  <2>3. ASSUME Walking PROVE Accounted'
    <3>1. ClustersAccounted' /\ HostsAccounted'
      BY <2>1, <2>3, HostsUntouched
    <3>2. DisksAccounted'
      BY <1>0, <2>1, <2>3 DEF Read, DisksAccounted, DisksPending, Early
    <3>3. \A v \in Vms \ moved : VmPending(v)' \/ <<"vms", v>> \in blamed'
      BY <1>0, <2>1, ConstantsOK DEF VmPending, Settled, Gone, Moids
    <3>4. VmsAccounted'
      BY <2>1, <3>3 DEF Read, VmsAccounted
    <3>5. VdisksAccounted'
      BY <1>0, <2>1, <3>3 DEF Read, VdisksAccounted, Settled
    <3>6. QED BY <3>1, <3>2, <3>4, <3>5 DEF Accounted
  <2>4. QED BY <2>1, <2>2, <2>3 DEF WalkInv, Walking, Read
<1>15. ASSUME NEW v \in Vms, ReadVm(v) \/ VmWithoutConfig(v) \/ VmRaises(v)
       PROVE  WalkInv'
  <2> DEFINE On == {x \in Vdisks : place[x] = v}
  <2>1. /\ Read /\ pc = "vms" /\ UNCHANGED <<pc, left>>
        /\ \/ out' = WithVm(v, On) /\ todo' = todo \ {v}
           \/ /\ out' = out \/ out' = WithVm(v, {})
              /\ \A w \in todo \ todo' : <<"vms", w>> \in blamed'
    <3>1. CASE ReadVm(v)
      BY <3>1 DEF ReadVm, Read
    <3>2. CASE VmWithoutConfig(v)
      BY <3>2 DEF VmWithoutConfig, Read, Blame
    <3>3. CASE VmRaises(v)
      BY <3>3 DEF VmRaises, Read, Blame
    <3>4. QED BY <1>15, <3>1, <3>2, <3>3
  <2>2. /\ UNCHANGED <<out.clusters, out.hosts, out.disks>>
        /\ \A w \in Vms : out'.vms[w] = out.vms[w] \/ (w = v /\ out'.vms[w] = v)
        /\ \A x \in Vdisks : \/ out'.vdisks[x] = out.vdisks[x]
                             \/ x \in On /\ out'.vdisks[x] = v
        /\ out' = WithVm(v, On) => /\ out'.vms[v] = v
                                   /\ \A x \in On : out'.vdisks[x] = v
    <3>1. CASE out' = out
      <4>1. out # WithVm(v, On) \/ (out.vms[v] = v /\ \A x \in On : out.vdisks[x] = v)
        BY DEF MapInv, MapType, WithVm
      <4>2. QED BY <3>1, <4>1
    <3>2. ASSUME NEW paths \in {{}, On}, out' = WithVm(v, paths)
          PROVE  /\ UNCHANGED <<out.clusters, out.hosts, out.disks>>
                 /\ out'.vms = [out.vms EXCEPT ![v] = v]
                 /\ out'.vdisks = [x \in Vdisks |-> IF x \in paths THEN v ELSE out.vdisks[x]]
      BY <3>2 DEF MapInv, MapType, WithVm
    <3>3. CASE out' = WithVm(v, {}) /\ out' # WithVm(v, On)
      BY <3>2, <3>3 DEF MapInv, MapType
    <3>4. CASE out' = WithVm(v, On)
      BY <3>2, <3>4, ZenonT(60) DEF MapInv, MapType
    <3>5. QED BY <2>1, <3>1, <3>3, <3>4
  <2>3. Settled' /\ Stages'
    BY <1>0, <2>1 DEF Read, Settled, Stages, Walking
  <2>4. TrulyMapped'
    BY <1>0, <2>1, <2>2 DEF Read, TrulyMapped
  <2>5. ASSUME Walking PROVE Accounted'
    <3>0. v # None
      BY ConstantsOK DEF Moids
    <3>1. ClustersAccounted' /\ HostsAccounted'
      BY <2>1, <2>2, <2>5, HostsUntouched
    <3>2. DisksAccounted'
      BY <1>0, <2>1, <2>2, <2>5 DEF Read, DisksAccounted, DisksPending, Early
    <3>3. VmsAccounted'
      BY <1>0, <2>1, <2>2, <2>5, <3>0 DEF Read, VmsAccounted, VmPending, Early
    <3>4. VdisksAccounted'
      BY <1>0, <2>1, <2>2, <2>5, <3>0 DEF Read, VdisksAccounted, VmPending, Early
    <3>5. QED BY <3>1, <3>2, <3>3, <3>4 DEF Accounted
  <2>6. QED BY <2>1, <2>3, <2>4, <2>5 DEF WalkInv, Walking, Read
<1>16. CASE Attach
  <2>1. /\ Read /\ UNCHANGED <<left, out, todo>> /\ pc' = "done"
        /\ pc = "attach" \/ (pc = "vms" /\ todo = {})
        /\ linked' = {o \in Ours : vcid /\ out[o[1]][o[2]] # None}
    BY <1>16 DEF Attach, Read
  <2>2. Settled' /\ TrulyMapped'
    BY <1>0, <2>1 DEF Read, Settled, TrulyMapped
  <2>3. Stages'
    BY <1>0, <2>1 DEF Read, Stages, Walking, Ours, Buckets, Members
  <2>4. ASSUME Walking PROVE Accounted'
    <3>1. ClustersAccounted' /\ HostsAccounted'
      BY <2>1, <2>4, HostsUntouched
    <3>2. DisksAccounted'
      BY <1>0, <2>1, <2>4 DEF Read, DisksAccounted, DisksPending, Early
    <3>3. VmsAccounted'
      BY <1>0, <2>1, <2>4 DEF Read, VmsAccounted, VmPending, Early
    <3>4. VdisksAccounted'
      BY <1>0, <2>1, <2>4 DEF Read, VdisksAccounted, VmPending, Early
    <3>5. QED BY <3>1, <3>2, <3>3, <3>4 DEF Accounted
  <2>5. QED BY <2>1, <2>2, <2>3, <2>4 DEF WalkInv, Walking, Read
<1>17. CASE UNCHANGED vars
  <2>1. UNCHANGED <<place, moved, opaque, vcid, pc, left, cluster, todo, out, linked, blamed>>
    BY <1>17 DEF vars
  <2>2. Settled' /\ TrulyMapped' /\ Stages'
    BY <1>0, <2>1 DEF Settled, TrulyMapped, Stages, Walking, Ours, Buckets, Members
  <2>3. Walking => ClustersAccounted' /\ HostsAccounted' /\ DisksAccounted'
    BY <1>0, <2>1 DEF ClustersAccounted, HostsAccounted, DisksAccounted, HostPending, DisksPending, Early
  <2>4. Walking => VmsAccounted' /\ VdisksAccounted'
    BY <1>0, <2>1 DEF VmsAccounted, VdisksAccounted, VmPending, Early
  <2>5. QED BY <2>1, <2>2, <2>3, <2>4 DEF WalkInv, Accounted, Walking
<1>18. QED
  BY <1>1, <1>2, <1>3, <1>4, <1>5, <1>6, <1>7, <1>8, <1>9, <1>10, <1>11, <1>12,
     <1>13, <1>14, <1>15, <1>16, <1>17 DEF Next

(* build_parent_map: an object without a parent is one whose own read, or  *)
(* whose parent's, is known to have failed, and every other one hangs off  *)
(* the object that it is on.                                               *)
THEOREM OrphansAreExplained == Spec => []OrphansExplained
<1>1. MapInv /\ WalkInv => OrphansExplained
  <2> SUFFICES ASSUME MapInv, WalkInv, pc = "done", vcid, NEW o \in Ours,
                      ~Moved(o[1], o[2])
               PROVE  \/ o \in linked /\ (o[1] # "hosts" => out[o[1]][o[2]] = Parent(o[1], o[2]))
                      \/ o \notin linked /\ \/ o[1] = "hosts" /\ o[2] \in opaque
                                            \/ <<Part[o[1]], Parent(o[1], o[2])>> \in blamed
    BY DEF OrphansExplained
  <2>1. /\ Accounted /\ TrulyMapped /\ left = {}
        /\ linked = {q \in Ours : out[q[1]][q[2]] # None}
    BY DEF WalkInv, Walking, Stages
  <2>2. o \in linked <=> out[o[1]][o[2]] # None
    BY <2>1
  <2>3. PICK b \in Buckets : o[1] = b /\ o[2] \in Members[b]
    BY DEF Ours
  <2>4. o[2] \notin moved /\ Parent(o[1], o[2]) \notin moved
    BY DEF Moved
  <2>5. CASE b = "clusters"
    BY <2>1, <2>2, <2>3, <2>5 DEF Accounted, ClustersAccounted, TrulyMapped, Members, Parent, Part
  <2>6. CASE b = "hosts"
    BY <2>1, <2>2, <2>3, <2>4, <2>6 DEF Accounted, HostsAccounted, HostPending, Members, Parent, Part
  <2>7. CASE b = "vms"
    BY <2>1, <2>2, <2>3, <2>4, <2>7 DEF Accounted, VmsAccounted, VmPending, Early, TrulyMapped, Members, Parent, Part
  <2>8. CASE b = "disks"
    BY <2>1, <2>2, <2>3, <2>4, <2>8 DEF Accounted, DisksAccounted, DisksPending, Early, TrulyMapped, Members, Parent, Part
  <2>9. CASE b = "vdisks"
    BY <2>1, <2>2, <2>3, <2>4, <2>9 DEF Accounted, VdisksAccounted, VmPending, Early, TrulyMapped, Members, Parent, Part
  <2>10. QED BY <2>3, <2>5, <2>6, <2>7, <2>8, <2>9 DEF Buckets, Members
<1>2. Spec => []WalkInv
  BY InitInv, InvStep, WalkInit, WalkStep, PTL DEF Spec
<1>3. QED BY <1>1, <1>2, MapInvariant, PTL

-----------------------------------------------------------------------------
(* ResourceIndex: the list the parents are then looked up in.              *)

(* A sequence with one more element, or one less. *)
LEMMA Removed ==
  ASSUME NEW S, NEW s \in Seq(S), NEW k \in 1..Len(s)
  PROVE  /\ RemoveAt(s, k) \in Seq(S) /\ Len(RemoveAt(s, k)) = Len(s) - 1
         /\ \A j \in 1..(Len(s) - 1) :
              RemoveAt(s, k)[j] = IF j < k THEN s[j] ELSE s[j + 1]
<1> DEFINE a == SubSeq(s, 1, k - 1)
           b == SubSeq(s, k + 1, Len(s))
<1>1. /\ Len(s) \in Nat /\ k \in Int /\ k - 1 \in Int /\ k + 1 \in Int
      /\ \A i \in 1..Len(s) : s[i] \in S
  BY LenProperties, ElementOfSeq
<1>2. /\ a \in Seq(S) /\ Len(a) = k - 1
      /\ \A i \in 1..(k - 1) : a[i] = s[i]
  <2>1. \A i \in 1..(k - 1) : s[i] \in S
    BY <1>1
  <2>2. /\ a \in Seq(S) /\ Len(a) = IF 1 <= k - 1 THEN (k - 1) - 1 + 1 ELSE 0
        /\ \A i \in 1..((k - 1) - 1 + 1) : a[i] = s[1 + i - 1]
    BY <1>1, <2>1, SubSeqProperties
  <2> HIDE DEF a
  <2>3. QED BY <1>1, <2>2
<1>3. /\ b \in Seq(S) /\ Len(b) = Len(s) - k
      /\ \A i \in 1..(Len(s) - k) : b[i] = s[k + i]
  <2>1. \A i \in (k + 1)..Len(s) : s[i] \in S
    BY <1>1
  <2>2. /\ b \in Seq(S) /\ Len(b) = IF k + 1 <= Len(s) THEN Len(s) - (k + 1) + 1 ELSE 0
        /\ \A i \in 1..(Len(s) - (k + 1) + 1) : b[i] = s[(k + 1) + i - 1]
    BY <1>1, <2>1, SubSeqProperties
  <2> HIDE DEF b
  <2>3. QED BY <1>1, <2>2
<1> HIDE DEF a, b
<1>4. /\ a \o b \in Seq(S) /\ Len(a \o b) = Len(a) + Len(b)
      /\ \A i \in 1..(Len(a) + Len(b)) : (a \o b)[i] = IF i <= Len(a) THEN a[i] ELSE b[i - Len(a)]
  BY <1>2, <1>3, ConcatProperties
<1>5. RemoveAt(s, k) = a \o b
  BY DEF RemoveAt, a, b
<1> DEFINE t == a \o b
<1> HIDE DEF t
<1>6. t \in Seq(S) /\ Len(t) = Len(s) - 1
  BY <1>1, <1>2, <1>3, <1>4 DEF t
<1>7. ASSUME NEW j \in 1..Len(t) PROVE t[j] = IF j < k THEN s[j] ELSE s[j + 1]
  <2>1. t[j] = IF j <= Len(a) THEN a[j] ELSE b[j - Len(a)]
    BY <1>1, <1>2, <1>3, <1>4, <1>6 DEF t
  <2>2. CASE j < k
    BY <1>1, <1>2, <2>1, <2>2
  <2>3. CASE j >= k
    <3>1. j - Len(a) = j - k + 1 /\ j - k + 1 \in 1..(Len(s) - k) /\ ~(j <= Len(a))
      BY <1>1, <1>2, <1>6, <2>3
    <3>2. b[j - k + 1] = s[k + (j - k + 1)] /\ k + (j - k + 1) = j + 1
      BY <1>1, <1>3, <3>1
    <3>3. QED BY <1>1, <2>1, <2>3, <3>1, <3>2
  <2>4. QED BY <1>1, <2>2, <2>3
<1>8. QED BY <1>5, <1>6, <1>7 DEF t

LEMMA Inserted ==
  ASSUME NEW S, NEW s \in Seq(S), NEW k \in 1..(Len(s) + 1), NEW e \in S
  PROVE  /\ InsertAt(s, k, e) \in Seq(S) /\ Len(InsertAt(s, k, e)) = Len(s) + 1
         /\ \A j \in 1..(Len(s) + 1) :
              InsertAt(s, k, e)[j] = IF j < k THEN s[j] ELSE IF j = k THEN e ELSE s[j - 1]
<1> DEFINE a == SubSeq(s, 1, k - 1)
           b == SubSeq(s, k, Len(s))
<1>1. /\ Len(s) \in Nat /\ k \in Int /\ k - 1 \in Int
      /\ \A i \in 1..Len(s) : s[i] \in S
  BY LenProperties, ElementOfSeq
<1>2. /\ a \in Seq(S) /\ Len(a) = k - 1
      /\ \A i \in 1..(k - 1) : a[i] = s[i]
  <2>1. \A i \in 1..(k - 1) : s[i] \in S
    BY <1>1
  <2>2. /\ a \in Seq(S) /\ Len(a) = IF 1 <= k - 1 THEN (k - 1) - 1 + 1 ELSE 0
        /\ \A i \in 1..((k - 1) - 1 + 1) : a[i] = s[1 + i - 1]
    BY <1>1, <2>1, SubSeqProperties
  <2> HIDE DEF a
  <2>3. QED BY <1>1, <2>2
<1>3. /\ b \in Seq(S) /\ Len(b) = Len(s) - k + 1
      /\ \A i \in 1..(Len(s) - k + 1) : b[i] = s[k + i - 1]
  <2>1. \A i \in k..Len(s) : s[i] \in S
    BY <1>1
  <2>2. /\ b \in Seq(S) /\ Len(b) = IF k <= Len(s) THEN Len(s) - k + 1 ELSE 0
        /\ \A i \in 1..(Len(s) - k + 1) : b[i] = s[k + i - 1]
    BY <1>1, <2>1, SubSeqProperties
  <2> HIDE DEF b
  <2>3. QED BY <1>1, <2>2
<1>4. <<e>> \in Seq(S) /\ Len(<<e>>) = 1 /\ <<e>>[1] = e
  OBVIOUS
<1> DEFINE c == <<e>>
           ac == a \o c
<1> HIDE DEF a, b, c
<1>5. /\ ac \in Seq(S) /\ Len(ac) = k
      /\ \A i \in 1..k : ac[i] = IF i < k THEN s[i] ELSE e
  <2>0. c \in Seq(S) /\ Len(c) = 1 /\ c[1] = e
    BY <1>4 DEF c
  <2>1. /\ ac \in Seq(S) /\ Len(ac) = Len(a) + Len(c)
        /\ \A i \in 1..(Len(a) + Len(c)) : ac[i] = IF i <= Len(a) THEN a[i] ELSE c[i - Len(a)]
    BY <1>2, <2>0, ConcatProperties
  <2> HIDE DEF ac
  <2>2. Len(ac) = k
    BY <1>1, <1>2, <2>0, <2>1
  <2>3. ASSUME NEW i \in 1..k PROVE ac[i] = IF i < k THEN s[i] ELSE e
    <3>1. CASE i < k
      BY <1>1, <1>2, <2>0, <2>1, <3>1
    <3>2. CASE i = k
      <4>1. i - Len(a) = 1 /\ ~(i <= Len(a)) /\ i \in 1..(Len(a) + Len(c))
        BY <1>1, <1>2, <2>0, <3>2
      <4>2. ac[i] = c[1]
        BY <2>1, <4>1
      <4>3. QED BY <2>0, <3>2, <4>2
    <3>3. QED BY <1>1, <3>1, <3>2
  <2>4. QED BY <2>1, <2>2, <2>3
<1> HIDE DEF ac
<1>6. /\ ac \o b \in Seq(S) /\ Len(ac \o b) = Len(ac) + Len(b)
      /\ \A i \in 1..(Len(ac) + Len(b)) : (ac \o b)[i] = IF i <= Len(ac) THEN ac[i] ELSE b[i - Len(ac)]
  BY <1>3, <1>5, ConcatProperties
<1>7. InsertAt(s, k, e) = ac \o b
  BY DEF InsertAt, a, b, c, ac
<1> DEFINE t == ac \o b
<1> HIDE DEF t
<1>8. t \in Seq(S) /\ Len(t) = Len(s) + 1
  BY <1>1, <1>3, <1>5, <1>6 DEF t
<1>9. ASSUME NEW j \in 1..(Len(s) + 1)
      PROVE  t[j] = IF j < k THEN s[j] ELSE IF j = k THEN e ELSE s[j - 1]
  <2>1. t[j] = IF j <= Len(ac) THEN ac[j] ELSE b[j - Len(ac)]
    BY <1>1, <1>3, <1>5, <1>6 DEF t
  <2>2. CASE j <= k
    BY <1>1, <1>5, <2>1, <2>2
  <2>3. CASE j > k
    <3>1. j - Len(ac) = j - k /\ j - k \in 1..(Len(s) - k + 1) /\ ~(j <= Len(ac))
      BY <1>1, <1>5, <2>3
    <3>2. b[j - k] = s[k + (j - k) - 1] /\ k + (j - k) - 1 = j - 1
      BY <1>1, <1>3, <3>1
    <3>3. QED BY <1>1, <2>1, <2>3, <3>1, <3>2
  <2>4. QED BY <1>1, <2>2, <2>3
<1>10. QED BY <1>7, <1>8, <1>9 DEF t

-----------------------------------------------------------------------------
(* At most one listed resource has an identity, and what was listed ever   *)
(* since is listed.                                                        *)
IndexType ==
  /\ listing \in Seq(Resources)
  /\ steady \subseteq Listed
  /\ index \in [Identities -> Resources \cup {Absent}]
  /\ loop \in {"fetching", "done"}
  /\ loop = "fetching" => raised = 0
  /\ page \in Nat /\ removals \in Nat /\ raised \in Nat

IdentitiesApart ==
  \A q, r \in Listed : Identity[q] = Identity[r] /\ Identity[q] # Absent => q = r

(* The places of the listing before f that the index should know of. *)
MissedBefore(f) == {at \in DOMAIN listing : at <= f /\ listing[at] \in Missed}

IndexInv ==
  /\ IndexType
  /\ IdentitiesApart
  /\ Cardinality(MissedBefore(Fetched)) <= removals

LEMMA ListingIs ==
  ASSUME IndexType
  PROVE  /\ Len(listing) \in Nat /\ DOMAIN listing = 1..Len(listing)
         /\ \A at \in 1..Len(listing) : listing[at] \in Resources /\ listing[at] \in Listed
         /\ \A r \in Listed : r \in Resources /\ \E at \in 1..Len(listing) : listing[at] = r
         /\ Fetched \in Nat /\ PageSize \in Nat \ {0}
<1>1. /\ Len(listing) \in Nat /\ DOMAIN listing = 1..Len(listing)
      /\ \A at \in 1..Len(listing) : listing[at] \in Resources
  BY LenProperties, ElementOfSeq DEF IndexType
<1>2. Listed = {listing[at] : at \in DOMAIN listing}
  BY DEF Listed, Range
<1>3. PageSize \in Nat \ {0} /\ page * PageSize \in Nat
  BY IndexConstantsOK DEF IndexType
<1>4. QED BY <1>1, <1>2, <1>3 DEF Fetched, IndexType

LEMMA MissedFinite ==
  ASSUME IndexType, NEW f
  PROVE  IsFiniteSet(MissedBefore(f)) /\ Cardinality(MissedBefore(f)) \in Nat
<1>1. IsFiniteSet(1..Len(listing)) /\ MissedBefore(f) \subseteq 1..Len(listing)
  BY ListingIs, FS_Interval DEF MissedBefore
<1>2. QED BY <1>1, FS_Subset, FS_CardinalityType

LEMMA IndexInit == InitIndex => IndexInv
<1> SUFFICES ASSUME InitIndex PROVE IndexInv
  OBVIOUS
<1>1. PICK S \in SUBSET Resources : listing \in SetToSeqs(S)
  BY DEF InitIndex
<1>2. Cardinality(S) \in Nat /\ listing \in [1..Cardinality(S) -> S]
  <2>1. IsFiniteSet(S)
    BY FS_Subset, IndexConstantsOK
  <2>2. Cardinality(S) \in Nat
    BY <2>1, FS_CardinalityType
  <2>3. SetToSeqs(S) \subseteq [1..Cardinality(S) -> S]
    BY DEF SetToSeqs
  <2>4. QED BY <1>1, <2>2, <2>3
<1>3. listing \in Seq(Resources)
  BY <1>2
<1>4. IndexType
  <2>1. index \in [Identities -> Resources \cup {Absent}]
    BY DEF InitIndex
  <2>2. QED BY <1>3, <2>1 DEF IndexType, InitIndex
<1>5. Fetched = 0
  BY IndexConstantsOK DEF InitIndex, Fetched
<1>6. MissedBefore(Fetched) = {}
  BY <1>4, <1>5, ListingIs DEF MissedBefore
<1>7. QED BY <1>4, <1>6, FS_EmptySet DEF IndexInv, IdentitiesApart, InitIndex

(* A created resource pushes others behind what was fetched. *)
LEMMA CreateKeeps ==
  ASSUME IndexInv, NEW r \in Resources, Create(r)
  PROVE  IndexInv'
<1>0. IndexType /\ IdentitiesApart
  BY DEF IndexInv
<1>1. PICK k \in 1..(Len(listing) + 1) : listing' = InsertAt(listing, k, r)
  BY DEF Create
<1>2. /\ listing' \in Seq(Resources) /\ Len(listing') = Len(listing) + 1
      /\ \A j \in 1..Len(listing') :
           listing'[j] = IF j < k THEN listing[j] ELSE IF j = k THEN r ELSE listing[j - 1]
  <2>1. listing \in Seq(Resources)
    BY <1>0 DEF IndexType
  <2>2. /\ InsertAt(listing, k, r) \in Seq(Resources)
        /\ Len(InsertAt(listing, k, r)) = Len(listing) + 1
        /\ \A j \in 1..(Len(listing) + 1) :
             InsertAt(listing, k, r)[j] =
               IF j < k THEN listing[j] ELSE IF j = k THEN r ELSE listing[j - 1]
    <3> DEFINE m == listing
    <3>1. m \in Seq(Resources) /\ k \in 1..(Len(m) + 1)
      BY <2>1
    <3> HIDE DEF m
    <3>2. InsertAt(m, k, r) \in Seq(Resources)
      BY ONLY <3>1, r \in Resources, Inserted
    <3>3. Len(InsertAt(m, k, r)) = Len(m) + 1
      BY ONLY <3>1, r \in Resources, Inserted
    <3>4. ASSUME NEW j \in 1..(Len(m) + 1)
          PROVE  InsertAt(m, k, r)[j] = IF j < k THEN m[j] ELSE IF j = k THEN r ELSE m[j - 1]
      BY ONLY <3>1, r \in Resources, Inserted
    <3>5. QED BY <3>2, <3>3, <3>4 DEF m
  <2>3. QED BY <1>1, <2>2
<1>3. UNCHANGED <<page, index, loop, steady, removals, raised>>
  BY DEF Create
<1>4. /\ Len(listing) \in Nat /\ DOMAIN listing = 1..Len(listing)
      /\ Fetched \in Nat
      /\ \A at \in 1..Len(listing) : listing[at] \in Listed
  BY <1>0, ListingIs
<1>5. DOMAIN listing' = 1..Len(listing')
  BY <1>2, LenProperties
<1>6. Listed' \subseteq Listed \cup {r} /\ Listed \subseteq Listed'
  <2>1. Listed' = {listing'[j] : j \in 1..Len(listing')}
    BY <1>5 DEF Listed, Range
  <2>2. Listed' \subseteq Listed \cup {r}
    BY <1>2, <1>4, <2>1
  <2>3. ASSUME NEW at \in 1..Len(listing) PROVE listing[at] \in Listed'
    <3>1. CASE at < k
      BY <1>2, <1>4, <2>1, <3>1
    <3>2. CASE at >= k
      <4>1. at + 1 \in 1..Len(listing') /\ listing'[at + 1] = listing[at]
        BY <1>2, <1>4, <3>2
      <4>2. QED BY <2>1, <4>1
    <3>3. QED BY <3>1, <3>2
  <2>4. \A q \in Listed : \E at \in 1..Len(listing) : listing[at] = q
    BY <1>0, ListingIs
  <2>5. QED BY <2>2, <2>3, <2>4
<1>7. IndexType'
  BY <1>0, <1>2, <1>3, <1>6 DEF IndexType
<1>8. IdentitiesApart'
  <2>1. \A q \in Listed : Identity[q] = Absent \/ Identity[q] # Identity[r]
    BY DEF Create, Unclaimed
  <2>2. QED BY <1>0, <1>6, <2>1 DEF IdentitiesApart
<1>9. r \notin steady /\ Missed' = Missed
  BY <1>0, <1>3 DEF Create, Unclaimed, IndexType, Missed
<1>10. Fetched' = Fetched \/ (Fetched = Len(listing) /\ Fetched' = Fetched + 1)
  BY <1>2, <1>3 DEF Fetched
<1> DEFINE D == MissedBefore(Fetched)
           E == MissedBefore(Fetched)'
           g == [j \in E |-> IF j < k THEN j ELSE j - 1]
<1>11. ASSUME NEW j \in E PROVE j \in Nat /\ j # k /\ g[j] \in D
  <2>1. j \in 1..Len(listing') /\ j <= Fetched' /\ listing'[j] \in Missed
    BY <1>5, <1>9 DEF MissedBefore
  <2>2. listing'[j] \in steady
    BY <2>1 DEF Missed
  <2>3. j # k
    BY <1>2, <1>9, <2>1, <2>2
  <2>4. CASE j < k
    <3>1. j \in 1..Len(listing) /\ j <= Fetched
      <4> HIDE DEF E, D, g
      <4>1. j \in Nat /\ k \in Nat /\ j >= 1 /\ k <= Len(listing) + 1
        BY <1>2, <1>4, <2>1
      <4>2. j <= Len(listing)
        BY <1>4, <2>4, <4>1
      <4>3. j <= Fetched
        BY <1>4, <1>10, <2>1, <4>1, <4>2
      <4>4. QED BY <1>4, <4>1, <4>2, <4>3
    <3>2. listing[j] = listing'[j]
      BY <1>2, <2>1, <2>4
    <3>3. g[j] = j
      BY <2>4
    <3>4. QED BY <1>4, <2>1, <3>1, <3>2, <3>3 DEF MissedBefore
  <2>5. CASE j > k
    <3>1. j \in Nat /\ j - 1 \in 1..Len(listing) /\ j - 1 <= Fetched
      <4> HIDE DEF E, D, g
      <4>1. QED BY <1>2, <1>4, <1>10, <2>1, <2>5
    <3>2. listing[j - 1] = listing'[j]
      BY <1>2, <1>4, <2>1, <2>5, <3>1
    <3>3. g[j] = j - 1
      BY <2>5, <3>1
    <3>4. QED BY <1>4, <2>1, <2>3, <3>1, <3>2, <3>3 DEF MissedBefore
  <2>6. j \in Nat /\ (j < k \/ j > k)
    BY <1>2, <1>4, <2>1, <2>3
  <2> HIDE DEF E, D, g
  <2>7. QED BY <2>3, <2>4, <2>5, <2>6
<1>12. g \in Injection(E, D)
  <2>1. \A i, j \in E : g[i] = g[j] => i = j
    <3> HIDE DEF E
    <3>1. \A j \in E : g[j] = IF j < k THEN j ELSE j - 1
      OBVIOUS
    <3> HIDE DEF g
    <3>2. QED BY <1>11, <3>1
  <2>2. QED BY <1>11, <2>1 DEF Injection, IsInjective
<1>13. Cardinality(E) <= Cardinality(D) /\ Cardinality(D) \in Nat /\ Cardinality(E) \in Nat
  <2>1. IsFiniteSet(D) /\ Cardinality(D) \in Nat
    BY <1>0, MissedFinite
  <2> HIDE DEF D, E, g
  <2>2. IsFiniteSet(E) /\ Cardinality(E) <= Cardinality(D)
    BY <1>12, <2>1, FS_Injection
  <2>3. QED BY <2>1, <2>2, FS_CardinalityType
<1>14. QED BY <1>3, <1>7, <1>8, <1>13 DEF IndexInv, IndexType

(* A deleted resource may pull one in front of what was fetched.           *)
LEMMA DeleteKeeps ==
  ASSUME IndexInv, NEW k \in DOMAIN listing, Delete(k)
  PROVE  IndexInv'
<1>0. IndexType /\ IdentitiesApart
  BY DEF IndexInv
<1>1. /\ Len(listing) \in Nat /\ DOMAIN listing = 1..Len(listing)
      /\ Fetched \in Nat
      /\ \A at \in 1..Len(listing) : listing[at] \in Listed
      /\ \A q \in Listed : \E at \in 1..Len(listing) : listing[at] = q
  BY <1>0, ListingIs
<1>2. /\ listing' \in Seq(Resources) /\ Len(listing') = Len(listing) - 1
      /\ \A j \in 1..Len(listing') :
           listing'[j] = IF j < k THEN listing[j] ELSE listing[j + 1]
  <2>1. listing \in Seq(Resources) /\ k \in 1..Len(listing)
    BY <1>0, <1>1 DEF IndexType
  <2>2. /\ RemoveAt(listing, k) \in Seq(Resources)
        /\ Len(RemoveAt(listing, k)) = Len(listing) - 1
        /\ \A j \in 1..(Len(listing) - 1) :
             RemoveAt(listing, k)[j] = IF j < k THEN listing[j] ELSE listing[j + 1]
    BY <2>1, Removed
  <2>3. QED BY <2>2 DEF Delete
<1>3. /\ UNCHANGED <<page, index, loop, raised>>
      /\ steady' = steady \ {listing[k]}
      /\ removals' = removals + 1
  BY DEF Delete
<1>4. DOMAIN listing' = 1..Len(listing')
  BY <1>2, LenProperties
<1>5. /\ Listed' \subseteq Listed
      /\ Listed \subseteq Listed' \cup {listing[k]}
  <2>1. Listed' = {listing'[j] : j \in 1..Len(listing')}
    BY <1>4 DEF Listed, Range
  <2>2. Listed' \subseteq Listed
    BY <1>1, <1>2, <2>1
  <2>3. ASSUME NEW at \in 1..Len(listing) PROVE listing[at] \in Listed' \cup {listing[k]}
    <3>1. CASE at < k
      BY <1>1, <1>2, <2>1, <3>1
    <3>2. CASE at = k
      BY <3>2
    <3>3. CASE at > k
      <4>1. at - 1 \in 1..Len(listing') /\ ~(at - 1 < k) /\ at - 1 + 1 = at
        BY <1>1, <1>2, <3>3
      <4>2. listing'[at - 1] = listing[at]
        BY <1>2, <4>1
      <4>3. QED BY <2>1, <4>1, <4>2
    <3>4. QED BY <1>1, <3>1, <3>2, <3>3
  <2>4. QED BY <1>1, <2>2, <2>3
<1>6. IndexType'
  BY <1>0, <1>2, <1>3, <1>5 DEF IndexType
<1>7. IdentitiesApart'
  BY <1>0, <1>5 DEF IdentitiesApart
<1>8. Missed' \subseteq Missed
  BY <1>3 DEF Missed
<1>9. Fetched' <= Fetched /\ Fetched' \in Nat
  <2>1. Fetched' \in Nat
    BY <1>2, <1>3, <1>6, <1>0, <1>1 DEF Fetched, IndexType
  <2>2. CASE loop = "done" /\ raised = 0
    BY <1>1, <1>2, <1>3, <2>2 DEF Fetched
  <2>3. CASE ~(loop = "done" /\ raised = 0)
    BY <1>1, <1>3, <2>3 DEF Fetched
  <2>4. QED BY <2>1, <2>2, <2>3
<1> DEFINE D == MissedBefore(Fetched)
           E == MissedBefore(Fetched)'
           next == Fetched + 1
           g == [j \in E |-> IF j < k THEN j ELSE j + 1]
<1>10. ASSUME NEW j \in E PROVE j \in Nat /\ g[j] \in D \cup {next}
  <2>1. j \in 1..Len(listing') /\ j <= Fetched' /\ listing'[j] \in Missed
    BY <1>4, <1>8 DEF MissedBefore
  <2>2. CASE j < k
    <3>1. j \in 1..Len(listing) /\ j <= Fetched
      <4> HIDE DEF E, D, g
      <4>1. QED BY <1>1, <1>2, <1>9, <2>1, <2>2
    <3>2. listing[j] = listing'[j]
      BY <1>2, <2>1, <2>2
    <3>3. g[j] = j
      BY <2>2
    <3>4. QED BY <1>1, <2>1, <3>1, <3>2, <3>3 DEF MissedBefore
  <2>3. CASE ~(j < k)
    <3>1. j + 1 \in 1..Len(listing) /\ j \in Nat /\ (j + 1 <= Fetched \/ j + 1 = next)
      <4> HIDE DEF E, D, g
      <4>1. QED BY <1>1, <1>2, <1>9, <2>1, <2>3
    <3>2. listing[j + 1] = listing'[j]
      BY <1>2, <2>1, <2>3
    <3>3. g[j] = j + 1
      BY <2>3
    <3>4. CASE j + 1 <= Fetched
      BY <1>1, <2>1, <3>1, <3>2, <3>3, <3>4 DEF MissedBefore
    <3>5. QED BY <3>1, <3>3, <3>4
  <2> HIDE DEF E, D, g
  <2>4. QED BY <2>2, <2>3
<1>11. g \in Injection(E, D \cup {next})
  <2>1. \A i, j \in E : g[i] = g[j] => i = j
    <3> HIDE DEF E
    <3>1. \A j \in E : g[j] = IF j < k THEN j ELSE j + 1
      OBVIOUS
    <3> HIDE DEF g
    <3>2. k \in Nat
      BY <1>1
    <3>3. QED BY <1>10, <3>1, <3>2
  <2>2. QED BY <1>10, <2>1 DEF Injection, IsInjective
<1>12. Cardinality(E) <= Cardinality(D) + 1 /\ Cardinality(D) \in Nat /\ Cardinality(E) \in Nat
  <2>1. IsFiniteSet(D) /\ Cardinality(D) \in Nat
    BY <1>0, MissedFinite
  <2> HIDE DEF D, E, g, next
  <2>2. /\ IsFiniteSet(D \cup {next})
        /\ Cardinality(D \cup {next}) = IF next \in D THEN Cardinality(D) ELSE Cardinality(D) + 1
    BY <2>1, FS_AddElement
  <2>3. IsFiniteSet(E) /\ Cardinality(E) <= Cardinality(D \cup {next})
    BY <1>11, <2>2, FS_Injection
  <2>4. Cardinality(E) \in Nat
    BY <2>3, FS_CardinalityType
  <2>5. QED BY <2>1, <2>2, <2>3, <2>4
<1>13. Cardinality(D) <= removals /\ removals \in Nat
  BY DEF IndexInv, IndexType
<1>14. Cardinality(E) <= removals'
  <2> HIDE DEF D, E, g, next
  <2>1. QED BY <1>3, <1>12, <1>13
<1>15. QED BY <1>6, <1>7, <1>14 DEF IndexInv

(* Who has an identity in the listing has it alone, so the page that shows *)
(* it enters it, and a later page does not take the entry away.            *)
LEMMA FetchKeeps ==
  ASSUME IndexInv, Fetch
  PROVE  IndexInv'
<1>0. IndexType /\ IdentitiesApart
  BY DEF IndexInv
<1> DEFINE found == Page(page)
           from == page * PageSize
           to == IF (page + 1) * PageSize < Len(listing)
                   THEN (page + 1) * PageSize ELSE Len(listing)
<1>1. /\ Len(listing) \in Nat /\ DOMAIN listing = 1..Len(listing)
      /\ \A at \in 1..Len(listing) : listing[at] \in Resources /\ listing[at] \in Listed
      /\ \A q \in Listed : q \in Resources
      /\ PageSize \in Nat \ {0}
  BY <1>0, ListingIs
<1>2. /\ from \in Nat /\ (page + 1) * PageSize = from + PageSize
      /\ to \in Nat /\ to <= Len(listing)
  BY <1>0, <1>1 DEF IndexType
<1>3. /\ loop = "fetching"
      /\ index' = Entered(found)
      /\ IF Len(found) < PageSize THEN loop' = "done" /\ page' = page
                                  ELSE page' = page + 1 /\ loop' = loop
      /\ UNCHANGED <<listing, steady, removals, raised>>
  BY DEF Fetch, LastPage
<1>4. found = SubSeq(listing, from + 1, to)
  BY DEF Page
<1> HIDE DEF found, from, to
<1>5. /\ found \in Seq(Resources)
      /\ Len(found) = IF from + 1 <= to THEN to - from ELSE 0
      /\ \A i \in 1..(to - from) : found[i] = listing[from + i]
  <2>1. \A i \in (from + 1)..to : listing[i] \in Resources
    BY <1>1, <1>2
  <2>2. /\ found \in Seq(Resources)
        /\ Len(found) = IF from + 1 <= to THEN to - (from + 1) + 1 ELSE 0
        /\ \A i \in 1..(to - (from + 1) + 1) : found[i] = listing[(from + 1) + i - 1]
    BY <1>2, <1>4, <2>1, SubSeqProperties
  <2>3. QED BY <1>2, <2>2
<1>6. /\ Range(found) \subseteq Listed
      /\ \A at \in (from + 1)..to : listing[at] \in Range(found)
  <2>1. DOMAIN found = 1..Len(found)
    BY <1>5, LenProperties
  <2>2. Range(found) = {found[i] : i \in 1..Len(found)}
    BY <2>1 DEF Range
  <2>3. ASSUME NEW i \in 1..Len(found) PROVE found[i] \in Listed
    <3>1. from + i \in 1..Len(listing) /\ i \in 1..(to - from)
      BY <1>2, <1>5
    <3>2. QED BY <1>1, <1>5, <3>1
  <2>4. ASSUME NEW at \in (from + 1)..to PROVE listing[at] \in Range(found)
    <3>1. at - from \in 1..Len(found) /\ at - from \in 1..(to - from) /\ from + (at - from) = at
      BY <1>2, <1>5
    <3>2. found[at - from] = listing[at]
      BY <1>5, <3>1
    <3>3. QED BY <2>2, <3>1, <3>2
  <2>5. QED BY <2>2, <2>3, <2>4
<1>7. ASSUME NEW q \in Listed, Identity[q] # Absent
      PROVE  index'[Identity[q]] = q \/ (q \notin Range(found) /\ index'[Identity[q]] = index[Identity[q]])
  <2> DEFINE i == Identity[q]
  <2>1. i \in Identities
    BY <1>1, <1>7 DEF Identities
  <2>2. index'[i] = IF \E r \in Range(found) : Identity[r] = i
                      THEN CHOOSE r \in Range(found) : Identity[r] = i
                      ELSE index[i]
    BY <1>3, <2>1 DEF Entered
  <2>3. CASE \E r \in Range(found) : Identity[r] = i
    <3>1. index'[i] \in Range(found) /\ Identity[index'[i]] = i
      BY <2>2, <2>3
    <3>2. index'[i] = q
      BY <1>0, <1>6, <1>7, <3>1 DEF IdentitiesApart
    <3>3. QED BY <3>2
  <2>4. CASE ~ \E r \in Range(found) : Identity[r] = i
    BY <2>2, <2>4
  <2>5. QED BY <2>3, <2>4
<1>8. IndexType'
  <2>1. index' \in [Identities -> Resources \cup {Absent}]
    <3>1. Range(found) \subseteq Resources
      BY <1>1, <1>6
    <3>2. ASSUME NEW i \in Identities
          PROVE  (IF \E r \in Range(found) : Identity[r] = i
                    THEN CHOOSE r \in Range(found) : Identity[r] = i
                    ELSE index[i]) \in Resources \cup {Absent}
      BY <1>0, <3>1 DEF IndexType
    <3>3. QED BY <1>3, <3>2 DEF Entered
  <2>2. Listed' = Listed
    BY <1>3 DEF Listed
  <2>3. QED BY <1>0, <1>3, <2>1, <2>2 DEF IndexType
<1>9. IdentitiesApart'
  BY <1>0, <1>3 DEF IdentitiesApart, Listed
<1>10. Fetched = from
  BY <1>3 DEF Fetched, from
<1>11. \A at \in 1..Len(listing) : at <= Fetched' => at <= from \/ at <= to
  <2>1. CASE Len(found) < PageSize
    <3>1. to = Len(listing)
      <4>1. to = from + PageSize => Len(found) = PageSize
        BY <1>1, <1>2, <1>5
      <4>2. QED BY <1>2, <2>1, <4>1 DEF to
    <3>2. QED BY <1>1, <3>1
  <2>2. CASE ~(Len(found) < PageSize)
    <3>1. Fetched' = from + PageSize
      BY <1>2, <1>3, <2>2 DEF Fetched
    <3>2. QED BY <1>1, <1>2, <3>1 DEF to
  <2>3. QED BY <2>1, <2>2
<1> DEFINE D == MissedBefore(Fetched)
           E == MissedBefore(Fetched)'
<1>12. E \subseteq D
  <2> SUFFICES ASSUME NEW at \in E PROVE at \in D
    OBVIOUS
  <2>1. /\ at \in 1..Len(listing) /\ at <= Fetched'
        /\ listing[at] \in steady /\ Identity[listing[at]] # Absent
        /\ index'[Identity[listing[at]]] # listing[at]
    BY <1>1, <1>3 DEF MissedBefore, Missed
  <2>2. listing[at] \in Listed
    BY <1>1, <2>1
  <2>3. /\ listing[at] \notin Range(found)
        /\ index[Identity[listing[at]]] # listing[at]
    BY <1>7, <2>1, <2>2
  <2>4. at <= from
    <3>1. at \notin (from + 1)..to
      BY <1>6, <2>3
    <3> HIDE DEF E, D
    <3>2. QED BY <1>1, <1>2, <1>11, <2>1, <3>1
  <2>5. listing[at] \in Missed
    BY <2>1, <2>3 DEF Missed
  <2>6. QED BY <1>1, <1>10, <2>1, <2>4, <2>5 DEF MissedBefore
<1>13. Cardinality(E) <= removals'
  <2>1. IsFiniteSet(D) /\ Cardinality(D) \in Nat
    BY <1>0, MissedFinite
  <2>2. Cardinality(D) <= removals /\ removals \in Nat
    BY DEF IndexInv, IndexType
  <2> HIDE DEF D, E
  <2>3. IsFiniteSet(E) /\ Cardinality(E) <= Cardinality(D)
    BY <1>12, <2>1, FS_Subset
  <2>4. Cardinality(E) \in Nat
    BY <2>3, FS_CardinalityType
  <2>5. QED BY <1>3, <2>1, <2>2, <2>3, <2>4
<1>14. QED BY <1>8, <1>9, <1>13 DEF IndexInv

(* What was fetched before a request raises stays fetched, the rest is not. *)
LEMMA RaiseKeeps ==
  ASSUME IndexInv, FetchRaises
  PROVE  IndexInv'
<1>1. IndexType /\ IdentitiesApart /\ Cardinality(MissedBefore(Fetched)) <= removals
  BY DEF IndexInv
<1>2. /\ UNCHANGED <<listing, page, index, steady, removals>>
      /\ loop = "fetching" /\ loop' = "done" /\ raised' = raised + 1
  BY DEF FetchRaises
<1>3. IndexType'
  BY <1>1, <1>2 DEF IndexType, Listed
<1>4. Fetched' = Fetched
  BY <1>1, <1>2 DEF Fetched, IndexType
<1>5. Missed' = Missed
  BY <1>2 DEF Missed
<1>6. MissedBefore(Fetched)' = MissedBefore(Fetched)
  BY <1>2, <1>4, <1>5 DEF MissedBefore
<1>7. QED BY <1>1, <1>2, <1>3, <1>6 DEF IndexInv, IdentitiesApart, Listed

LEMMA IndexStep == IndexInv /\ [NextIndex]_indexVars => IndexInv'
<1> SUFFICES ASSUME IndexInv, [NextIndex]_indexVars PROVE IndexInv'
  OBVIOUS
<1>1. CASE \E r \in Resources : Create(r)
  BY <1>1, CreateKeeps
<1>2. CASE \E at \in DOMAIN listing : Delete(at)
  BY <1>2, DeleteKeeps
<1>3. CASE Fetch
  BY <1>3, FetchKeeps
<1>4. CASE FetchRaises
  BY <1>4, RaiseKeeps
<1>5. CASE UNCHANGED indexVars
  <2>1. UNCHANGED <<listing, page, index, loop, steady, removals, raised>>
    BY <1>5 DEF indexVars
  <2>2. IndexType' /\ IdentitiesApart'
    BY <2>1 DEF IndexInv, IndexType, IdentitiesApart, Listed
  <2>3. MissedBefore(Fetched)' = MissedBefore(Fetched)
    BY <2>1 DEF MissedBefore, Fetched, Missed
  <2>4. QED BY <2>1, <2>2, <2>3 DEF IndexInv
<1>6. QED BY <1>1, <1>2, <1>3, <1>4, <1>5 DEF NextIndex

(* Whatever is created and deleted while the pages of the list are fetched *)
(* (_resource_index, src/app/adapter.py): of the resources that were       *)
(* listed all the time, the index lacks no more of those that were in the  *)
(* pages it got than resources were deleted.                               *)
THEOREM NoMoreLostThanDeleted == IndexSpec => []LossBounded
<1>1. IndexInv => LossBounded
  BY DEF IndexInv, LossBounded, MissedBefore
<1>2. QED BY <1>1, IndexInit, IndexStep, PTL DEF IndexSpec
=============================================================================
