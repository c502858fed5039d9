-------------------------------- MODULE Answers --------------------------------
(***************************************************************************)
(* What a collection says of an object beside its metrics: its identity,   *)
(* its name, the names of what it belongs to and, for a drive, firmware,   *)
(* driver and driver version.  perfsvc.build_name_map and                  *)
(* build_disk_hardware look everything up before the first answer is read; *)
(* every lookup may fail alone, and what it gave so far is kept.           *)
(* Hosts, clusters and drives are identified by themselves here; what is   *)
(* displayed of a thing is the thing.                                      *)
(***************************************************************************)
EXTENDS Integers, SequencesExt

CONSTANTS
  Clusters, Hosts, Drives,
  Devices, Luns,     \* device names of controllers, keys of LUNs: per host
  ClusterOf, HostOf, \* of each host, of each drive
  LunOf,             \* of each drive
  VMList,            \* virtual machines in vCenter's order
  VMIds, Paths,      \* what identifies virtual machines, their disks
  Slashed,           \* path -> the same with a leading slash
  Parts,             \* further parts of a reference
  Identifiers,       \* entity type -> names of its identifiers, in order
  Suffix,            \* KIND_SUFFIX: entity type -> suffix, "": none
  MaxFailed,         \* bound: lookups of a collection that give less than all
  MaxAnswers         \* bound: answers of a collection

Aggregate == "(all)"

(* What a reference may be of: its first identifier names it. *)
Things == {"host_uuid", "vm_uuid", "vdisk_uuid", "disk_uuid", "cluster_uuid"}

VMs == DOMAIN VMList
Entities == DOMAIN Identifiers
HostsOf(c) == {h \in Hosts : ClusterOf[h] = c}
DrivesOf(h) == {d \in Drives : HostOf[d] = h}

DiskIds == Paths \cup {Slashed[p] : p \in Paths}

(* A further part of a reference (a CPU, a network adapter, a SCSI target) *)
(* is never what identifies a machine or its disk.                         *)
ASSUME AnswersOK ==
  /\ ClusterOf \in [Hosts -> Clusters] /\ HostOf \in [Drives -> Hosts]
  /\ LunOf \in [Drives -> Luns]
  /\ \A d, e \in Drives : HostOf[d] = HostOf[e] /\ LunOf[d] = LunOf[e] => d = e
  /\ IsFiniteSet(Clusters) /\ IsFiniteSet(Hosts)
  /\ Len(VMList) \in Nat /\ VMs = 1..Len(VMList)
  /\ \A e \in Entities : /\ Len(Identifiers[e]) \in Nat \ {0}
                         /\ Identifiers[e][1] \in Things
  /\ DOMAIN Suffix = Entities
  /\ DOMAIN Slashed = Paths
  /\ Aggregate \notin Parts /\ (VMIds \cup DiskIds) \cap Parts = {}
  /\ MaxFailed \in Nat /\ MaxAnswers \in Nat

None == <<"none", "none">>
Ids == Clusters \cup Hosts \cup Drives \cup VMIds \cup DiskIds \cup Parts \cup {Aggregate}

VARIABLES
  device,    \* the world: the controller of each drive
  uuid, instance, attached,  \* and what vCenter knows of each machine
  lookups,   \* the lookups still to be made, in order
  failed,    \* how many gave less than they could
  names,     \* what is shown for an identifier, itself if it is not resolved
  versions,  \* version_for_hba: device name -> the controller it was read of
  driverFor, \* driver_for_lun, hba_for_lun of the last host read
  hardware,  \* disk_hw: drive -> what is known of it
  answered,  \* references that were answered
  objects    \* what is reported of each

world == <<device, uuid, instance, attached>>
answersVars == <<world, lookups, failed, names, versions, driverFor, hardware, answered, objects>>

(* What is shown: an identifier that is not resolved, a thing, or a disk of *)
(* a machine.                                                               *)
Raw(v) == <<"id", v>>
Shown(x) == <<"name of", x>>
DiskOf(x) == <<"disk of", x>>

Lookup(kind, of) == [kind |-> kind, of |-> of]
For(kind, S) == LET s == SetToSeq(S) IN [i \in 1..Len(s) |-> Lookup(kind, s[i])]

Controller(d) == <<HostOf[d], device[d]>>
Unknown == [firmware |-> None, driver |-> None, version |-> None]

InitAnswers ==
  /\ device \in [Drives -> Devices]
  /\ uuid \in [VMs -> VMIds] /\ instance \in [VMs -> VMIds]
  /\ IsInjective(instance)
  /\ attached \in [VMs -> Paths]
  /\ lookups = For("nodes", Clusters) \o For("config", Clusters) \o <<Lookup("vms", "all")>>
               \o For("pools", Hosts) \o For("hcl", Clusters) \o For("drives", Hosts)
  /\ failed = 0
  /\ names = [v \in Ids |-> Raw(v)]
  /\ versions = [n \in Devices |-> None]
  /\ driverFor = [l \in Luns |-> None]
  /\ hardware = [d \in Drives |-> Unknown]
  /\ answered = {} /\ objects = {}

-----------------------------------------------------------------------------
(* build_name_map.                                                          *)

Name(S) == names' = [v \in Ids |-> IF v \in S THEN Shown(v) ELSE names[v]]

(* The list of machines, without those that have no configuration and those *)
(* after one that raises.  The last that has an identifier gives its name.  *)
NameVMs(got) ==
  LET Having(v) == {i \in got : v \in {uuid[i], instance[i]}}
      Attaching(v) == {i \in got : v \in {attached[i], Slashed[attached[i]]}}
  IN names' = [v \in Ids |-> IF Having(v) # {} THEN Shown(VMList[Max(Having(v))])
                             ELSE IF Attaching(v) # {} THEN DiskOf(VMList[Max(Attaching(v))])
                             ELSE names[v]]

-----------------------------------------------------------------------------
(* build_disk_hardware.                                                     *)

(* Of the controllers a cluster's health names, the last of a device name   *)
(* gives its version, whichever host it is of.                              *)
ReadVersions(got) ==
  \E last \in [Devices -> Drives] :
    /\ \A n \in Devices : \A d \in got : device[d] = n => last[n] \in got /\ device[last[n]] = n
    /\ versions' = [n \in Devices |-> IF \E d \in got : device[d] = n
                                     THEN Controller(last[n]) ELSE versions[n]]

(* Mutant: the map of the host before is still there. *)
OfHostBefore(l) == driverFor[l]
AtStart(l) == None

(* The drives of a host: the walk through its topology may end anywhere, a  *)
(* drive it did not reach keeps its firmware.                               *)
ReadDrives(h, got) ==
  /\ driverFor' = [l \in Luns |-> IF \E d \in got : LunOf[d] = l
                                 THEN Controller(CHOOSE d \in got : LunOf[d] = l)
                                 ELSE AtStart(l)]
  /\ hardware' = [d \in Drives |->
       IF HostOf[d] # h THEN hardware[d]
       ELSE LET by == driverFor'[LunOf[d]]
            IN [firmware |-> Shown(d), driver |-> by,
                version |-> IF by = None THEN None ELSE versions[by[2]]]]

(* A host that does not tell its drives is skipped. *)
SkipHost == UNCHANGED <<driverFor, hardware>>

All(l) == CASE l.kind = "nodes" -> HostsOf(l.of)
            [] l.kind = "config" -> {l.of}
            [] l.kind = "vms" -> VMs
            [] l.kind = "hcl" -> {d \in Drives : ClusterOf[HostOf[d]] = l.of}
            [] l.kind \in {"pools", "drives"} -> DrivesOf(l.of)

LookUp ==
  /\ lookups # <<>>
  /\ lookups' = Tail(lookups)
  /\ LET l == Head(lookups)
     IN \E got \in SUBSET All(l) :
          /\ failed' = failed + (IF got = All(l) THEN 0 ELSE 1)
          /\ failed' <= MaxFailed
          /\ \/ /\ \/ l.kind \in {"nodes", "config", "pools"} /\ Name(got)
                   \/ l.kind = "vms" /\ NameVMs(got)
                /\ UNCHANGED <<versions, driverFor, hardware>>
             \/ /\ l.kind = "hcl" /\ ReadVersions(got)
                /\ UNCHANGED <<names, driverFor, hardware>>
             \/ /\ l.kind = "drives" /\ (ReadDrives(l.of, got) \/ (got = {} /\ SkipHost))
                /\ UNCHANGED <<names, versions>>
  /\ UNCHANGED <<world, answered, objects>>

-----------------------------------------------------------------------------
(* parse_ref, ObjectKey.display, adapter.collect.                           *)

(* What may come back: a reference names a thing of the kind its entity     *)
(* type is about, and carries fewer or more parts than the model has names. *)
Heads(e) == CASE Identifiers[e][1] = "host_uuid" -> Hosts
              [] Identifiers[e][1] = "vm_uuid" -> VMIds
              [] Identifiers[e][1] = "vdisk_uuid" -> DiskIds
              [] Identifiers[e][1] = "disk_uuid" -> Drives
              [] Identifiers[e][1] = "cluster_uuid" -> Clusters
References ==
  UNION {{[entity |-> e, parts |-> <<x>> \o t] :
            x \in Heads(e), t \in {<<>>} \cup {<<p>> : p \in Parts} \cup (Parts \X Parts)}
         : e \in Entities}

(* Mutant: parts the model has no name for are dropped. *)
NamedParts(r) == Len(Identifiers[r.entity])
KeyLength(r) == IF Len(r.parts) > NamedParts(r) THEN Len(r.parts) ELSE NamedParts(r)

Key(r) == [entity |-> r.entity,
           idents |-> [i \in 1..KeyLength(r) |->
                         IF i <= Len(r.parts) THEN r.parts[i] ELSE Aggregate]]

InOrder(S) == CHOOSE s \in [1..Cardinality(S) -> S] : \A i, j \in DOMAIN s : i < j => s[i] < s[j]

(* The thing, and what narrows it down, without what fills a short one up. *)
Display(k) ==
  LET scoped == InOrder({i \in 2..Len(k.idents) : k.idents[i] # Aggregate})
  IN [head |-> names[k.idents[1]],
      rest |-> [j \in DOMAIN scoped |-> names[k.idents[scoped[j]]]],
      suffix |-> IF scoped = <<>> THEN Suffix[k.entity] ELSE ""]

IsDrive(k) == Identifiers[k.entity][1] = "disk_uuid"

ReportOf(k) ==
  [key |-> k, name |-> Display(k),
   props |-> [i \in 1..Len(k.idents) |-> names[k.idents[i]]],
   hardware |-> IF IsDrive(k) THEN hardware[k.idents[1]] ELSE Unknown]

Answer(r) ==
  /\ lookups = <<>>
  /\ Cardinality(answered) < MaxAnswers /\ r \notin answered
  /\ answered' = answered \cup {r}
  /\ objects' = objects \cup {ReportOf(Key(r))}
  /\ UNCHANGED <<world, lookups, failed, names, versions, driverFor, hardware>>

NextAnswers == LookUp \/ \E r \in References : Answer(r)

AnswersSpec == InitAnswers /\ [][NextAnswers]_answersVars

-----------------------------------------------------------------------------
(* Properties.                                                              *)

(* What may be shown for an identifier without misleading: itself, the      *)
(* thing it identifies, or a machine that has it, one of them if several do. *)
Right(v, shown) ==
  \/ shown = Raw(v)
  \/ v \in Hosts \cup Clusters \cup Drives /\ shown = Shown(v)
  \/ \E i \in VMs : \/ v \in {uuid[i], instance[i]} /\ shown = Shown(VMList[i])
                    \/ v \in {attached[i], Slashed[attached[i]]} /\ shown = DiskOf(VMList[i])

(* Whatever lookups failed, an object is named after what its identifiers   *)
(* identify, or they stay; the firmware and the driver of a drive are its   *)
(* own, or absent (perfsvc.py:231-233, 300-307).                            *)
OwnFacts ==
  \A o \in objects :
    /\ \A i \in DOMAIN o.props : Right(o.key.idents[i], o.props[i])
    /\ IsDrive(o.key) =>
         LET d == o.key.idents[1]
         IN o.hardware.firmware \in {None, Shown(d)} /\ o.hardware.driver \in {None, Controller(d)}

(* The version of a driver "joins to a disk through the same scsiTopology   *)
(* walk" as the driver (perfsvc.py:241-244): it is that of the drive's own  *)
(* controller, or absent.                                                   *)
OwnVersion ==
  \A o \in objects :
    IsDrive(o.key) => o.hardware.version \in {None, Controller(o.key.idents[1])}

(* Different answers are different objects: a short reference is not taken  *)
(* for a scoped one, nor a long one for the shorter (perfsvc.py:711-729).   *)
ObjectsApart == Cardinality(objects) = Cardinality(answered)

(* And two objects of one entity type have one name only if they are of     *)
(* different things.                                                        *)
ToldApart ==
  /\ ObjectsApart
  /\ \A o, p \in objects :
       o # p /\ o.key.entity = p.key.entity /\ o.name = p.name
         => o.key.idents[1] # p.key.idents[1]
=============================================================================
