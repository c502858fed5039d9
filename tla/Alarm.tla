---------------------------------- MODULE Alarm -----------------------------------
(***************************************************************************)
(* watch_relationships.py alarms if a virtual machine has no host: it lists *)
(* the machines and hosts of Operations, asks host by host for children,    *)
(* and for every machine that no host claimed whether it is a template.     *)
(* Meanwhile machines move, lose their host, and come and go.               *)
(***************************************************************************)
EXTENDS Naturals, FiniteSets

CONSTANTS
  VMs, Hosts,
  Templates,  \* machines that are templates
  Nowhere,    \* the place of a machine without a host
  Absent,     \* the place of a machine that is not there
  MaxMoves,   \* bound: changes of the inventory
  MaxChecks   \* bound: checks

VARIABLES
  place,      \* machine -> its host, Nowhere or Absent
  pc,
  vms,        \* machines that were listed
  hosts,      \* hosts whose children were not asked for yet
  claimed,    \* machines that were some host's child
  unknown,    \* unclaimed machines whose properties were not asked for yet
  orphans,
  verdict,    \* of the last check: "none", "silent", "alarm", "unreachable", "raised"
  lost,       \* history: machines without a host ever since they were listed
  strayed,    \* history: machines without a host at some moment since
  moved,      \* history: machines that left a host since
  moves, checks

check == <<vms, hosts, claimed, unknown, orphans>>
history == <<lost, strayed, moved>>
alarmVars == <<place, pc, check, verdict, history, moves, checks>>

(* No check was made. *)
Idle ==
  /\ pc = "off" /\ vms = {} /\ hosts = {} /\ claimed = {} /\ unknown = {} /\ orphans = {}
  /\ verdict = "none"
  /\ lost = {} /\ strayed = {} /\ moved = {} /\ moves = 0 /\ checks = 0

Init ==
  /\ place \in [VMs -> Hosts \cup {Nowhere, Absent}]
  /\ \A v \in Templates : place[v] \in {Nowhere, Absent}
  /\ Idle

-----------------------------------------------------------------------------
(* The inventory: a machine moves, loses its host, comes or goes. *)
Move(v, to) ==
  /\ moves < MaxMoves
  /\ to # place[v] /\ (v \in Templates => to \in {Nowhere, Absent})
  /\ place' = [place EXCEPT ![v] = to]
  /\ lost' = lost \ {v}
  /\ strayed' = IF to = Nowhere THEN strayed \cup {v} ELSE strayed
  /\ moved' = IF place[v] \in Hosts THEN moved \cup {v} ELSE moved
  /\ moves' = moves + 1
  /\ UNCHANGED <<pc, check, verdict, checks>>

-----------------------------------------------------------------------------
Begin ==
  /\ pc = "off" /\ checks < MaxChecks
  /\ pc' = "list" /\ checks' = checks + 1
  /\ verdict' = "none" /\ orphans' = {}
  /\ UNCHANGED <<place, vms, hosts, claimed, unknown, history, moves>>

(* Without a token the check says so and ends as if all were well. *)
Unreachable ==
  /\ pc = "list"
  /\ pc' = "off" /\ verdict' = "unreachable"
  /\ UNCHANGED <<place, check, history, moves, checks>>

Listed == {v \in VMs : place[v] # Absent}

Resources ==
  /\ pc = "list"
  /\ vms' = Listed /\ hosts' = Hosts /\ claimed' = {} /\ unknown' = {}
  /\ lost' = {v \in VMs : place[v] = Nowhere} /\ strayed' = lost' /\ moved' = {}
  /\ pc' = "children"
  /\ UNCHANGED <<place, orphans, verdict, moves, checks>>

ChildrenOf(h) == {v \in VMs : place[v] = h}

(* Mutant: a host that has children is taken to have all it should have. *)
Presence(h) == IF ChildrenOf(h) # {} THEN vms ELSE {}
Claims(h) == ChildrenOf(h)

Children(h) ==
  /\ pc = "children" /\ h \in hosts
  /\ hosts' = hosts \ {h}
  /\ claimed' = claimed \cup Claims(h)
  /\ UNCHANGED <<place, pc, vms, unknown, orphans, verdict, history, moves, checks>>

Unclaimed ==
  /\ pc = "children" /\ hosts = {}
  /\ unknown' = vms \ claimed
  /\ pc' = "properties"
  /\ UNCHANGED <<place, vms, hosts, claimed, orphans, verdict, history, moves, checks>>

IsTemplate(v) == v \in Templates

Properties(v) ==
  /\ pc = "properties" /\ v \in unknown /\ place[v] # Absent
  /\ unknown' = unknown \ {v}
  /\ orphans' = IF IsTemplate(v) THEN orphans ELSE orphans \cup {v}
  /\ UNCHANGED <<place, pc, vms, hosts, claimed, verdict, history, moves, checks>>

(* Any request that fails, and the properties of a machine that is gone,    *)
(* end the check with a traceback.                                          *)
Raises ==
  /\ pc \in {"list", "children", "properties"}
  /\ pc' = "off" /\ verdict' = "raised"
  /\ UNCHANGED <<place, check, history, moves, checks>>

Verdict ==
  /\ pc = "properties" /\ unknown = {}
  /\ verdict' = IF orphans # {} THEN "alarm" ELSE "silent"
  /\ pc' = "off"
  /\ UNCHANGED <<place, check, history, moves, checks>>

Next ==
  \/ \E v \in VMs, to \in Hosts \cup {Nowhere, Absent} : Move(v, to)
  \/ Begin \/ Unreachable \/ Resources \/ (\E h \in Hosts : Children(h)) \/ Unclaimed
  \/ (\E v \in VMs : Properties(v)) \/ Raises \/ Verdict

Spec == Init /\ [][Next]_alarmVars

-----------------------------------------------------------------------------
(* A check that comes to a verdict names every machine that is no template  *)
(* and had no host from the list to the end, however many children its      *)
(* host shows and whatever moves meanwhile: "presence is not completeness"  *)
(* (watch_relationships.py:12-15, 81-101).                                  *)
LossIsHeard ==
  [][verdict' \in {"alarm", "silent"} /\ pc = "properties" => lost \ Templates \subseteq orphans]_alarmVars

(* What it names is no template and had no host at some moment of the       *)
(* check, or left a host while the hosts were asked one after the other           *)
(* (watch_relationships.py:16-19, 91-101).                                  *)
NamedWithReason == orphans \subseteq (strayed \cup moved) \ Templates

(* The alarm names every loss and nothing that is none                      *)
(* (watch_relationships.py:81-101).                                         *)
AlarmIsTrue == []NamedWithReason /\ LossIsHeard
=============================================================================
