------------------------------ MODULE MCProcesses ------------------------------
(* Four programs that a process runs from its start to its end: a collection *)
(* or test of the adapter (Collection), the index of Operations' resources   *)
(* (ResourceIndex), a build behind a terminal (PtyBuild), and probes of an   *)
(* image (ImageProbe).  They share no state: a behaviour follows one of them *)
(* and the others rest, where no step of theirs is enabled, so the fairness  *)
(* of each says nothing of the others.                                       *)
EXTENDS Collection, ResourceIndex

CONSTANTS
  k1, k2, e1, e2,            \* Collection
  r1, r2, r3, r4, r5,        \* ResourceIndex
  success, failure, Codes, Signalled, Running, Room, MaxOutput,  \* PtyBuild
  p1, p2, i1, i2, Probes, Images, NoImage, MaxProbeFaults        \* ImageProbe

VARIABLES
  followed,                                                    \* which one
  ptyPc, late, status, captured, how, ended, open, written, hung,
  behaviour, container, running, port, probePc, image, probeVerdict, alone,
  probeLeft, probeFaults

buildVars == <<ptyPc, late, status, captured, how, ended, open, written, hung>>
probesVars == <<behaviour, container, running, port, probePc, image, probeVerdict,
                alone, probeLeft, probeFaults>>
processesVars == <<followed, vars, indexVars, buildVars, probesVars>>

Pty == INSTANCE PtyBuild WITH pc <- ptyPc, Killed <- Signalled, None <- Running
Probe == INSTANCE ImageProbe WITH pc <- probePc, verdict <- probeVerdict,
           left <- probeLeft, faults <- probeFaults, MaxFaults <- MaxProbeFaults

(* r5 is r1 after it was deleted and discovered again; r4 has no uniqueness *)
(* identifiers.                                                             *)
Identifiers == [r \in Resources |-> IF r = r4 THEN Absent ELSE IF r = r5 THEN r1 ELSE r]

-----------------------------------------------------------------------------
(* A collection between clusters of which none is visible, an index that is *)
(* done, a build that ended in time, images that work and no probe.         *)
CollectionRests ==
  /\ service = [s \in Pairs |-> "data"] /\ listed = {}
  /\ pc = "clusters" /\ method = "none" /\ verdict = "none"
  /\ held = FALSE /\ sessions = 0 /\ lost = 0 /\ returned = {} /\ visible = {}
  /\ cluster = NoCluster /\ asked = {} /\ out = {} /\ result = {} /\ problems = {}
  /\ failed = {} /\ linked = FALSE /\ kept = FALSE /\ orphaned = FALSE
  /\ answer = "none" /\ code = 0 /\ faults = 0
IndexRests ==
  /\ listing = <<>> /\ page = 0 /\ index = [i \in Identities |-> Absent]
  /\ loop = "done" /\ steady = {} /\ removals = 0 /\ changes = 0 /\ raised = 0
BuildRests ==
  /\ ptyPc = "done" /\ late = TRUE /\ status = success /\ ended = success
  /\ captured = 0 /\ how = "none" /\ open = FALSE /\ written = 0 /\ hung = FALSE
ProbesRest == behaviour = [i \in Images |-> "works"] /\ Probe!Idle

(* Clusters are alike and so are entity types: of initial states that only *)
(* differ in their names one is enough.  Of two images one works.          *)
OfAlikeOne ==
  /\ listed # {k2}
  /\ <<service[<<k1, e1>>], service[<<k1, e2>>]>>
       \notin {<<"empty", "data">>, <<"unsupported", "data">>, <<"unsupported", "empty">>}

ProcessesInit ==
  \/ followed = "collection" /\ Init /\ OfAlikeOne
     /\ IndexRests /\ BuildRests /\ ProbesRest
  \/ followed = "index" /\ InitIndex /\ CollectionRests /\ BuildRests /\ ProbesRest
  \/ followed = "build" /\ Pty!Init /\ CollectionRests /\ IndexRests /\ ProbesRest
  \/ followed = "probes" /\ Probe!Init /\ behaviour[i1] = "works"
     /\ CollectionRests /\ IndexRests /\ BuildRests

ProcessesNext ==
  /\ UNCHANGED followed
  /\ \/ /\ followed = "collection" /\ Next
        /\ UNCHANGED <<indexVars, buildVars, probesVars>>
     \/ /\ followed = "index" /\ NextIndex
        /\ UNCHANGED <<vars, buildVars, probesVars>>
     \/ /\ followed = "build" /\ Pty!Next
        /\ UNCHANGED <<vars, indexVars, probesVars>>
     \/ /\ followed = "probes" /\ Probe!Next
        /\ UNCHANGED <<vars, indexVars, buildVars>>

ProcessesSpec == ProcessesInit /\ [][ProcessesNext]_processesVars
FairProcessesSpec ==
  ProcessesSpec /\ Fairness /\ WF_indexVars(Fetch) /\ Pty!Fairness /\ Probe!Fairness

-----------------------------------------------------------------------------
(* The exit status of the wrapper is the build's, and a build that is killed *)
(* was late or had closed its terminal (mp_build_pty.py:16-17, 64-66).       *)
StatusIsTheBuilds == Pty!StatusIsTheBuilds

(* A probe that no other came between tells the truth about its own image,   *)
(* and with no probe at work there is no container but one that a kill or    *)
(* docker left (probe_adapter.py:105-118, 139-141).                          *)
ProbesAreTheirOwn == Probe!ProbesAreTheirOwn

(* The index ends whatever is created and deleted while it runs, the wrapper *)
(* whatever the build does, and a probe whatever the image does              *)
(* (adapter.py:284-328, mp_build_pty.py:6-13, 50, probe_adapter.py:4-7,      *)
(* 83-90).                                                                   *)
ProcessesEnd == IndexEnds /\ Pty!AlwaysEnds /\ Probe!ProbesEnd
=============================================================================
