------------------------------- MODULE ImageProbe -------------------------------
(***************************************************************************)
(* probe_adapter.py tries a built image: it removes the container of its    *)
(* name, starts one of the image, waits for its server, posts /test and     *)
(* /collect, says what came back and removes the container.  The name and   *)
(* the port are the same for every probe unless they are given, so probes   *)
(* of several images meet at one container; a probe may be killed, docker   *)
(* may fail and something else may hold the port.  What the calls carry is  *)
(* the connection in connections.json, or the probe ends before it starts   *)
(* anything.                                                                *)
(***************************************************************************)
EXTENDS Naturals, FiniteSets

CONSTANTS
  Probes,     \* processes
  Images,
  NoImage,
  MaxFaults   \* bound: kills, docker calls that fail, changes of the port

Behaviours == {"silent", "refuses", "breaks", "empty", "works"}

VARIABLES
  behaviour,  \* what an image does: no server; /test or /collect has an error;
              \* nothing is collected; objects with metrics are
  container,  \* the image of the container of the name, NoImage: there is none
  running,    \* it runs, and holds the port
  port,       \* something else holds the port
  pc, image,  \* of each probe
  verdict,    \* what it said
  alone,      \* history: no other probe touched the container since it began
  left,       \* history: a container was left behind by a kill or by docker
  faults

docker == <<container, running, port>>
probeVars == <<behaviour, docker, pc, image, verdict, alone, left, faults>>

(* No probe is at work, and there is nothing in its way. *)
Idle ==
  /\ container = NoImage /\ running = FALSE /\ port = FALSE
  /\ pc = [p \in Probes |-> "idle"]
  /\ image = [p \in Probes |-> NoImage]
  /\ verdict = [p \in Probes |-> "none"]
  /\ alone = [p \in Probes |-> TRUE]
  /\ left = FALSE /\ faults = 0

Init == behaviour \in [Images -> Behaviours] /\ Idle

Fault == faults < MaxFaults /\ faults' = faults + 1
Goto(p, l) == pc' = [pc EXCEPT ![p] = l]

(* p changed the container: no other that is at work is alone any more. *)
Touch(p) == alone' = [q \in Probes |-> IF q # p /\ pc[q] # "idle" THEN FALSE ELSE alone[q]]

(* The try block is left, for the finally. *)
Leave(p, v) ==
  /\ verdict' = [verdict EXCEPT ![p] = v]
  /\ Goto(p, "remove")
  /\ UNCHANGED <<behaviour, docker, image, alone, left>>

-----------------------------------------------------------------------------
Begin(p, i) ==
  /\ pc[p] = "idle"
  /\ Goto(p, "clear")
  /\ image' = [image EXCEPT ![p] = i]
  /\ verdict' = [verdict EXCEPT ![p] = "none"]
  /\ alone' = [alone EXCEPT ![p] = \A q \in Probes \ {p} : pc[q] = "idle"]
  /\ UNCHANGED <<behaviour, docker, left, faults>>

(* No connections.json, or no connection of the name. *)
NoConnection(p) ==
  /\ pc[p] = "clear"
  /\ Fault
  /\ Goto(p, "idle")
  /\ verdict' = [verdict EXCEPT ![p] = "raised"]
  /\ UNCHANGED <<behaviour, docker, image, alone, left>>

(* docker rm -f, whatever is there; that it fails is not looked at. *)
Removed == container' = NoImage /\ running' = FALSE /\ left' = FALSE

Clear(p) ==
  /\ pc[p] = "clear"
  /\ Goto(p, "run")
  /\ \/ Removed /\ UNCHANGED faults
     \/ Fault /\ UNCHANGED <<container, running, left>>
  /\ Touch(p)
  /\ UNCHANGED <<behaviour, port, image, verdict>>

(* docker run fails if there is a container of the name, or if the port is  *)
(* taken: then it leaves one that does not run.  The failure is raised      *)
(* ahead of the try, so nothing is removed.                                 *)
Refused == container # NoImage \/ port

Run(p) ==
  /\ pc[p] = "run" /\ ~Refused
  /\ container' = image[p] /\ running' = TRUE
  /\ Goto(p, "wait")
  /\ Touch(p)
  /\ UNCHANGED <<behaviour, port, image, verdict, left, faults>>

(* Mutant: a run that failed is not noticed. *)
RunUnchecked(p) ==
  /\ pc[p] = "run" /\ Refused
  /\ Goto(p, "wait")
  /\ UNCHANGED <<behaviour, docker, image, verdict, alone, left, faults>>

RunFails(p) ==
  /\ pc[p] = "run" /\ Refused
  /\ IF container = NoImage
     THEN container' = image[p] /\ left' = TRUE /\ Touch(p)
     ELSE UNCHANGED <<container, left, alone>>
  /\ Goto(p, "idle")
  /\ verdict' = [verdict EXCEPT ![p] = "raised"]
  /\ UNCHANGED <<behaviour, running, port, image, faults>>

-----------------------------------------------------------------------------
(* Whoever holds the port answers. *)
Answers == running /\ behaviour[container] # "silent"

Ready(p) ==
  /\ pc[p] = "wait" /\ Answers
  /\ Goto(p, "test")
  /\ UNCHANGED <<behaviour, docker, image, verdict, alone, left, faults>>

(* Sixty times a second without an answer: a server that is still starting  *)
(* may be given up too.                                                     *)
NeverReady(p) == pc[p] = "wait" /\ Leave(p, "raised") /\ (IF Answers THEN Fault ELSE UNCHANGED faults)

Test(p) ==
  /\ pc[p] = "test" /\ Answers
  /\ IF behaviour[container] = "refuses" THEN Leave(p, "failed")
     ELSE /\ Goto(p, "collect")
          /\ UNCHANGED <<behaviour, docker, image, verdict, alone, left>>
  /\ UNCHANGED faults

Enough(b) == b = "works"
Collect(p) ==
  /\ pc[p] = "collect" /\ Answers
  /\ Leave(p, IF Enough(behaviour[container]) THEN "passed" ELSE "failed")
  /\ UNCHANGED faults

(* A call is refused, or breaks off, or takes five minutes. *)
CallFails(p) ==
  /\ pc[p] \in {"test", "collect"}
  /\ Leave(p, "raised")
  /\ IF Answers THEN Fault ELSE UNCHANGED faults

(* finally: docker rm -f. *)
Remove(p) ==
  /\ pc[p] = "remove"
  /\ \/ Removed /\ UNCHANGED faults
     \/ Fault /\ left' = (container # NoImage) /\ UNCHANGED <<container, running>>
  /\ Touch(p)
  /\ Goto(p, "idle")
  /\ UNCHANGED <<behaviour, port, image, verdict>>

-----------------------------------------------------------------------------
Killed(p) ==
  /\ pc[p] # "idle"
  /\ Fault
  /\ Goto(p, "idle")
  /\ verdict' = [verdict EXCEPT ![p] = "none"]
  /\ left' = (left \/ container # NoImage)
  /\ UNCHANGED <<behaviour, docker, image, alone>>

(* Something else takes the port or gives it back. *)
OtherPort ==
  /\ ~running
  /\ Fault
  /\ port' = ~port
  /\ UNCHANGED <<behaviour, container, running, pc, image, verdict, alone, left>>

Step(p) ==
  \/ Clear(p) \/ Run(p) \/ RunFails(p) \/ Ready(p) \/ NeverReady(p)
  \/ Test(p) \/ Collect(p) \/ CallFails(p) \/ Remove(p)

Next ==
  \/ \E p \in Probes : (\E i \in Images : Begin(p, i)) \/ NoConnection(p) \/ Step(p) \/ Killed(p)
  \/ OtherPort

Spec == Init /\ [][Next]_probeVars

(* A probe that runs goes on. *)
Fairness == \A p \in Probes : WF_probeVars(Step(p))
FairSpec == Spec /\ Fairness

-----------------------------------------------------------------------------
(* A probe that no other probe came between says "passed" only of an image  *)
(* that works, and "failed" only of one that does not: what an earlier      *)
(* probe left, of another image, never answers for it                       *)
(* (probe_adapter.py:105-118).                                              *)
OwnVerdict ==
  \A p \in Probes : alone[p] =>
    /\ verdict[p] = "passed" => behaviour[image[p]] = "works"
    /\ verdict[p] = "failed" => behaviour[image[p]] # "works"

(* With no probe at work there is no container, but one that a kill or      *)
(* docker left, and the next probe takes that away ("removes the            *)
(* container", probe_adapter.py:9-12, 139-141).                             *)
NothingLeft == (\A p \in Probes : pc[p] = "idle") => container = NoImage \/ left

(* Probes do not get into each other's way: what one says is about its own  *)
(* image, and what it leaves is nothing, whatever one before it left        *)
(* (probe_adapter.py:105-118, 139-141).                                     *)
ProbesAreTheirOwn == OwnVerdict /\ NothingLeft

(* A probe does not hang, "which is exactly when verification matters"      *)
(* (probe_adapter.py:4-7, 83-90).                                           *)
ProbesEnd == \A p \in Probes : pc[p] # "idle" ~> pc[p] = "idle"
=============================================================================
