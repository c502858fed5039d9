-------------------------- MODULE CollectionProofs --------------------------
(* Theorems about Collection, for every value of its constants. *)
EXTENDS Collection, TLAPS

(* What the stages of a collection have established; ClusterWhole is what  *)
(* must hold of each cluster that is no longer in "visible".               *)
ClusterWhole(k) ==
  /\ \E e \in Entities : <<k, e>> \in result
  /\ \A e \in Entities :
       service[<<k, e>>] = "data" => <<k, e>> \in result \/ <<k, e>> \in problems

Stages ==
  /\ pc = "connect" => verdict = "none"
  /\ pc # "idle" => method # "none"
  /\ pc \in {"maps", "clusters", "query", "relate"}
       => method = "collect" /\ verdict = "none"
  /\ pc = "probe" => method = "test" /\ verdict = "none"
  /\ pc \in {"connect", "maps", "clusters", "query", "relate", "probe", "finally"}
       => answer = "none"
  /\ pc = "maps" => visible = returned
  /\ pc \in {"clusters", "query", "relate"} => returned # {}
  /\ pc = "query" => cluster \in visible
  /\ pc = "relate" => visible = {}
  /\ pc = "send" => verdict = "result"
  /\ answer = "result" => verdict = "result"
  /\ verdict = "result" /\ method = "collect" => visible = {} /\ returned # {}

Progress ==
  /\ failed \subseteq problems
  /\ pc \in {"clusters", "query", "relate"} \/ (verdict = "result" /\ method = "collect")
       => \A k \in returned \ visible : ClusterWhole(k)
  /\ pc = "query" => \A e \in asked :
       service[<<cluster, e>>] = "data" => e \in out \/ <<cluster, e>> \in problems

CollectionInv == TypeOK /\ SessionsAccounted /\ Stages /\ Progress

LEMMA InitInv == Init => CollectionInv
<1> SUFFICES ASSUME Init PROVE CollectionInv
  OBVIOUS
<1>1. TypeOK
  <2>1. service \in [Pairs -> Service] /\ 0 \in 0..MaxFaults /\ 0 \in 0..(MaxFaults + 1)
    BY ConstantsOK DEF Init
  <2>2. QED BY <2>1 DEF Init, TypeOK
<1>2. SessionsAccounted
  BY DEF Init, SessionsAccounted
<1>3. Stages
  BY DEF Init, Stages
<1>4. Progress
  BY DEF Init, Progress
<1>5. QED BY <1>1, <1>2, <1>3, <1>4 DEF CollectionInv

(* The counters stay in range when sessions are accounted for. *)
LEMMA CounterRange ==
  ASSUME NEW l \in Nat, NEW f \in 0..MaxFaults, l <= f, NEW s,
         s = l \/ s = l + 1
  PROVE  l \in 0..MaxFaults /\ s \in 0..(MaxFaults + 1)
  BY ConstantsOK

(* What the ways out of a process do to the session it holds. *)
LEMMA SessionStep ==
  ASSUME TypeOK, SessionsAccounted, LogOut \/ LogOutFails \/ Killed
  PROVE  /\ lost' \in 0..MaxFaults /\ sessions' \in 0..(MaxFaults + 1)
         /\ faults' \in 0..MaxFaults /\ held' = FALSE
         /\ SessionsAccounted'
<1>1. lost \in Nat /\ sessions \in Nat /\ faults \in Nat /\ MaxFaults \in Nat
  BY ConstantsOK DEF TypeOK
<1>2. faults' \in 0..MaxFaults /\ held' = FALSE
  BY <1>1 DEF TypeOK, LogOut, LogOutFails, Killed, Fault
<1>3. sessions' = lost' /\ lost' \in Nat /\ lost' <= faults'
  <2>1. CASE held
    <3>1. sessions = lost + 1 /\ lost <= faults
      BY <2>1 DEF SessionsAccounted
    <3>2. CASE LogOut
      BY <1>1, <2>1, <3>1, <3>2 DEF LogOut
    <3>3. CASE LogOutFails
      BY <1>1, <2>1, <3>1, <3>3 DEF LogOutFails, Fault
    <3>4. CASE Killed
      BY <1>1, <2>1, <3>1, <3>4 DEF Killed, Fault
    <3>5. QED BY <3>2, <3>3, <3>4
  <2>2. CASE ~held
    <3>1. sessions = lost /\ lost <= faults
      BY <1>1, <2>2 DEF SessionsAccounted
    <3>2. QED BY <1>1, <2>2, <3>1 DEF LogOut, LogOutFails, Killed, Fault
  <2>3. QED BY <2>1, <2>2
<1>4. lost' \in 0..MaxFaults /\ sessions' \in 0..(MaxFaults + 1)
  BY <1>2, <1>3, CounterRange
<1>5. SessionsAccounted'
  BY <1>2, <1>3 DEF SessionsAccounted
<1>6. QED BY <1>2, <1>4, <1>5

LEMMA InvStep == CollectionInv /\ [Next]_vars => CollectionInv'
<1> SUFFICES ASSUME CollectionInv, [Next]_vars PROVE CollectionInv'
  OBVIOUS
<1> USE ConstantsOK
    DEF CollectionInv, TypeOK, SessionsAccounted, Stages, Progress, Pairs,
        world, connection, querying, outcome, relations
<1>1. ASSUME NEW m \in {"collect", "test"}, Start(m) PROVE CollectionInv'
  BY <1>1 DEF Start
<1>2. CASE Connect
  <2>1. TypeOK'
    BY <1>2 DEF Connect
  <2>2. SessionsAccounted'
    BY <1>2 DEF Connect
  <2>3. Stages'
    BY <1>2 DEF Connect
  <2>4. Progress'
    BY <1>2 DEF Connect, ClusterWhole
  <2>5. QED BY <2>1, <2>2, <2>3, <2>4
<1>3. CASE LoginFails
  BY <1>3 DEF LoginFails, Raise, Leave, Fault
<1>4. CASE FailsAfterLogin
  <2>1. TypeOK'
    BY <1>4 DEF FailsAfterLogin, Fault
  <2>2. SessionsAccounted'
    BY <1>4 DEF FailsAfterLogin, Fault
  <2>3. Stages'
    BY <1>4 DEF FailsAfterLogin, Fault
  <2>4. Progress'
    BY <1>4 DEF FailsAfterLogin, Fault, ClusterWhole
  <2>5. QED BY <2>1, <2>2, <2>3, <2>4
<1>5. CASE NoClustersVisible
  BY <1>5 DEF NoClustersVisible, Raise, Leave, Fault
<1>6. CASE BuildMaps
  BY <1>6 DEF BuildMaps
<1>7. CASE MapsRaise
  BY <1>7 DEF MapsRaise, Raise, Leave, Fault
<1>8. ASSUME NEW k \in Clusters, BeginCluster(k) PROVE CollectionInv'
  BY <1>8 DEF BeginCluster, ClusterWhole
<1>9. ASSUME NEW e \in Entities, QueryAnswers(e) PROVE CollectionInv'
  <2>1. TypeOK' /\ SessionsAccounted'
    BY <1>9 DEF QueryAnswers, Ask, Service
  <2>2. Stages'
    BY <1>9 DEF QueryAnswers, Ask, Service
  <2>3. Progress'
    BY <1>9 DEF QueryAnswers, Ask, ClusterWhole, Service
  <2>4. QED BY <2>1, <2>2, <2>3
<1>10. ASSUME NEW e \in Entities, QueryUnsupported(e) PROVE CollectionInv'
  <2>1. TypeOK' /\ SessionsAccounted'
    BY <1>10 DEF QueryUnsupported, Ask
  <2>2. Stages'
    BY <1>10 DEF QueryUnsupported, Ask
  <2>3. Progress'
    BY <1>10 DEF QueryUnsupported, Ask, ClusterWhole
  <2>4. QED BY <2>1, <2>2, <2>3
<1>11. ASSUME NEW e \in Entities, QueryFails(e) PROVE CollectionInv'
  <2>1. TypeOK' /\ SessionsAccounted'
    BY <1>11 DEF QueryFails, Ask, Fault
  <2>2. Stages'
    BY <1>11 DEF QueryFails, Ask, Fault
  <2>3. Progress'
    BY <1>11 DEF QueryFails, Ask, ClusterWhole, Fault
  <2>4. QED BY <2>1, <2>2, <2>3
<1>12. CASE ClusterDone
  <2>1. TypeOK' /\ SessionsAccounted'
    BY <1>12 DEF ClusterDone
  <2>2. Stages'
    BY <1>12 DEF ClusterDone
  <2>3. Progress'
    BY <1>12 DEF ClusterDone, ClusterWhole
  <2>4. QED BY <2>1, <2>2, <2>3
<1>13. CASE NoData
  BY <1>13 DEF NoData, Raise, Leave
<1>14. CASE Relate
  <2>1. TypeOK' /\ SessionsAccounted'
    BY <1>14 DEF Relate, Leave, Fault
  <2>2. Stages'
    BY <1>14 DEF Relate, Leave
  <2>3. Progress'
    BY <1>14 DEF Relate, Leave, ClusterWhole
  <2>4. QED BY <2>1, <2>2, <2>3
<1>15. CASE SendResult
  BY <1>15 DEF SendResult, ClusterWhole
<1>25. CASE ProcessingRaises
  BY <1>25 DEF ProcessingRaises, Raise, Leave, Fault
<1>26. CASE SendFails
  <2>1. TypeOK' /\ SessionsAccounted'
    BY <1>26 DEF SendFails, Fault
  <2>2. Stages'
    BY <1>26 DEF SendFails
  <2>3. Progress'
    BY <1>26 DEF SendFails, ClusterWhole
  <2>4. QED BY <2>1, <2>2, <2>3
<1>27. CASE Relist
  <2>1. TypeOK' /\ SessionsAccounted'
    BY <1>27 DEF Relist, Fault
  <2>2. Stages'
    BY <1>27 DEF Relist
  <2>3. Progress'
    BY <1>27 DEF Relist, ClusterWhole
  <2>4. QED BY <2>1, <2>2, <2>3
<1>16. CASE ProbeAnswers
  BY <1>16 DEF ProbeAnswers, Leave
<1>17. CASE ProbeFails
  BY <1>17 DEF ProbeFails, Raise, Leave, Fault
<1>18. CASE SendError
  BY <1>18, ZenonT(60) DEF SendError, ClusterWhole
<1>19. CASE LogOut
  <2>0. /\ lost' \in 0..MaxFaults /\ sessions' \in 0..(MaxFaults + 1)
        /\ faults' \in 0..MaxFaults /\ held' = FALSE
        /\ SessionsAccounted'
    BY <1>19, SessionStep
  <2>1. TypeOK'
    BY <1>19, <2>0 DEF LogOut, AfterFinally
  <2>2. SessionsAccounted'
    BY <2>0
  <2>3. Stages'
    BY <1>19 DEF LogOut, AfterFinally, ClusterWhole
  <2>4. Progress'
    BY <1>19 DEF LogOut, AfterFinally, ClusterWhole
  <2>5. QED BY <2>1, <2>2, <2>3, <2>4
<1>20. CASE LogOutFails
  <2>0. /\ lost' \in 0..MaxFaults /\ sessions' \in 0..(MaxFaults + 1)
        /\ faults' \in 0..MaxFaults /\ held' = FALSE
        /\ SessionsAccounted'
    BY <1>20, SessionStep
  <2>1. TypeOK'
    BY <1>20, <2>0 DEF LogOutFails, AfterFinally, Fault
  <2>2. SessionsAccounted'
    BY <2>0
  <2>3. Stages'
    BY <1>20 DEF LogOutFails, AfterFinally, ClusterWhole, Fault
  <2>4. Progress'
    BY <1>20 DEF LogOutFails, AfterFinally, ClusterWhole, Fault, ClusterWhole
  <2>5. QED BY <2>1, <2>2, <2>3, <2>4
<1>21. CASE Exit
  BY <1>21, ZenonT(60) DEF Exit, ClusterWhole
<1>22. CASE Killed
  <2>0. /\ lost' \in 0..MaxFaults /\ sessions' \in 0..(MaxFaults + 1)
        /\ faults' \in 0..MaxFaults /\ held' = FALSE
        /\ SessionsAccounted'
    BY <1>22, SessionStep
  <2>1. TypeOK'
    BY <1>22, <2>0 DEF Killed, Fault
  <2>2. SessionsAccounted'
    BY <2>0
  <2>3. Stages'
    BY <1>22 DEF Killed, ClusterWhole, Fault
  <2>4. Progress'
    BY <1>22 DEF Killed, ClusterWhole, Fault, ClusterWhole
  <2>5. QED BY <2>1, <2>2, <2>3, <2>4
<1>23. CASE UNCHANGED vars
  <2>1. TypeOK'
    BY <1>23 DEF vars, ClusterWhole
  <2>2. SessionsAccounted'
    BY <1>23 DEF vars, ClusterWhole
  <2>3. Stages'
    BY <1>23 DEF vars, ClusterWhole
  <2>4. Progress'
    BY <1>23 DEF vars, ClusterWhole
  <2>5. QED BY <2>1, <2>2, <2>3, <2>4
<1>24. QED
  BY <1>1, <1>2, <1>3, <1>4, <1>5, <1>6, <1>7, <1>8, <1>9, <1>10, <1>11, <1>12,
     <1>13, <1>14, <1>15, <1>25, <1>26, <1>27, <1>16, <1>17, <1>18, <1>19, <1>20, <1>21, <1>22, <1>23
  DEF Next

THEOREM CollectionInvariant == Spec => []CollectionInv
  BY InitInv, InvStep, PTL DEF Spec

(* Type correctness, for any clusters and entity types. *)
THEOREM TypeCorrect == Spec => []TypeOK
  BY CollectionInvariant, PTL DEF CollectionInv

(* Every vCenter session is held, logged out, or one nobody could close.   *)
THEOREM SessionsAreAccounted == Spec => []SessionsAccounted
  BY CollectionInvariant, PTL DEF CollectionInv

(* A collection that is sent is whole, or says what it misses, of the      *)
(* clusters connect returned.                                              *)
THEOREM SentIsWhole == Spec => []NothingSilentlyMissing
<1>1. CollectionInv => NothingSilentlyMissing
  <2> SUFFICES ASSUME CollectionInv, Collected
               PROVE  /\ returned # {}
                      /\ \A k \in returned : \E e \in Entities : <<k, e>> \in result
                      /\ \A s \in returned \X Entities :
                           service[s] = "data" => s \in result \/ s \in problems
                      /\ failed \subseteq problems
    BY DEF NothingSilentlyMissing
  <2>1. returned # {} /\ \A k \in returned : ClusterWhole(k)
    BY DEF CollectionInv, Stages, Progress, Collected
  <2>2. failed \subseteq problems
    BY DEF CollectionInv, Progress
  <2>3. QED BY <2>1, <2>2 DEF ClusterWhole
<1>2. QED BY <1>1, CollectionInvariant, PTL
=============================================================================
