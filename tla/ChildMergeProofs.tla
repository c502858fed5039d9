-------------------------- MODULE ChildMergeProofs --------------------------
(* Theorems about ChildMerge, for every value of its constants. *)
EXTENDS ChildMerge, TLAPS

(* What is not safe to state is not claimed and was not read: its claim    *)
(* holds no foreign child, and nothing about it has been accounted for.    *)
UnreadIsUnclaimed ==
  \A i \in Instances, p \in Parents :
    p \notin safe[i] => /\ claim[i][p] \subseteq Own
                        /\ churn[i][p] = {}
                        /\ p \notin garbled[i]

(* The inductive invariant: the type invariant, what a read accounts for,  *)
(* and the facts about local state that keep it so.                        *)
MergeInv == TypeOK /\ LocalState /\ UnreadIsUnclaimed /\ ReadAccounted

LEMMA InitTypeOK == Init => TypeOK
  BY ConstantsOK DEF Init, TypeOK, OwnerList, NoChildren, Objects, Settings

(* The listings that changed are objects. *)
LEMMA ChurnedType ==
  ASSUME TypeOK, NEW lists \in [Parents -> SUBSET Objects]
  PROVE  Churned(lists) \in [Instances -> [Parents -> SUBSET Objects]]
BY DEF TypeOK, Churned, SymDiff

LEMMA TypeOKStep == TypeOK /\ [Next]_vars => TypeOK'
<1> SUFFICES ASSUME TypeOK, [Next]_vars PROVE TypeOK'
  OBVIOUS
<1> USE ConstantsOK DEF TypeOK, Objects, Settings
<1>1. ASSUME NEW o \in Objects, NEW p \in Parents \cup {Nowhere}, Move(o, p)
      PROVE TypeOK'
  BY <1>1 DEF Move, packVars
<1>2. ASSUME NEW i \in Instances, SetAttach(i) PROVE TypeOK'
  BY <1>2 DEF SetAttach, packVars
<1>3. ASSUME OwnerCycle PROVE TypeOK'
  <2>1. churn' \in [Instances -> [Parents -> SUBSET Objects]]
    <3>1. [p \in Parents |-> (children[p] \ Foreign) \cup OwnerList(p)]
            \in [Parents -> SUBSET Objects]
      BY DEF OwnerList
    <3>2. QED BY <1>3, <3>1, ChurnedType DEF OwnerCycle
  <2>2. QED BY <1>3, <2>1 DEF OwnerCycle, packVars, OwnerList
<1>4. ASSUME NEW i \in Instances, Collect(i) PROVE TypeOK'
  <2>1. faults' \in 0..MaxFaults
    BY <1>4 DEF Collect, Degraded, Fault
  <2>2. claim' \in [Instances -> [Parents -> SUBSET Objects]]
    BY <1>4 DEF Collect, VcCache
  <2>3. todo' \in [Instances -> SUBSET Parents]
    BY <1>4 DEF Collect
  <2>4. QED BY <1>4, <2>1, <2>2, <2>3 DEF Collect, opsVars
<1>5. ASSUME NEW i \in Instances, NoClient(i) PROVE TypeOK'
  BY <1>5 DEF NoClient, Fault, opsVars
<1>6. ASSUME NEW i \in Instances, Index(i) PROVE TypeOK'
  BY <1>6 DEF Index, Degraded, Fault, opsVars
<1>7. ASSUME NEW i \in Instances, NEW p \in Parents, Read(i, p) PROVE TypeOK'
  <2>1. ASSUME NEW reply \in SUBSET Objects, Merge(i, p, reply),
               garbled' \in [Instances -> SUBSET Parents],
               faults' \in 0..MaxFaults
        PROVE  TypeOK'
    <3>1. claim' \in [Instances -> [Parents -> SUBSET Objects]]
      <4>1. claim' = [claim EXCEPT ![i][p] = Stated(claim[i][p], reply)]
        BY <2>1 DEF Merge
      <4>2. Stated(claim[i][p], reply) \in SUBSET Objects
        BY DEF Stated
      <4>3. QED BY <4>1, <4>2
    <3>2. todo' \in [Instances -> SUBSET Parents] /\ safe' \in [Instances -> SUBSET Parents]
      BY <2>1 DEF Merge
    <3>3. garbled' \in [Instances -> SUBSET Parents]
      BY <2>1
    <3>4. QED BY <2>1, <3>1, <3>2, <3>3 DEF Merge, opsVars
  <2>2. CASE ReadChildren(i, p)
    BY <2>1, <2>2 DEF ReadChildren
  <2>3. CASE ReadErrorResponse(i, p)
    <3>1. garbled' \in [Instances -> SUBSET Parents] /\ faults' \in 0..MaxFaults
      BY <2>3 DEF ReadErrorResponse, Fault
    <3>2. Merge(i, p, {})
      BY <2>3 DEF ReadErrorResponse
    <3>3. QED BY <2>1, <3>1, <3>2
  <2>4. CASE ReadUnparsable(i, p)
    <3>1. garbled' \in [Instances -> SUBSET Parents] /\ faults' \in 0..MaxFaults
      BY <2>4 DEF ReadUnparsable, Fault
    <3>2. PICK bad \in SUBSET children[p] : Merge(i, p, children[p] \ bad)
      BY <2>4 DEF ReadUnparsable
    <3>3. children[p] \ bad \in SUBSET Objects
      OBVIOUS
    <3>4. QED BY <2>1, <3>1, <3>2, <3>3
  <2>5. CASE ReadRaises(i, p)
    BY <2>5 DEF ReadRaises, Fault, opsVars
  <2>6. QED BY <1>7, <2>2, <2>3, <2>4, <2>5 DEF Read
<1>8. ASSUME NEW i \in Instances, Send(i) PROVE TypeOK'
  <2>1. children' \in [Parents -> SUBSET Objects]
    BY <1>8 DEF Send
  <2>2. churn' \in [Instances -> [Parents -> SUBSET Objects]]
    <3> DEFINE lists == [p \in Parents |-> IF p \in safe[i] THEN claim[i][p] ELSE children[p]]
    <3>1. lists \in [Parents -> SUBSET Objects]
      OBVIOUS
    <3>2. churn' = [Churned(lists) EXCEPT ![i] = NoChildren]
      BY <1>8 DEF Send
    <3>3. NoChildren \in [Parents -> SUBSET Objects]
      BY DEF NoChildren
    <3>4. QED BY <3>1, <3>2, <3>3, ChurnedType
  <2>3. QED BY <1>8, <2>1, <2>2 DEF Send, Exit, NoChildren
<1>9. ASSUME NEW i \in Instances, Abort(i) PROVE TypeOK'
  BY <1>9 DEF Abort, Exit, Fault, NoChildren, opsVars
<1>10. CASE UNCHANGED vars
  BY <1>10 DEF vars
<1>11. QED
  BY <1>1, <1>2, <1>3, <1>4, <1>5, <1>6, <1>7, <1>8, <1>9, <1>10 DEF Next

(* Every variable keeps its type. *)
THEOREM TypeCorrect == Spec => []TypeOK
  BY InitTypeOK, TypeOKStep, PTL DEF Spec

-----------------------------------------------------------------------------
LEMMA InitMergeInv == Init => MergeInv
<1> SUFFICES ASSUME Init PROVE MergeInv
  OBVIOUS
<1>1. TypeOK
  BY InitTypeOK
<1>2. LocalState
  BY DEF Init, LocalState
<1>3. UnreadIsUnclaimed
  BY DEF Init, UnreadIsUnclaimed, NoChildren
<1>4. ReadAccounted
  BY DEF Init, ReadAccounted
<1>5. QED BY <1>1, <1>2, <1>3, <1>4 DEF MergeInv

(* When Operations' lists become "lists", what each instance j knows of    *)
(* the parents it has read stays accounted for: the difference is churn.   *)
LEMMA ChurnAccounts ==
  ASSUME TypeOK, ReadAccounted, UnreadIsUnclaimed,
         NEW lists \in [Parents -> SUBSET Objects],
         NEW j \in Instances, NEW p \in Parents
  PROVE  /\ p \notin safe[j] => Churned(lists)[j][p] = {}
         /\ p \in safe[j] /\ p \notin garbled[j]
              => lists[p] \subseteq claim[j][p] \cup Churned(lists)[j][p]
         /\ p \in safe[j]
              => claim[j][p] \ Own \subseteq lists[p] \cup Churned(lists)[j][p]
<1>1. ASSUME p \notin safe[j] PROVE Churned(lists)[j][p] = {}
  BY <1>1 DEF Churned, UnreadIsUnclaimed
<1>2. ASSUME p \in safe[j]
      PROVE  Churned(lists)[j][p] = churn[j][p] \cup SymDiff(children[p], lists[p])
  BY <1>2 DEF Churned
<1>3. p \in safe[j] =>
        /\ p \notin garbled[j] => children[p] \subseteq claim[j][p] \cup churn[j][p]
        /\ claim[j][p] \ Own \subseteq children[p] \cup churn[j][p]
  BY DEF ReadAccounted
<1>4. QED BY <1>1, <1>2, <1>3 DEF SymDiff

(* A read, however it is answered, only adds what is listed to the claim.  *)
LEMMA MergeAccounts ==
  ASSUME MergeInv, NEW i \in Instances, NEW p \in Parents,
         NEW reply \in SUBSET children[p], Merge(i, p, reply),
         \/ garbled' = garbled /\ reply = children[p]
         \/ garbled' = [garbled EXCEPT ![i] = @ \cup {p}]
  PROVE  LocalState' /\ UnreadIsUnclaimed' /\ ReadAccounted'
<1> USE DEF MergeInv, TypeOK
<1>1. /\ claim' = [claim EXCEPT ![i][p] = Stated(claim[i][p], reply)]
      /\ safe' = [safe EXCEPT ![i] = safe[i] \cup {p}]
      /\ todo' = [todo EXCEPT ![i] = todo[i] \ {p}]
      /\ pc[i] = "merge" /\ p \in todo[i]
      /\ UNCHANGED <<home, children, attach, pc, started, churn>>
  BY DEF Merge, opsVars
<1>2. LocalState'
  BY <1>1 DEF LocalState
<1>3. ASSUME NEW j \in Instances, NEW q \in Parents, j # i \/ q # p
      PROVE  /\ claim'[j][q] = claim[j][q]
             /\ q \in safe'[j] <=> q \in safe[j]
             /\ q \in garbled'[j] <=> q \in garbled[j]
  BY <1>1, <1>3
<1>4. claim'[i][p] = claim[i][p] \cup reply /\ p \in safe'[i]
  BY <1>1 DEF Stated
<1>5. p \notin garbled'[i] => reply = children[p]
  OBVIOUS
<1>6. claim[i][p] \ Own \subseteq children[p] \cup churn[i][p]
  BY DEF ReadAccounted, UnreadIsUnclaimed
<1>7. UnreadIsUnclaimed'
  <2> SUFFICES ASSUME NEW j \in Instances, NEW q \in Parents, q \notin safe'[j]
               PROVE  claim'[j][q] \subseteq Own /\ churn'[j][q] = {} /\ q \notin garbled'[j]
    BY DEF UnreadIsUnclaimed
  <2>1. j # i \/ q # p
    BY <1>4
  <2>2. QED BY <1>1, <1>3, <2>1 DEF UnreadIsUnclaimed
<1>8. ReadAccounted'
  <2> SUFFICES ASSUME NEW j \in Instances, NEW q \in safe'[j]
               PROVE  /\ q \notin garbled'[j] => children'[q] \subseteq claim'[j][q] \cup churn'[j][q]
                      /\ claim'[j][q] \ Own \subseteq children'[q] \cup churn'[j][q]
    BY DEF ReadAccounted
  <2>0. q \in Parents
    BY <1>1
  <2>1. CASE j # i \/ q # p
    BY <1>1, <1>3, <2>0, <2>1 DEF ReadAccounted
  <2>2. CASE j = i /\ q = p
    BY <1>1, <1>4, <1>5, <1>6, <2>2
  <2>3. QED BY <2>1, <2>2
<1>9. QED BY <1>2, <1>7, <1>8

(* The end of a collection leaves nothing to account for in i itself.      *)
LEMMA ExitAccounts ==
  ASSUME MergeInv, NEW i \in Instances, Exit(i),
         NEW lists \in [Parents -> SUBSET Objects], children' = lists,
         churn' = [Churned(lists) EXCEPT ![i] = NoChildren]
  PROVE  LocalState' /\ UnreadIsUnclaimed' /\ ReadAccounted'
<1> USE DEF MergeInv
<1>1. /\ safe' = [safe EXCEPT ![i] = {}]
      /\ todo' = [todo EXCEPT ![i] = {}]
      /\ garbled' = [garbled EXCEPT ![i] = {}]
      /\ pc' = [pc EXCEPT ![i] = "idle"]
      /\ started' = [started EXCEPT ![i] = "false"]
      /\ claim' = [claim EXCEPT ![i] = NoChildren]
  BY DEF Exit
<1>2. LocalState'
  BY <1>1 DEF LocalState, TypeOK
<1>3. safe'[i] = {} /\ garbled'[i] = {}
      /\ \A p \in Parents : claim'[i][p] = {} /\ churn'[i][p] = {}
  <2>1. Churned(lists) \in [Instances -> [Parents -> SUBSET Objects]]
    BY ChurnedType
  <2>2. QED BY <1>1, <2>1 DEF TypeOK, NoChildren
<1>4. ASSUME NEW j \in Instances, j # i
      PROVE  /\ safe'[j] = safe[j] /\ garbled'[j] = garbled[j] /\ claim'[j] = claim[j]
             /\ churn'[j] = Churned(lists)[j]
  BY <1>1, <1>4, ChurnedType DEF TypeOK
<1>5. UnreadIsUnclaimed'
  <2> SUFFICES ASSUME NEW j \in Instances, NEW q \in Parents, q \notin safe'[j]
               PROVE  claim'[j][q] \subseteq Own /\ churn'[j][q] = {} /\ q \notin garbled'[j]
    BY DEF UnreadIsUnclaimed
  <2>1. CASE j = i
    BY <1>3, <2>1
  <2>2. CASE j # i
    BY <1>4, <2>2, ChurnAccounts DEF UnreadIsUnclaimed
  <2>3. QED BY <2>1, <2>2
<1>6. ReadAccounted'
  <2> SUFFICES ASSUME NEW j \in Instances, NEW q \in safe'[j]
               PROVE  /\ q \notin garbled'[j] => children'[q] \subseteq claim'[j][q] \cup churn'[j][q]
                      /\ claim'[j][q] \ Own \subseteq children'[q] \cup churn'[j][q]
    BY DEF ReadAccounted
  <2>1. j # i
    BY <1>3
  <2>2. q \in Parents /\ q \in safe[j]
    BY <1>4, <2>1 DEF TypeOK
  <2>3. QED BY <1>4, <2>1, <2>2, ChurnAccounts
<1>7. QED BY <1>2, <1>5, <1>6

LEMMA MergeInvStep == MergeInv /\ [Next]_vars => MergeInv'
<1> SUFFICES ASSUME MergeInv, [Next]_vars
             PROVE  LocalState' /\ UnreadIsUnclaimed' /\ ReadAccounted'
  BY TypeOKStep DEF MergeInv
<1> USE DEF MergeInv
<1>0. ASSUME UNCHANGED <<children, churn, pc, started, claim, todo, safe, garbled>>
      PROVE  LocalState' /\ UnreadIsUnclaimed' /\ ReadAccounted'
  BY <1>0 DEF LocalState, UnreadIsUnclaimed, ReadAccounted
<1>1. ASSUME NEW o \in Objects, NEW p \in Parents \cup {Nowhere}, Move(o, p)
      PROVE  LocalState' /\ UnreadIsUnclaimed' /\ ReadAccounted'
  BY <1>0, <1>1 DEF Move, packVars
<1>2. ASSUME NEW i \in Instances, SetAttach(i)
      PROVE  LocalState' /\ UnreadIsUnclaimed' /\ ReadAccounted'
  BY <1>0, <1>2 DEF SetAttach, packVars
<1>3. ASSUME OwnerCycle PROVE LocalState' /\ UnreadIsUnclaimed' /\ ReadAccounted'
  <2> DEFINE lists == [p \in Parents |-> (children[p] \ Foreign) \cup OwnerList(p)]
  <2>1. lists \in [Parents -> SUBSET Objects]
    BY DEF TypeOK, OwnerList, Objects
  <2>2. /\ children' = lists /\ churn' = Churned(lists)
        /\ UNCHANGED <<pc, started, claim, todo, safe, garbled>>
    BY <1>3 DEF OwnerCycle, packVars
  <2>3. LocalState'
    BY <2>2 DEF LocalState
  <2>4. UnreadIsUnclaimed'
    BY <2>1, <2>2, ChurnAccounts DEF UnreadIsUnclaimed
  <2>5. ReadAccounted'
    <3> HIDE DEF lists
    <3> SUFFICES ASSUME NEW j \in Instances, NEW q \in safe'[j]
                 PROVE  /\ q \notin garbled'[j] => children'[q] \subseteq claim'[j][q] \cup churn'[j][q]
                        /\ claim'[j][q] \ Own \subseteq children'[q] \cup churn'[j][q]
      BY DEF ReadAccounted
    <3>1. q \in Parents /\ q \in safe[j]
      BY <2>2 DEF TypeOK
    <3>2. QED BY <2>1, <2>2, <3>1, ChurnAccounts
  <2>6. QED BY <2>3, <2>4, <2>5
<1>4. ASSUME NEW i \in Instances, Collect(i)
      PROVE  LocalState' /\ UnreadIsUnclaimed' /\ ReadAccounted'
  <2>1. /\ pc[i] = "idle" /\ safe[i] = {}
        /\ UNCHANGED <<children, safe, churn, garbled>>
        /\ started' = [started EXCEPT ![i] = attach[i]]
        /\ pc' = [pc EXCEPT ![i] = IF AttachVc(attach[i]) THEN "client" ELSE "merge"]
    BY <1>4 DEF Collect, LocalState, opsVars
  <2>2. PICK seen \in SUBSET Own :
          /\ claim' = [claim EXCEPT ![i] = VcCache(i, seen)]
          /\ todo' = [todo EXCEPT ![i] =
               {p \in Parents : AttachVc(attach[i]) /\ VcCache(i, seen)[p] # {}}]
    BY <1>4 DEF Collect
  <2>3. LocalState'
    BY <2>1, <2>2 DEF LocalState, TypeOK
  <2>4. \A p \in Parents : claim'[i][p] \subseteq Own
    BY <2>2 DEF TypeOK, VcCache
  <2>5. \A j \in Instances : j # i => claim'[j] = claim[j]
    BY <2>2 DEF TypeOK
  <2>6. UnreadIsUnclaimed'
    BY <2>1, <2>4, <2>5 DEF UnreadIsUnclaimed
  <2>7. ReadAccounted'
    BY <2>1, <2>5 DEF ReadAccounted
  <2>8. QED BY <2>3, <2>6, <2>7
<1>5. ASSUME NEW i \in Instances, NoClient(i)
      PROVE  LocalState' /\ UnreadIsUnclaimed' /\ ReadAccounted'
  <2>1. LocalState'
    BY <1>5 DEF NoClient, LocalState, TypeOK
  <2>2. QED BY <1>5, <2>1 DEF NoClient, UnreadIsUnclaimed, ReadAccounted, opsVars
<1>6. ASSUME NEW i \in Instances, Index(i)
      PROVE  LocalState' /\ UnreadIsUnclaimed' /\ ReadAccounted'
  <2>1. LocalState'
    BY <1>6 DEF Index, LocalState, TypeOK
  <2>2. QED BY <1>6, <2>1 DEF Index, UnreadIsUnclaimed, ReadAccounted, opsVars
<1>7. ASSUME NEW i \in Instances, NEW p \in Parents, Read(i, p)
      PROVE  LocalState' /\ UnreadIsUnclaimed' /\ ReadAccounted'
  <2>1. CASE ReadChildren(i, p)
    BY <2>1, MergeAccounts DEF ReadChildren
  <2>2. CASE ReadErrorResponse(i, p)
    BY <2>2, MergeAccounts DEF ReadErrorResponse
  <2>3. CASE ReadUnparsable(i, p)
    <3>1. PICK bad \in SUBSET children[p] : Merge(i, p, children[p] \ bad)
      BY <2>3 DEF ReadUnparsable
    <3>2. garbled' = [garbled EXCEPT ![i] = @ \cup {p}]
      BY <2>3 DEF ReadUnparsable
    <3>3. children[p] \ bad \in SUBSET children[p]
      OBVIOUS
    <3>4. QED BY <3>1, <3>2, <3>3, MergeAccounts
  <2>4. CASE ReadRaises(i, p)
    <3>1. LocalState'
      BY <2>4 DEF ReadRaises, LocalState, TypeOK
    <3>2. QED BY <2>4, <3>1 DEF ReadRaises, UnreadIsUnclaimed, ReadAccounted, opsVars
  <2>5. QED BY <1>7, <2>1, <2>2, <2>3, <2>4 DEF Read
<1>8. ASSUME NEW i \in Instances, Send(i)
      PROVE  LocalState' /\ UnreadIsUnclaimed' /\ ReadAccounted'
  <2> DEFINE lists == [p \in Parents |-> IF p \in safe[i] THEN claim[i][p] ELSE children[p]]
  <2>1. lists \in [Parents -> SUBSET Objects]
    BY DEF TypeOK
  <2>2. /\ Exit(i) /\ children' = lists
        /\ churn' = [Churned(lists) EXCEPT ![i] = NoChildren]
    BY <1>8 DEF Send
  <2> HIDE DEF lists
  <2>3. QED BY <2>1, <2>2, ExitAccounts
<1>9. ASSUME NEW i \in Instances, Abort(i)
      PROVE  LocalState' /\ UnreadIsUnclaimed' /\ ReadAccounted'
  <2>1. Churned(children) = churn
    BY DEF Churned, SymDiff, TypeOK
  <2>2. /\ Exit(i) /\ children' = children
        /\ churn' = [Churned(children) EXCEPT ![i] = NoChildren]
    BY <1>9, <2>1 DEF Abort, opsVars
  <2>3. children \in [Parents -> SUBSET Objects]
    BY DEF TypeOK
  <2>4. QED BY <2>2, <2>3, ExitAccounts
<1>10. CASE UNCHANGED vars
  BY <1>0, <1>10 DEF vars
<1>11. QED
  BY <1>1, <1>2, <1>3, <1>4, <1>5, <1>6, <1>7, <1>8, <1>9, <1>10 DEF Next

(* The inductive invariant holds of every behaviour. *)
THEOREM MergeInvariant == Spec => []MergeInv
  BY InitMergeInv, MergeInvStep, PTL DEF Spec

(* What a collection is about to state accounts for what Operations holds. *)
THEOREM ReadsAccounted == Spec => []ReadAccounted
  BY MergeInvariant, PTL DEF MergeInv

-----------------------------------------------------------------------------
(* Only sending a result ends a collection with a write of child lists. *)
LEMMA EndsBySending ==
  ASSUME TypeOK, Next, NEW i \in Instances, Ends(i)
  PROVE  Send(i) \/ children' = children
<1> USE DEF TypeOK, Ends
<1>1. ASSUME NEW o \in Objects, NEW p \in Parents \cup {Nowhere}, Move(o, p) PROVE FALSE
  BY <1>1 DEF Move, packVars
<1>2. ASSUME NEW j \in Instances, SetAttach(j) PROVE FALSE
  BY <1>2 DEF SetAttach, packVars
<1>3. ASSUME OwnerCycle PROVE FALSE
  BY <1>3 DEF OwnerCycle, packVars
<1>4. ASSUME NEW j \in Instances, Collect(j) PROVE FALSE
  BY <1>4 DEF Collect
<1>5. ASSUME NEW j \in Instances, NoClient(j) \/ Index(j) PROVE FALSE
  BY <1>5 DEF NoClient, Index
<1>6. ASSUME NEW j \in Instances, NEW p \in Parents, Read(j, p) PROVE FALSE
  BY <1>6 DEF Read, ReadChildren, ReadErrorResponse, ReadUnparsable, ReadRaises, Merge
<1>7. ASSUME NEW j \in Instances, Send(j) PROVE j = i
  BY <1>7 DEF Send, Exit
<1>8. ASSUME NEW j \in Instances, Abort(j) PROVE children' = children
  BY <1>8 DEF Abort, opsVars
<1>9. QED BY <1>1, <1>2, <1>3, <1>4, <1>5, <1>6, <1>7, <1>8 DEF Next

(* A write of this pack changes a foreign child's listing, or drops one of *)
(* its own from a list it read in full, only where a race is to blame.     *)
THEOREM RacesOnly == Spec => OnlyRacesDisturb
<1> DEFINE A(i) == Ends(i) =>
      \A p \in Parents :
        /\ p \notin garbled[i] => children[p] \ children'[p] \subseteq churn[i][p]
        /\ (children'[p] \ children[p]) \cap Foreign \subseteq churn[i][p]
<1>1. ASSUME MergeInv, Next, NEW i \in Instances PROVE A(i)
  <2> SUFFICES ASSUME Ends(i), NEW p \in Parents
               PROVE  /\ p \notin garbled[i] => children[p] \ children'[p] \subseteq churn[i][p]
                      /\ (children'[p] \ children[p]) \cap Foreign \subseteq churn[i][p]
    OBVIOUS
  <2>1. CASE children' = children
    BY <2>1
  <2>2. CASE Send(i)
    <3>1. children'[p] = IF p \in safe[i] THEN claim[i][p] ELSE children[p]
      BY <2>2 DEF Send
    <3>2. p \in safe[i] =>
            /\ p \notin garbled[i] => children[p] \subseteq claim[i][p] \cup churn[i][p]
            /\ claim[i][p] \ Own \subseteq children[p] \cup churn[i][p]
      BY <1>1 DEF MergeInv, ReadAccounted
    <3>3. QED BY <3>1, <3>2, ConstantsOK
  <2>3. QED BY <1>1, <2>1, <2>2, EndsBySending DEF MergeInv
<1>2. MergeInv /\ [Next]_vars => [\A i \in Instances : A(i)]_vars
  BY <1>1
<1>3. QED BY <1>2, MergeInvariant, PTL DEF Spec, OnlyRacesDisturb

(* A collection that started with attaching off writes no child list. *)
THEOREM SwitchIsRespected == Spec => SwitchStopsWrites
<1> DEFINE A(i) == Ends(i) /\ children' # children => started[i] # "false"
<1>1. ASSUME MergeInv, Next, NEW i \in Instances, Ends(i), started[i] = "false"
      PROVE  children' = children
  <2>1. CASE Send(i)
    <3>1. safe[i] = {}
      BY <1>1 DEF MergeInv, LocalState, AttachVc
    <3>2. QED BY <1>1, <2>1, <3>1 DEF Send, MergeInv, TypeOK
  <2>2. QED BY <1>1, <2>1, EndsBySending DEF MergeInv
<1>2. MergeInv /\ [Next]_vars => [\A i \in Instances : A(i)]_vars
  BY <1>1
<1>3. QED BY <1>2, MergeInvariant, PTL DEF Spec, SwitchStopsWrites

-----------------------------------------------------------------------------
(* Without overlap and a second instance nothing is churned. *)
Undisturbed == \A i \in Instances, p \in Parents : churn[i][p] = {}

Alone == ~Overlap /\ \A i, j \in Instances : i = j

LEMMA UndisturbedStep ==
  ASSUME Alone, MergeInv, Undisturbed, [Next]_vars
  PROVE  Undisturbed'
<1> USE DEF Alone
<1>0. ASSUME UNCHANGED churn PROVE Undisturbed'
  BY <1>0 DEF Undisturbed
<1>1. ASSUME OwnerCycle PROVE Undisturbed'
  <2>1. \A i \in Instances : safe[i] = {}
    BY <1>1 DEF OwnerCycle, MergeInv, LocalState
  <2>2. \A i \in Instances, p \in Parents : churn'[i][p] = churn[i][p]
    BY <1>1, <2>1 DEF OwnerCycle, Churned
  <2>3. QED BY <2>2 DEF Undisturbed
<1>2. ASSUME NEW i \in Instances, Send(i) \/ Abort(i) PROVE Undisturbed'
  <2> DEFINE lists == [p \in Parents |-> IF p \in safe[i] THEN claim[i][p] ELSE children[p]]
  <2>1. lists \in [Parents -> SUBSET Objects]
    BY DEF MergeInv, TypeOK
  <2>2. Churned(lists) \in [Instances -> [Parents -> SUBSET Objects]]
    BY <2>1, ChurnedType DEF MergeInv
  <2>3. churn'[i] = NoChildren
    BY <1>2, <2>2 DEF Send, Abort, MergeInv, TypeOK
  <2>4. QED BY <2>3 DEF Undisturbed, NoChildren
<1>3. ASSUME NEW i \in Instances, NEW p \in Parents, Read(i, p) PROVE Undisturbed'
  BY <1>0, <1>3 DEF Read, ReadChildren, ReadErrorResponse, ReadUnparsable, ReadRaises, Merge
<1>4. CASE UNCHANGED vars
  BY <1>0, <1>4 DEF vars
<1>5. QED
  BY <1>0, <1>1, <1>2, <1>3, <1>4
  DEF Next, Move, SetAttach, Collect, NoClient, Index

(* The write of the only instance, seen from the child lists: what it      *)
(* states for a parent is its own children and what it read; that is the   *)
(* whole list unless the answer was cut short.                             *)
LEMMA SendIsAttach ==
  ASSUME Alone, MergeInv, Undisturbed, NEW i \in Instances, Send(i)
  PROVE  \E added \in [Parents -> SUBSET Own], kept \in [Parents -> SUBSET Objects] :
           Atomic!Attach(added, kept)
<1> USE ConstantsOK DEF Alone
<1> DEFINE added == [p \in Parents |-> IF p \in safe[i] THEN claim[i][p] \cap Own ELSE {}]
           kept  == [p \in Parents |-> IF p \in safe[i] THEN claim[i][p] \cap children[p]
                                                        ELSE children[p]]
<1>1. added \in [Parents -> SUBSET Own] /\ kept \in [Parents -> SUBSET Objects]
  BY DEF MergeInv, TypeOK
<1>2. CutShort = garbled[i]
  BY DEF CutShort, MergeInv, TypeOK
<1>3. CutShort' = {}
  BY DEF CutShort, Send, Exit, MergeInv, TypeOK
<1>4. ASSUME NEW p \in Parents, p \in safe[i]
      PROVE  /\ claim[i][p] = (claim[i][p] \cap Own) \cup (claim[i][p] \cap children[p])
             /\ p \notin garbled[i] => children[p] \subseteq claim[i][p]
  BY <1>4 DEF MergeInv, ReadAccounted, Undisturbed
<1>5. \A p \in Parents : p \notin safe[i] => p \notin garbled[i]
  BY DEF MergeInv, UnreadIsUnclaimed
<1>6. \A p \in Parents :
        children'[p] = added[p] \cup IF p \in CutShort THEN kept[p] ELSE children[p]
  <2> SUFFICES ASSUME NEW p \in Parents
               PROVE  children'[p] = added[p] \cup IF p \in CutShort THEN kept[p] ELSE children[p]
    OBVIOUS
  <2>1. CASE p \in safe[i]
    BY <1>2, <1>4, <2>1 DEF Send
  <2>2. CASE p \notin safe[i]
    BY <1>2, <1>5, <2>2 DEF Send
  <2>3. QED BY <2>1, <2>2
<1>7. children' = [p \in Parents |->
        added[p] \cup IF p \in CutShort THEN kept[p] ELSE children[p]]
  BY <1>6 DEF Send
<1>8. Atomic!Attach(added, kept)
  BY <1>3, <1>7 DEF Atomic!Attach, Send
<1>9. QED BY <1>1, <1>8

(* Every step is then an atomic union, a restatement by the owner, a move, *)
(* an answer or a stutter.                                                 *)
LEMMA AtomicStep ==
  ASSUME Alone, MergeInv, Undisturbed, [Next]_vars
  PROVE  [Atomic!Next]_<<home, children, CutShort>>
<1> USE DEF Alone
<1>0. ASSUME UNCHANGED <<home, children, garbled>>
      PROVE  [Atomic!Next]_<<home, children, CutShort>>
  BY <1>0 DEF CutShort
<1>1. ASSUME UNCHANGED <<home, children>> PROVE Atomic!Next
  BY <1>1 DEF Atomic!Next, Atomic!Answer, CutShort
<1>2. ASSUME NEW o \in Objects, NEW p \in Parents \cup {Nowhere}, Move(o, p)
      PROVE  Atomic!Next
  BY <1>2 DEF Move, packVars, CutShort, Atomic!Next, Atomic!Move, Atomic!Objects, Objects,
              MergeInv, TypeOK
<1>3. ASSUME OwnerCycle PROVE Atomic!Next
  BY <1>3 DEF OwnerCycle, OwnerList, packVars, CutShort, Atomic!Next, Atomic!Restate
<1>4. ASSUME NEW i \in Instances, Send(i) PROVE Atomic!Next
  BY <1>4, SendIsAttach DEF Atomic!Next, Atomic!Objects, Objects
<1>5. ASSUME NEW i \in Instances, NEW p \in Parents, Read(i, p)
      PROVE  UNCHANGED <<home, children>>
  BY <1>5 DEF Read, ReadChildren, ReadErrorResponse, ReadUnparsable, ReadRaises, Merge, opsVars
<1>6. CASE UNCHANGED vars
  BY <1>0, <1>6 DEF vars, packVars
<1>7. QED
  BY <1>1, <1>2, <1>3, <1>4, <1>5, <1>6
  DEF Next, SetAttach, Collect, NoClient, Index, Abort, opsVars

(* A single instance whose reads and writes no owner cycle separates       *)
(* implements the atomic union of AtomicMerge, whatever fails.             *)
THEOREM AttachingIsAtomic ==
  ASSUME Alone PROVE Spec => ImplementsAtomicMerge
<1>1. Init => Undisturbed /\ Atomic!Init
  BY DEF Init, Undisturbed, NoChildren, CutShort, Atomic!Init, Atomic!Objects, Objects, OwnerList
<1>2. MergeInv /\ Undisturbed /\ [Next]_vars => Undisturbed'
  BY UndisturbedStep
<1>3. MergeInv /\ Undisturbed /\ [Next]_vars => [Atomic!Next]_<<home, children, CutShort>>
  BY AtomicStep
<1>4. QED BY <1>1, <1>2, <1>3, MergeInvariant, PTL
          DEF Spec, ImplementsAtomicMerge, Atomic!Spec, Atomic!vars
=============================================================================
