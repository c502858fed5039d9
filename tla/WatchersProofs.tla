--------------------------- MODULE WatchersProofs ----------------------------
(* Theorems about Watchers, for every value of its constants. *)
EXTENDS Watchers, FiniteSetTheorems, NaturalsInduction, TLAPS

-----------------------------------------------------------------------------
(* The watchers have their own parts of the loop, and lines of their own.  *)
FailureLines == {Failed(r) : r \in Items}
EdgeLines == {Tells(e) : e \in {"live", "aged", "resumed", "stopped"}}

Loop ==
  /\ pc = "save" => which = "ci"
  /\ pc = "look" => which = "issues"
  /\ pc \in {"truncate", "write"} => which \in {"install", "disks"}
  /\ pc = "print" => which # "issues" /\ lines # {}
  /\ pc \in {"idle", "save", "look", "truncate", "write", "print"}
  /\ pc = "idle" => lines = {}

OwnLines ==
  \/ which = "ci" /\ lines \subseteq FailureLines
  \/ which = "issues" /\ lines \subseteq Updates
  \/ which = "install" /\ lines \subseteq EdgeLines \cup {Tells("armed")}
  \/ which = "disks" /\ lines \subseteq {Tells("armed"), Tells("hardware")}

(* Only those that truncate the file leave it unreadable, if killed. *)
FileOK ==
  /\ file.text \in {"absent", "torn", "whole"}
  /\ file.text # "whole" => file.state = {}
  /\ file.text = "torn" => which \in {"install", "disks"} /\ (pc = "write" \/ kills > 0)

Counts ==
  /\ told \in [Lines -> Nat]
  /\ changes \in 0..MaxStamp
  /\ kills \in Nat
  /\ asked \in Nat
  /\ stamp \in [Items -> 0..changes]

WatchType ==
  /\ Loop
  /\ OwnLines
  /\ FileOK
  /\ Counts

-----------------------------------------------------------------------------
(* ci: a failure is printed after it is in the file, and only if it was    *)
(* not printed before.                                                     *)
RunsOnce ==
  /\ which # "ci" => \A r \in Items : told[Failed(r)] = 0
  /\ which = "ci" =>
       /\ file.state \subseteq Items
       /\ \A r \in Items : /\ told[Failed(r)] <= 1
                           /\ told[Failed(r)] > 0 => r \in file.state
                           /\ Failed(r) \in lines => told[Failed(r)] = 0
                           /\ Failed(r) \in lines /\ pc = "print" => r \in file.state

(* The failures in the file that were found, not printed, and will not be  *)
(* printed; those that a kill would add to them.                           *)
Untold == {r \in file.state : /\ Failed(r) \in found /\ told[Failed(r)] = 0
                              /\ ~(pc = "print" /\ Failed(r) \in lines)}
InLines == {r \in Items : Failed(r) \in lines}

RunsLost ==
  which = "ci" =>
    /\ pc = "save" =>
         /\ now \in SUBSET Items /\ file.state \subseteq now
         /\ \A r \in now : /\ r \notin file.state /\ Failed(r) \in found => Failed(r) \in lines
                           /\ r \in file.state => Failed(r) \notin lines
         /\ \A r \in Items : Failed(r) \in lines => r \in now
    /\ Cardinality(InLines) <= Window
    /\ Cardinality(Untold) <= Window * kills

-----------------------------------------------------------------------------
(* issues: a state holds one update of an issue at most.                   *)
Stamps(S) ==
  /\ S \subseteq Items \X (1..MaxStamp)
  /\ \A e, f \in S : e[1] = f[1] => e = f

(* An update was printed as often as kills and requests allow. *)
Over(i, n) == told[Update(i, n)] > kills + asked

(* Such an update is not printed again: it is past, or in the file, or it  *)
(* will be, unless the watch is killed.                                    *)
Safe(i, n) ==
  IF pc = "look" THEN <<i, n>> \in now /\ (RepoOf[i] \in todo => <<i, n>> \in was.state)
  ELSE <<i, n>> \in file.state

UpdateOnce(i, n) ==
  /\ told[Update(i, n)] > 0 \/ Update(i, n) \in lines => n <= stamp[i]
  /\ told[Update(i, n)] <= 1 + kills + asked
  /\ Update(i, n) \in lines => <<i, n>> \in now /\ RepoOf[i] \notin todo
  /\ Over(i, n) => Update(i, n) \notin lines /\ (stamp[i] = n => Safe(i, n))

UpdatesOnce ==
  /\ which # "issues" => \A l \in Updates : told[l] = 0
  /\ which = "issues" =>
       /\ Stamps(file.state)
       /\ pc = "look" => Stamps(now) /\ Stamps(was.state)
       /\ \A i \in Items, n \in 1..MaxStamp : UpdateOnce(i, n)

(* What is found and remembered was printed, what will be remembered is    *)
(* printed before.                                                         *)
UpdatesRemembered ==
  which = "issues" =>
    /\ \A e \in file.state : Update(e[1], e[2]) \in found => told[Update(e[1], e[2])] > 0
    /\ pc = "look" =>
         \A e \in now : Update(e[1], e[2]) \in found =>
           told[Update(e[1], e[2])] > 0 \/ Update(e[1], e[2]) \in lines

-----------------------------------------------------------------------------
(* install: what was printed tells the state b, and with the lines in L it *)
(* tells s.                                                                *)
Agrees(b, L, s) ==
  /\ Tells("resumed") \in L => "collecting" \in s
  /\ Tells("stopped") \in L => "collecting" \notin s
  /\ Tells("resumed") \notin L /\ Tells("stopped") \notin L =>
       ("collecting" \in b <=> "collecting" \in s)
  /\ "cpu" \in s => "cpu" \in b \/ Tells("live") \in L
  /\ "hostcpu" \in b => "hostcpu" \in s \/ Tells("aged") \in L

Faithful ==
  kills = 0 =>
    /\ which = "disks" =>
         /\ pc = "idle" /\ file.text = "whole" => believed = file
         /\ pc # "idle" => lines \in {{Tells("armed")}, {Tells("hardware")}}
         /\ pc = "print" => file = Saved(now)
    /\ which = "install" =>
         /\ pc = "idle" /\ file.text = "whole" => Agrees(believed.state, {}, file.state)
         /\ pc # "idle" => \/ lines = {Tells("armed")}
                           \/ Tells("armed") \notin lines /\ Agrees(believed.state, lines, now)
         /\ pc = "print" => file = Saved(now)

WatchInv ==
  /\ WatchType
  /\ RunsOnce
  /\ RunsLost
  /\ UpdatesOnce
  /\ UpdatesRemembered
  /\ Faithful

-----------------------------------------------------------------------------
(* Lines tell what they are about. *)
LineKinds == {"armed", "live", "aged", "resumed", "stopped", "hardware"}

LEMMA LineParts ==
  /\ \A r : Failed(r).what = "failed" /\ Failed(r).item = r
  /\ \A i, n : Update(i, n).what = "updated" /\ Update(i, n).item = i /\ Update(i, n).stamp = n
  /\ \A w : Tells(w).what = w
  BY DEF Failed, Update, Tells, Line

LEMMA LinesDiffer ==
  /\ \A r, q : Failed(r) = Failed(q) => r = q
  /\ \A i, n, j, m : Update(i, n) = Update(j, m) => i = j /\ n = m
  /\ \A v, w : Tells(v) = Tells(w) => v = w
  /\ \A r, i, n : Failed(r) # Update(i, n)
  /\ \A w \in LineKinds, r \in Items : Failed(r) # Tells(w)
  /\ \A w \in LineKinds : \A i, n : Tells(w) # Update(i, n)
<1>1. /\ \A r : Failed(r).what = "failed" /\ Failed(r).item = r
      /\ \A i, n : Update(i, n).what = "updated" /\ Update(i, n).item = i /\ Update(i, n).stamp = n
      /\ \A w : Tells(w).what = w
  BY LineParts
<1>2. ASSUME NEW r, NEW q, Failed(r) = Failed(q) PROVE r = q
  <2>1. Failed(r).item = r /\ Failed(q).item = q
    BY <1>1
  <2>2. QED BY <1>2, <2>1
<1>3. ASSUME NEW i, NEW n, NEW j, NEW m, Update(i, n) = Update(j, m) PROVE i = j /\ n = m
  <2>1. /\ Update(i, n).item = i /\ Update(j, m).item = j
        /\ Update(i, n).stamp = n /\ Update(j, m).stamp = m
    BY <1>1
  <2>2. QED BY <1>3, <2>1
<1>4. ASSUME NEW v, NEW w, Tells(v) = Tells(w) PROVE v = w
  <2>1. Tells(v).what = v /\ Tells(w).what = w
    BY <1>1
  <2>2. QED BY <1>4, <2>1
<1>5. \A r, i, n : Failed(r) # Update(i, n)
  BY <1>1
<1>6. \A w \in LineKinds, r \in Items : Failed(r) # Tells(w)
  BY <1>1 DEF LineKinds
<1>7. QED BY <1>1, <1>2, <1>3, <1>4, <1>5, <1>6 DEF LineKinds

LEMMA LinesAre ==
  /\ \A r \in Items : Failed(r) \in Lines
  /\ \A i \in Items, n \in 1..MaxStamp : Update(i, n) \in Lines /\ Update(i, n) \in Updates
  /\ \A w \in LineKinds : Tells(w) \in Lines
  BY DEF Lines, Updates, LineKinds

LEMMA LoadedIs ==
  ASSUME FileOK
  PROVE  /\ Loaded.state = file.state /\ SeenRuns = file.state
         /\ Loaded.text = "whole" <=> file.text = "whole"
  BY DEF FileOK, Loaded, Absent, SeenRuns

(* A finite set of numbers that is not empty has a least one. *)
LEMMA LeastOne ==
  ASSUME NEW S \in SUBSET Nat, S # {}
  PROVE  \E m \in S : \A n \in S : m <= n
<1> DEFINE Less == {ss \in Nat \X Nat : ss[1] < ss[2]}
<1>1. IsWellFoundedOn(Less, Nat)
  BY NatLessThanWellFounded DEF OpToRel
<1>2. \A m, n \in Nat : <<n, m>> \notin Less => m <= n
  OBVIOUS
<1> HIDE DEF Less
<1>3. PICK m \in S : \A n \in S : ~(<<n, m>> \in Less)
  BY <1>1, WFMin
<1>4. QED BY <1>2, <1>3

(* The API lists at most Window runs. *)
LEMMA ListingIsShort ==
  ListedRuns \subseteq Items /\ Cardinality(ListedRuns) <= Window
<1> DEFINE S == {r \in Items : verdict[r] # "none"}
<1>1. IsFiniteSet(S) /\ S \subseteq Nat
  BY WatchersOK, FS_Subset
<1>2. ListedRuns = {i \in S : Cardinality({j \in S : j > i}) < Window}
  BY DEF ListedRuns, Latest
<1>3. IsFiniteSet(ListedRuns) /\ ListedRuns \subseteq S
  BY <1>1, <1>2, FS_Subset
<1>4. CASE ListedRuns = {}
  BY <1>4, FS_EmptySet, WatchersOK
<1>5. CASE ListedRuns # {}
  <2>1. PICK m \in ListedRuns : \A n \in ListedRuns : m <= n
    BY <1>1, <1>3, <1>5, LeastOne
  <2> DEFINE Above == {j \in S : j > m}
  <2>0. m \notin Above
    BY <1>1, <1>3
  <2>2. IsFiniteSet(Above) /\ Cardinality(Above) < Window /\ Cardinality(Above) \in Nat
    BY <1>1, <1>2, <2>1, FS_Subset, FS_CardinalityType
  <2>3. ListedRuns \subseteq Above \cup {m}
    BY <1>1, <1>3, <2>1
  <2> HIDE DEF Above
  <2>4. /\ IsFiniteSet(Above \cup {m})
        /\ Cardinality(Above \cup {m}) = Cardinality(Above) + 1
    BY <2>0, <2>2, FS_AddElement
  <2>5. Cardinality(ListedRuns) <= Cardinality(Above) + 1
    BY <2>3, <2>4, FS_Subset
  <2>6. Cardinality(ListedRuns) \in Nat
    BY <1>3, FS_CardinalityType
  <2>7. QED BY <1>3, <2>2, <2>5, <2>6, WatchersOK
<1>6. QED BY <1>4, <1>5

LEMMA IssuesListed ==
  ASSUME NEW repo
  PROVE  \A i \in ListedIssues(repo) : i \in Items /\ RepoOf[i] = repo /\ stamp[i] > 0
  BY DEF ListedIssues, Latest

(* A state that holds one update of an issue tells it. *)
LEMMA StampKnown ==
  ASSUME NEW S, Stamps(S), NEW i, NEW n, <<i, n>> \in S
  PROVE  KnownStamp(S, i) = n
<1> DEFINE known == CHOOSE e \in S : e[1] = i
<1>1. known \in S /\ known[1] = i
  <2>1. <<i, n>>[1] = i
    OBVIOUS
  <2>2. QED BY <2>1
<1>2. known = <<i, n>>
  BY <1>1 DEF Stamps
<1>3. KnownStamp(S, i) = known[2]
  BY <1>1 DEF KnownStamp
<1> HIDE DEF known
<1>4. QED BY <1>2, <1>3

LEMMA WatchInit == Init => WatchInv
<1> SUFFICES ASSUME Init PROVE WatchInv
  OBVIOUS
<1>1. /\ lines = {} /\ pc = "idle" /\ kills = 0 /\ asked = 0 /\ changes = 0
      /\ file.text = "absent" /\ file.state = {}
      /\ told = [l \in Lines |-> 0] /\ stamp = [i \in Items |-> 0]
      /\ which \in {"ci", "issues", "install", "disks"}
  BY DEF Init, Absent
<1>2. WatchType
  BY <1>1, WatchersOK DEF WatchType, Loop, OwnLines, FileOK, Counts
<1>3. \A l \in Lines : told[l] = 0
  BY <1>1
<1>4. RunsOnce
  BY <1>1, <1>3, LinesAre DEF RunsOnce
<1>5. RunsLost
  <2>1. Untold = {} /\ InLines = {}
    BY <1>1 DEF Untold, InLines
  <2>2. QED BY <1>1, <2>1, FS_EmptySet, WatchersOK DEF RunsLost
<1>6. UpdatesOnce
  <2>1. Updates \subseteq Lines
    BY DEF Lines
  <2>2. \A i \in Items, n \in 1..MaxStamp : told[Update(i, n)] = 0
    BY <1>3, LinesAre
  <2>3. Stamps(file.state)
    BY <1>1 DEF Stamps
  <2>4. QED BY <1>1, <1>3, <2>1, <2>2, <2>3 DEF UpdatesOnce, UpdateOnce, Over
<1>7. UpdatesRemembered /\ Faithful
  BY <1>1 DEF UpdatesRemembered, Faithful
<1>8. QED BY <1>2, <1>4, <1>5, <1>6, <1>7 DEF WatchInv

-----------------------------------------------------------------------------
(* The world changes, a request is not answered: no watcher has moved.     *)
Waiting == UNCHANGED <<which, file, run, log, kills, asked>>

LEMMA WaitingKeeps ==
  ASSUME WatchInv, Waiting, stamp' = stamp, changes' \in 0..MaxStamp, changes <= changes'
  PROVE  WatchInv'
<1> USE DEF Waiting, run, log
<1>1. WatchType'
  BY WatchersOK DEF WatchInv, WatchType, Loop, OwnLines, FileOK, Counts
<1>2. RunsOnce' /\ RunsLost'
  BY DEF WatchInv, RunsOnce, RunsLost, Untold, InLines
<1>3. UpdatesOnce' /\ UpdatesRemembered'
  BY DEF WatchInv, UpdatesOnce, UpdateOnce, Over, Safe, UpdatesRemembered
<1>4. Faithful'
  BY DEF WatchInv, Faithful
<1>5. QED BY <1>1, <1>2, <1>3, <1>4 DEF WatchInv

(* An issue is updated: what was printed of it is past.                    *)
LEMMA TouchKeeps ==
  ASSUME WatchInv, NEW i \in Items, Touch(i)
  PROVE  WatchInv'
<1>1. /\ Waiting /\ which = "issues" /\ changes' = changes + 1 /\ changes < MaxStamp
      /\ stamp' = [stamp EXCEPT ![i] = changes + 1]
  BY DEF Touch, Changing, Waiting, run, log
<1>2. changes \in Nat /\ changes <= MaxStamp /\ stamp \in [Items -> 0..changes]
  BY WatchersOK DEF WatchInv, WatchType, Counts
<1> USE DEF Waiting, run, log
<1>3. WatchType'
  BY <1>1, <1>2, WatchersOK DEF WatchInv, WatchType, Loop, OwnLines, FileOK, Counts
<1>4. RunsOnce' /\ RunsLost'
  BY <1>1 DEF WatchInv, RunsOnce, RunsLost
<1>5. ASSUME NEW j \in Items, NEW n \in 1..MaxStamp PROVE UpdateOnce(j, n)'
  <2>1. UpdateOnce(j, n)
    BY <1>1 DEF WatchInv, UpdatesOnce
  <2>2. stamp[j] <= stamp'[j] /\ (stamp'[j] = n => stamp[j] = n \/ n > stamp[j])
    BY <1>1, <1>2
  <2>3. Safe(j, n)' <=> Safe(j, n)
    BY <1>1 DEF Safe
  <2>4. told[Update(j, n)] \in Nat /\ kills \in Nat /\ asked \in Nat /\ stamp[j] \in Nat
    BY <1>2, LinesAre DEF WatchInv, WatchType, Counts
  <2>5. Over(j, n) => told[Update(j, n)] > 0
    BY <2>4 DEF Over
  <2>6. stamp'[j] \in Nat
    BY <1>1, <1>2
  <2>7. QED BY <1>1, <2>1, <2>2, <2>3, <2>4, <2>5, <2>6 DEF UpdateOnce, Over
<1>6. UpdatesOnce'
  BY <1>1, <1>5 DEF WatchInv, UpdatesOnce
<1>7. UpdatesRemembered' /\ Faithful'
  BY <1>1 DEF WatchInv, UpdatesRemembered, Faithful
<1>8. QED BY <1>3, <1>4, <1>6, <1>7 DEF WatchInv

-----------------------------------------------------------------------------
(* ci.  What a watch that does not concern it leaves of the others.        *)
LEMMA RunsElsewhere ==
  ASSUME WatchInv, which # "ci", which' = which, \A r \in Items : told'[Failed(r)] = 0
  PROVE  RunsOnce' /\ RunsLost'
  BY DEF RunsOnce, RunsLost

LEMMA UpdatesElsewhere ==
  ASSUME WatchInv, which # "issues", which' = which, \A l \in Updates : told'[l] = 0
  PROVE  UpdatesOnce' /\ UpdatesRemembered'
  BY DEF UpdatesOnce, UpdatesRemembered

LEMMA FaithfulElsewhere ==
  ASSUME which \notin {"install", "disks"}, which' = which
  PROVE  Faithful'
  BY DEF Faithful

LEMMA LookAtRunsKeeps ==
  ASSUME WatchInv, NEW o \in {"watch", "baseline"}, LookAtRuns(o)
  PROVE  WatchInv'
<1>1. /\ which = "ci" /\ pc = "idle" /\ pc' = "save" /\ asked' \in {asked, asked + 1}
      /\ UNCHANGED <<which, stamp, changes, file, told, believed, kills>>
      /\ now' = file.state \cup Completed
      /\ lines' = NewFailures(o)
      /\ found' = (found \ {Failed(r) : r \in Completed \ file.state}) \cup NewFailures(o)
  BY LoadedIs DEF WatchInv, WatchType, LookAtRuns, Start, world
<1>2. Completed \subseteq ListedRuns
  BY DEF Completed
<1>3. NewFailures(o) \subseteq {Failed(r) : r \in Completed \ file.state}
  BY LoadedIs DEF WatchInv, WatchType, NewFailures
<1>4. \A r \in Items : Failed(r) \in lines' => r \in Completed \ file.state
  BY <1>1, <1>3, LinesDiffer
<1>5. WatchType'
  <2>1. lines' \subseteq FailureLines
    BY <1>1, <1>2, <1>3, ListingIsShort DEF FailureLines
  <2>2. QED BY <1>1, <2>1 DEF WatchInv, WatchType, Loop, OwnLines, FileOK, Counts
<1>6. RunsOnce'
  <2>1. told \in [Lines -> Nat] /\ RunsOnce
    BY DEF WatchInv, WatchType, Counts
  <2>2. \A r \in Items : told[Failed(r)] \in Nat
    BY <2>1, LinesAre
  <2>3. QED BY <1>1, <1>4, <2>1, <2>2 DEF RunsOnce
<1>7. RunsLost'
  <2>1. now' \in SUBSET Items /\ file.state \subseteq now'
    BY <1>1, <1>2, ListingIsShort DEF WatchInv, RunsOnce
  <2>2. \A r \in Completed \ file.state : Failed(r) \in found' => Failed(r) \in lines'
    BY <1>1
  <2>3. InLines' \subseteq ListedRuns
    BY <1>2, <1>4 DEF InLines
  <2>4. Cardinality(InLines') <= Window
    <3>1. IsFiniteSet(ListedRuns) /\ IsFiniteSet(InLines')
      BY <2>3, ListingIsShort, WatchersOK, FS_Subset
    <3>2. Cardinality(InLines') <= Cardinality(ListedRuns)
      BY <2>3, <3>1, FS_Subset
    <3>3. Cardinality(InLines') \in Nat /\ Cardinality(ListedRuns) \in Nat
      BY <3>1, FS_CardinalityType
    <3>4. QED BY <3>2, <3>3, ListingIsShort, WatchersOK
  <2>5. Untold' = Untold
    <3>1. \A r \in file.state : Failed(r) \in found' <=> Failed(r) \in found
      BY <1>1, <1>3, LinesDiffer
    <3>2. QED BY <1>1, <3>1 DEF Untold
  <2>6. Cardinality(Untold) <= Window * kills
    BY <1>1 DEF WatchInv, RunsLost
  <2>7. QED BY <1>1, <1>4, <2>1, <2>2, <2>4, <2>5, <2>6 DEF RunsLost
<1>8. UpdatesOnce' /\ UpdatesRemembered'
  BY <1>1, UpdatesElsewhere DEF WatchInv, UpdatesOnce
<1>9. Faithful'
  BY <1>1, FaithfulElsewhere
<1>10. QED BY <1>5, <1>6, <1>7, <1>8, <1>9 DEF WatchInv

LEMMA RunsFinite ==
  ASSUME WatchInv, which = "ci"
  PROVE  /\ IsFiniteSet(Untold) /\ Untold \subseteq Items /\ Cardinality(Untold) \in Nat
         /\ IsFiniteSet(InLines) /\ InLines \subseteq Items /\ Cardinality(InLines) \in Nat
<1>1. Untold \subseteq Items /\ InLines \subseteq Items
  BY DEF WatchInv, RunsOnce, Untold, InLines
<1>2. IsFiniteSet(Untold) /\ IsFiniteSet(InLines)
  BY <1>1, WatchersOK, FS_Subset
<1>3. QED BY <1>1, <1>2, FS_CardinalityType

(* What is not printed any more only shrinks, unless a watch is killed.    *)
LEMMA FewerLost ==
  ASSUME WatchInv, which = "ci", UNCHANGED <<which, kills>>, pc' # "save",
         Untold' \subseteq Untold, InLines' \subseteq InLines
  PROVE  RunsLost'
<1>1. /\ Cardinality(Untold') <= Cardinality(Untold) /\ Cardinality(Untold') \in Nat
      /\ Cardinality(InLines') <= Cardinality(InLines) /\ Cardinality(InLines') \in Nat
  BY RunsFinite, FS_Subset, FS_CardinalityType
<1>2. Cardinality(Untold) <= Window * kills /\ Cardinality(InLines) <= Window
  BY DEF WatchInv, RunsLost
<1>3. Window * kills \in Int
  BY WatchersOK DEF WatchInv, WatchType, Counts
<1>4. QED BY <1>1, <1>2, <1>3, RunsFinite, WatchersOK DEF RunsLost

LEMMA SaveRunsKeeps ==
  ASSUME WatchInv, pc = "save", Save
  PROVE  WatchInv'
<1>1. /\ which = "ci" /\ UNCHANGED <<which, stamp, changes, told, found, kills, asked>>
      /\ file' = Saved(now)
      /\ \/ lines = {} /\ pc' = "idle" /\ lines' = {}
         \/ lines # {} /\ pc' = "print" /\ lines' = lines
  BY DEF WatchInv, WatchType, Loop, Save, PrintNext, Stop, world, log
<1>2. file'.state = now /\ file'.text = "whole"
  BY <1>1 DEF Saved
<1>3. /\ now \in SUBSET Items /\ file.state \subseteq now
      /\ \A r \in now : /\ r \notin file.state /\ Failed(r) \in found => Failed(r) \in lines
                        /\ r \in file.state => Failed(r) \notin lines
      /\ \A r \in Items : Failed(r) \in lines => r \in now
  BY <1>1 DEF WatchInv, RunsLost
<1>4. WatchType'
  BY <1>1, <1>2 DEF WatchInv, WatchType, Loop, OwnLines, FileOK, Counts
<1>5. RunsOnce'
  <2>1. \A r \in Items : Failed(r) \in lines' /\ pc' = "print" => r \in now
    BY <1>1, <1>3
  <2>2. QED BY <1>1, <1>2, <1>3, <2>1 DEF WatchInv, RunsOnce
<1>6. RunsLost'
  <2>1. Untold' \subseteq Untold
    BY <1>1, <1>2, <1>3 DEF Untold
  <2>2. InLines' \subseteq InLines
    BY <1>1 DEF InLines
  <2>3. QED BY <1>1, <2>1, <2>2, FewerLost
<1>7. UpdatesOnce' /\ UpdatesRemembered'
  BY <1>1, UpdatesElsewhere DEF WatchInv, UpdatesOnce
<1>8. Faithful'
  BY <1>1, FaithfulElsewhere
<1>9. QED BY <1>4, <1>5, <1>6, <1>7, <1>8 DEF WatchInv

-----------------------------------------------------------------------------
(* issues. *)
LEMMA CountedUpdates ==
  ASSUME WatchInv
  PROVE  /\ kills \in Nat /\ asked \in Nat /\ changes \in 0..MaxStamp
         /\ \A i \in Items : stamp[i] \in Nat /\ stamp[i] <= MaxStamp
         /\ \A i \in Items, n \in 1..MaxStamp : told[Update(i, n)] \in Nat
<1>1. Counts
  BY DEF WatchInv, WatchType
<1>2. \A i \in Items : stamp[i] \in 0..changes
  BY <1>1 DEF Counts
<1>3. \A i \in Items, n \in 1..MaxStamp : told[Update(i, n)] \in Nat
  BY <1>1, LinesAre DEF Counts
<1>4. QED BY <1>1, <1>2, <1>3, WatchersOK DEF Counts

LEMMA StartIssuesKeeps ==
  ASSUME WatchInv, NEW o \in {"watch", "baseline", "all"}, StartIssues(o)
  PROVE  WatchInv'
<1> DEFINE known == IF Loaded.text = "whole" /\ o # "all" THEN Loaded.state ELSE {}
<1>1. /\ which = "issues" /\ pc = "idle" /\ pc' = "look" /\ lines = {}
      /\ UNCHANGED <<which, stamp, changes, file, lines, told, found, believed, kills>>
      /\ now' = known /\ was' = Saved(known) /\ todo' = Repos
      /\ asked' = IF o = "watch" THEN asked ELSE asked + 1
  BY DEF WatchInv, WatchType, Loop, StartIssues, Start, world, log
<1>2. known \subseteq file.state /\ (o # "all" => known = file.state)
  BY LoadedIs DEF WatchInv, WatchType, FileOK
<1>3. was'.state = known
  BY <1>1 DEF Saved
<1> HIDE DEF known
<1>4. WatchType'
  BY <1>1, CountedUpdates DEF WatchInv, WatchType, Loop, OwnLines, FileOK, Counts
<1>5. RunsOnce' /\ RunsLost'
  BY <1>1, RunsElsewhere DEF WatchInv, RunsOnce
<1>6. ASSUME NEW i \in Items, NEW n \in 1..MaxStamp PROVE UpdateOnce(i, n)'
  <2>1. UpdateOnce(i, n)
    BY <1>1 DEF WatchInv, UpdatesOnce
  <2>2. ASSUME Over(i, n)' PROVE Over(i, n) /\ o = "watch"
    BY <1>1, <2>1, <2>2, CountedUpdates DEF UpdateOnce, Over
  <2>3. ASSUME Over(i, n)', stamp'[i] = n PROVE <<i, n>> \in known
    BY <1>1, <1>2, <2>1, <2>2, <2>3 DEF UpdateOnce, Safe
  <2>4. Over(i, n)' => Update(i, n) \notin lines' /\ (stamp'[i] = n => Safe(i, n)')
    BY <1>1, <1>3, <2>3 DEF Safe
  <2>5. told'[Update(i, n)] <= 1 + kills' + asked'
    BY <1>1, <2>1, CountedUpdates DEF UpdateOnce
  <2>6. QED BY <1>1, <2>1, <2>4, <2>5 DEF UpdateOnce
<1>7. UpdatesOnce'
  BY <1>1, <1>2, <1>3, <1>6 DEF WatchInv, UpdatesOnce, Stamps
<1>8. UpdatesRemembered'
  BY <1>1, <1>2 DEF WatchInv, UpdatesRemembered
<1>9. Faithful'
  BY <1>1, FaithfulElsewhere
<1>10. QED BY <1>4, <1>5, <1>7, <1>8, <1>9 DEF WatchInv

LEMMA LookAtIssuesKeeps ==
  ASSUME WatchInv, NEW repo, LookAtIssues(repo)
  PROVE  WatchInv'
<1> DEFINE U == Updated(repo)
<1>1. /\ pc = "look" /\ which = "issues" /\ lines = {} /\ repo \in todo /\ todo' = todo \ {repo}
      /\ UNCHANGED <<which, stamp, changes, file, pc, was, told, believed, kills, asked>>
      /\ now' = {e \in now : e[1] \notin U} \cup {<<i, stamp[i]>> : i \in U}
      /\ lines' = Report(repo)
      /\ found' = (found \ News(repo))
                      \cup {l \in Report(repo) : <<l.item, l.stamp>> \notin file.state}
  BY DEF WatchInv, WatchType, Loop, LookAtIssues, world
<1>2. \A i \in U : /\ i \in Items /\ RepoOf[i] = repo /\ stamp[i] \in 1..MaxStamp
                   /\ KnownStamp(was.state, i) # stamp[i]
  <2>1. \A i \in U : i \in ListedIssues(repo) /\ KnownStamp(was.state, i) # stamp[i]
    BY DEF Updated
  <2>2. \A i \in U : i \in Items /\ RepoOf[i] = repo /\ stamp[i] > 0
    BY <2>1, IssuesListed
  <2>3. MaxStamp \in Nat /\ \A i \in Items : stamp[i] \in Nat /\ stamp[i] <= MaxStamp
    BY CountedUpdates, WatchersOK
  <2> HIDE DEF U
  <2>4. QED BY <2>1, <2>2, <2>3
<1>3. News(repo) = {Update(i, stamp[i]) : i \in U} /\ Report(repo) \subseteq News(repo)
  BY DEF News, Report
<1> HIDE DEF U
<1>4. \A i, n : Update(i, n) \in News(repo) <=> i \in U /\ n = stamp[i]
  BY <1>3, LinesDiffer
<1>5. /\ Stamps(file.state) /\ Stamps(now) /\ Stamps(was.state)
      /\ \A i \in Items, n \in 1..MaxStamp : UpdateOnce(i, n)
  BY <1>1 DEF WatchInv, UpdatesOnce
<1>6. WatchType'
  <2>1. lines' \subseteq Updates
    BY <1>1, <1>2, <1>3, LinesAre
  <2>2. QED BY <1>1, <2>1 DEF WatchInv, WatchType, Loop, OwnLines, FileOK, Counts
<1>7. RunsOnce' /\ RunsLost'
  BY <1>1, RunsElsewhere DEF WatchInv, RunsOnce
<1>8. Stamps(now')
  <2>1. now' \subseteq Items \X (1..MaxStamp)
    BY <1>1, <1>2, <1>5 DEF Stamps
  <2>2. \A e \in now' : (e \in now /\ e[1] \notin U) \/ (e[1] \in U /\ e = <<e[1], stamp[e[1]]>>)
    BY <1>1
  <2>3. QED BY <1>5, <2>1, <2>2 DEF Stamps
<1>9. ASSUME NEW i \in Items, NEW n \in 1..MaxStamp PROVE UpdateOnce(i, n)'
  <2>1. UpdateOnce(i, n)
    BY <1>5
  <2>2. Update(i, n) \in lines' => i \in U /\ n = stamp[i]
    BY <1>1, <1>3, <1>4
  <2>3. i \in U => <<i, stamp[i]>> \in now' /\ RepoOf[i] = repo
    BY <1>1, <1>2
  <2>4. ASSUME Over(i, n), stamp[i] = n PROVE Update(i, n) \notin lines' /\ Safe(i, n)'
    <3>1. <<i, n>> \in now /\ (RepoOf[i] \in todo => <<i, n>> \in was.state)
      BY <1>1, <2>1, <2>4 DEF UpdateOnce, Safe
    <3>2. i \in U => FALSE
      BY <1>1, <1>2, <1>5, <2>4, <3>1, StampKnown
    <3>3. <<i, n>> \in now'
      <4>1. <<i, n>>[1] = i
        OBVIOUS
      <4>2. QED BY <1>1, <3>1, <3>2, <4>1
    <3>4. QED BY <1>1, <2>2, <3>1, <3>2, <3>3 DEF Safe
  <2>5. Over(i, n)' <=> Over(i, n)
    BY <1>1 DEF Over
  <2>6. Update(i, n) \in lines' => n <= stamp'[i] /\ <<i, n>> \in now' /\ RepoOf[i] \notin todo'
    BY <1>1, <2>2, <2>3, CountedUpdates
  <2>7. Over(i, n) => Update(i, n) \notin lines'
    BY <2>2, <2>4
  <2>8. QED BY <1>1, <2>1, <2>4, <2>5, <2>6, <2>7 DEF UpdateOnce
<1>10. UpdatesOnce'
  BY <1>1, <1>5, <1>8, <1>9 DEF UpdatesOnce
<1>11. UpdatesRemembered'
  <2>1. UpdatesRemembered
    BY DEF WatchInv
  <2>2. ASSUME NEW i \in Items, NEW n \in 1..MaxStamp, Update(i, n) \in found'
        PROVE  \/ Update(i, n) \in found /\ ~(i \in U /\ n = stamp[i])
               \/ Update(i, n) \in lines' /\ <<i, n>> \notin file.state /\ i \in U
    <3>1. Update(i, n).item = i /\ Update(i, n).stamp = n
      BY LineParts
    <3>2. Update(i, n) \in found \ News(repo) \/ Update(i, n) \in lines'
      BY <1>1, <2>2
    <3>3. Update(i, n) \in Report(repo) => i \in U
      BY <1>3, <1>4
    <3>4. CASE Update(i, n) \in found \ News(repo)
      BY <1>4, <3>4
    <3>5. CASE Update(i, n) \notin found \ News(repo)
      BY <1>1, <2>2, <3>1, <3>3, <3>5
    <3>6. QED BY <3>4, <3>5
  <2>3. ASSUME NEW e \in file.state, Update(e[1], e[2]) \in found'
        PROVE  told[Update(e[1], e[2])] > 0
    <3>1. e[1] \in Items /\ e[2] \in 1..MaxStamp /\ e = <<e[1], e[2]>>
      BY <1>5 DEF Stamps
    <3>2. Update(e[1], e[2]) \in found
      BY <2>2, <2>3, <3>1
    <3>3. QED BY <1>1, <2>1, <3>2 DEF UpdatesRemembered
  <2>4. ASSUME NEW e \in now', Update(e[1], e[2]) \in found'
        PROVE  told[Update(e[1], e[2])] > 0 \/ Update(e[1], e[2]) \in lines'
    <3>1. e[1] \in Items /\ e[2] \in 1..MaxStamp /\ e = <<e[1], e[2]>>
      BY <1>8 DEF Stamps
    <3>2. (e \in now /\ e[1] \notin U) \/ (e[1] \in U /\ e[2] = stamp[e[1]])
      BY <1>1
    <3>3. CASE e[1] \in U /\ e[2] = stamp[e[1]]
      BY <2>2, <2>4, <3>1, <3>3
    <3>4. CASE e \in now /\ e[1] \notin U
      <4>1. Update(e[1], e[2]) \in found
        BY <2>2, <2>4, <3>1, <3>4
      <4>2. QED BY <1>1, <2>1, <3>4, <4>1 DEF UpdatesRemembered
    <3>5. QED BY <3>2, <3>3, <3>4
  <2>5. QED BY <1>1, <2>3, <2>4 DEF UpdatesRemembered
<1>12. Faithful'
  BY <1>1, FaithfulElsewhere
<1>13. QED BY <1>6, <1>7, <1>10, <1>11, <1>12 DEF WatchInv

LEMMA UnansweredRepoKeeps ==
  ASSUME WatchInv, NEW repo, UnansweredRepo(repo)
  PROVE  WatchInv'
<1>1. /\ pc = "look" /\ which = "issues" /\ todo' = todo \ {repo}
      /\ UNCHANGED <<which, stamp, changes, file, pc, was, now, lines, told, found, kills, asked>>
  BY DEF WatchInv, WatchType, Loop, UnansweredRepo, world, log
<1>2. WatchType'
  BY <1>1 DEF WatchInv, WatchType, Loop, OwnLines, FileOK, Counts
<1>3. RunsOnce' /\ RunsLost'
  BY <1>1, RunsElsewhere DEF WatchInv, RunsOnce
<1>4. UpdatesOnce' /\ UpdatesRemembered'
  BY <1>1 DEF WatchInv, UpdatesOnce, UpdateOnce, Over, Safe, UpdatesRemembered
<1>5. Faithful'
  BY <1>1, FaithfulElsewhere
<1>6. QED BY <1>2, <1>3, <1>4, <1>5 DEF WatchInv

LEMMA SaveIssuesKeeps ==
  ASSUME WatchInv, pc = "look", Save
  PROVE  WatchInv'
<1>1. /\ which = "issues" /\ pc' = "idle" /\ lines = {} /\ lines' = {}
      /\ UNCHANGED <<which, stamp, changes, told, found, kills, asked>>
      /\ file' = Saved(now) /\ todo = {} /\ todo' = {}
  BY DEF WatchInv, WatchType, Loop, Save, ToSave, PrintNext, Stop, world, log
<1>2. file'.state = now /\ file'.text = "whole"
  BY <1>1 DEF Saved
<1>3. WatchType'
  BY <1>1, <1>2 DEF WatchInv, WatchType, Loop, OwnLines, FileOK, Counts
<1>4. RunsOnce' /\ RunsLost'
  BY <1>1, RunsElsewhere DEF WatchInv, RunsOnce
<1>5. UpdatesOnce'
  BY <1>1, <1>2 DEF WatchInv, UpdatesOnce, UpdateOnce, Over, Safe
<1>6. UpdatesRemembered'
  BY <1>1, <1>2 DEF WatchInv, UpdatesRemembered
<1>7. Faithful'
  BY <1>1, FaithfulElsewhere
<1>8. QED BY <1>3, <1>4, <1>5, <1>6, <1>7 DEF WatchInv

-----------------------------------------------------------------------------
(* install and disks. *)
LEMMA EdgesAre ==
  ASSUME NEW w, NEW s
  PROVE  /\ Edges(w, s) \subseteq EdgeLines
         /\ Tells("armed") \notin Edges(w, s)
         /\ Tells("live") \in Edges(w, s) <=> "cpu" \in s \ w
         /\ Tells("aged") \in Edges(w, s) <=> "hostcpu" \in w \ s
         /\ Tells("resumed") \in Edges(w, s) <=> "collecting" \in s \ w
         /\ Tells("stopped") \in Edges(w, s) <=> "collecting" \in w \ s
<1>1. \A v : Tells(v) \in Edges(w, s) <=>
               \/ v = "live" /\ "cpu" \in s \ w
               \/ v = "aged" /\ "hostcpu" \in w \ s
               \/ v = "resumed" /\ "collecting" \in s \ w
               \/ v = "stopped" /\ "collecting" \in w \ s
  BY LinesDiffer DEF Edges
<1>2. Edges(w, s) \subseteq EdgeLines
  BY DEF Edges, EdgeLines
<1>3. QED BY <1>1, <1>2

LEMMA LookAtInstallKeeps ==
  ASSUME WatchInv, LookAtInstall
  PROVE  WatchInv'
<1>1. /\ which = "install" /\ pc = "idle" /\ pc' = "truncate"
      /\ UNCHANGED <<which, stamp, changes, file, told, found, believed, kills, asked>>
      /\ now' = signal
      /\ lines' = IF file.text = "whole" THEN Edges(file.state, signal) ELSE {Tells("armed")}
  BY LoadedIs DEF WatchInv, WatchType, LookAtInstall, Start, Differs, world, log
<1>2. lines' \subseteq EdgeLines \cup {Tells("armed")}
  BY <1>1, EdgesAre
<1>3. WatchType'
  BY <1>1, <1>2 DEF WatchInv, WatchType, Loop, OwnLines, FileOK, Counts
<1>4. RunsOnce' /\ RunsLost' /\ UpdatesOnce' /\ UpdatesRemembered'
  BY <1>1, RunsElsewhere, UpdatesElsewhere DEF WatchInv, RunsOnce, UpdatesOnce
<1>5. Faithful'
  <2>1. ASSUME kills = 0, file.text = "whole"
        PROVE  Tells("armed") \notin lines' /\ Agrees(believed.state, lines', signal)
    <3>1. Agrees(believed.state, {}, file.state) /\ lines' = Edges(file.state, signal)
      BY <1>1, <2>1 DEF WatchInv, Faithful
    <3>2. QED BY <3>1, EdgesAre DEF Agrees
  <2>2. QED BY <1>1, <2>1 DEF Faithful
<1>6. QED BY <1>3, <1>4, <1>5 DEF WatchInv

LEMMA LookAtDisksKeeps ==
  ASSUME WatchInv, LookAtDisks
  PROVE  WatchInv'
<1>1. /\ which = "disks" /\ pc = "idle" /\ pc' = "truncate"
      /\ UNCHANGED <<which, stamp, changes, file, told, found, believed, kills, asked>>
      /\ lines' \in {{Tells("armed")}, {Tells("hardware")}}
  BY DEF LookAtDisks, Start, Differs, world, log
<1>2. WatchType'
  BY <1>1 DEF WatchInv, WatchType, Loop, OwnLines, FileOK, Counts
<1>3. RunsOnce' /\ RunsLost' /\ UpdatesOnce' /\ UpdatesRemembered'
  BY <1>1, RunsElsewhere, UpdatesElsewhere DEF WatchInv, RunsOnce, UpdatesOnce
<1>4. Faithful'
  BY <1>1 DEF Faithful
<1>5. QED BY <1>2, <1>3, <1>4 DEF WatchInv

LEMMA TruncateKeeps ==
  ASSUME WatchInv, Truncate
  PROVE  WatchInv'
<1>1. /\ which \in {"install", "disks"} /\ pc = "truncate" /\ pc' = "write"
      /\ UNCHANGED <<which, stamp, changes, now, lines, told, found, believed, kills, asked>>
      /\ file'.text = "torn" /\ file'.state = {}
  BY DEF WatchInv, WatchType, Loop, Truncate, Torn, world, log
<1>2. WatchType'
  BY <1>1 DEF WatchInv, WatchType, Loop, OwnLines, FileOK, Counts
<1>3. RunsOnce' /\ RunsLost' /\ UpdatesOnce' /\ UpdatesRemembered'
  BY <1>1, RunsElsewhere, UpdatesElsewhere DEF WatchInv, RunsOnce, UpdatesOnce
<1>4. Faithful'
  BY <1>1 DEF WatchInv, Faithful
<1>5. QED BY <1>2, <1>3, <1>4 DEF WatchInv

LEMMA WriteKeeps ==
  ASSUME WatchInv, Write
  PROVE  WatchInv'
<1>1. /\ which \in {"install", "disks"} /\ pc = "write" /\ file' = Saved(now)
      /\ UNCHANGED <<which, stamp, changes, told, found, believed, kills, asked>>
      /\ \/ lines = {} /\ pc' = "idle" /\ lines' = {}
         \/ lines # {} /\ pc' = "print" /\ lines' = lines /\ now' = now
  BY DEF WatchInv, WatchType, Loop, Write, PrintNext, Stop, world, log
<1>2. file'.state = now /\ file'.text = "whole"
  BY <1>1 DEF Saved
<1>3. WatchType'
  BY <1>1, <1>2 DEF WatchInv, WatchType, Loop, OwnLines, FileOK, Counts
<1>4. RunsOnce' /\ RunsLost' /\ UpdatesOnce' /\ UpdatesRemembered'
  BY <1>1, RunsElsewhere, UpdatesElsewhere DEF WatchInv, RunsOnce, UpdatesOnce
<1>5. Faithful'
  <2>1. CASE lines = {}
    BY <1>1, <1>2, <2>1 DEF WatchInv, Faithful
  <2>2. CASE lines # {}
    BY <1>1, <2>2 DEF WatchInv, Faithful, Saved
  <2>3. QED BY <2>1, <2>2
<1>6. QED BY <1>3, <1>4, <1>5 DEF WatchInv

-----------------------------------------------------------------------------
(* A line is printed. *)
Printed(l) == told' = [told EXCEPT ![l] = @ + 1]

LEMMA PrintedCounts ==
  ASSUME WatchInv, NEW l \in Lines, Printed(l)
  PROVE  /\ told' \in [Lines -> Nat] /\ told'[l] = told[l] + 1
         /\ \A k \in Lines : k # l => told'[k] = told[k]
<1>1. told \in [Lines -> Nat]
  BY DEF WatchInv, WatchType, Counts
<1>2. QED BY <1>1 DEF Printed

LEMMA PrintRunsKeeps ==
  ASSUME WatchInv, which = "ci", NEW l \in Lines, PrintLine(l)
  PROVE  WatchInv'
<1>1. /\ pc = "print" /\ l \in lines /\ Printed(l)
      /\ UNCHANGED <<which, stamp, changes, file, found, kills, asked>>
      /\ \/ lines = {l} /\ pc' = "idle" /\ lines' = {}
         \/ lines # {l} /\ pc' = "print" /\ lines' = lines \ {l}
  BY DEF WatchInv, WatchType, Loop, PrintLine, Printed, Stop, world
<1>2. PICK r0 \in Items : l = Failed(r0)
  BY <1>1 DEF WatchInv, WatchType, OwnLines, FailureLines
<1>3. /\ told' \in [Lines -> Nat] /\ told'[l] = told[l] + 1
      /\ \A k \in Lines : k # l => told'[k] = told[k]
  BY <1>1, PrintedCounts
<1>4. \A r \in Items : r # r0 => told'[Failed(r)] = told[Failed(r)] /\ Failed(r) # l
  BY <1>2, <1>3, LinesDiffer, LinesAre
<1>5. WatchType'
  BY <1>1, <1>3 DEF WatchInv, WatchType, Loop, OwnLines, FileOK, Counts
<1>6. told[l] = 0 /\ r0 \in file.state
  BY <1>1, <1>2 DEF WatchInv, RunsOnce
<1>7. RunsOnce'
  <2>1. ASSUME NEW r \in Items
        PROVE  /\ told'[Failed(r)] <= 1
               /\ told'[Failed(r)] > 0 => r \in file.state
               /\ Failed(r) \in lines' => told'[Failed(r)] = 0 /\ r \in file.state
    <3>1. CASE r = r0
      BY <1>1, <1>2, <1>3, <1>6, <3>1
    <3>2. CASE r # r0
      BY <1>1, <1>4, <3>2 DEF WatchInv, RunsOnce
    <3>3. QED BY <3>1, <3>2
  <2>2. QED BY <1>1, <2>1 DEF WatchInv, RunsOnce
<1>8. RunsLost'
  <2>1. ASSUME NEW r \in Untold' PROVE r \in Untold
    <3>1. r \in Items /\ r \in file.state /\ Failed(r) \in found /\ told'[Failed(r)] = 0
      BY <1>1 DEF Untold, WatchInv, RunsOnce
    <3>2. r # r0
      BY <1>2, <1>3, <1>6, <3>1
    <3>3. Failed(r) \in lines => pc' = "print" /\ Failed(r) \in lines'
      BY <1>1, <1>4, <3>1, <3>2
    <3>4. QED BY <1>4, <3>1, <3>2, <3>3 DEF Untold
  <2>2. InLines' \subseteq InLines
    BY <1>1 DEF InLines
  <2>3. QED BY <1>1, <2>1, <2>2, FewerLost
<1>9. UpdatesOnce' /\ UpdatesRemembered'
  <2>1. \A i \in Items, n \in 1..MaxStamp : told'[Update(i, n)] = told[Update(i, n)]
    BY <1>2, <1>3, LinesDiffer, LinesAre
  <2>2. \A k \in Updates : told'[k] = 0
    BY <2>1 DEF Updates, WatchInv, UpdatesOnce
  <2>3. QED BY <1>1, <2>2, UpdatesElsewhere
<1>10. Faithful'
  BY <1>1, FaithfulElsewhere
<1>11. QED BY <1>5, <1>7, <1>8, <1>9, <1>10 DEF WatchInv

LEMMA PrintIssuesKeeps ==
  ASSUME WatchInv, which = "issues", NEW l \in Lines, PrintLine(l)
  PROVE  WatchInv'
<1>1. /\ pc = "look" /\ pc' = "look" /\ l \in lines /\ Printed(l) /\ lines' = lines \ {l}
      /\ UNCHANGED <<which, stamp, changes, file, found, kills, asked, was, now, todo>>
  BY DEF WatchInv, WatchType, Loop, PrintLine, Printed, Stop, world
<1>2. PICK i0 \in Items, n0 \in 1..MaxStamp : l = Update(i0, n0)
  BY <1>1 DEF WatchInv, WatchType, OwnLines, Updates
<1>3. /\ told' \in [Lines -> Nat] /\ told'[l] = told[l] + 1
      /\ \A k \in Lines : k # l => told'[k] = told[k]
  BY <1>1, PrintedCounts
<1>4. WatchType'
  BY <1>1, <1>3 DEF WatchInv, WatchType, Loop, OwnLines, FileOK, Counts
<1>5. RunsOnce' /\ RunsLost'
  <2>1. \A r \in Items : told'[Failed(r)] = told[Failed(r)]
    BY <1>2, <1>3, LinesDiffer, LinesAre
  <2>2. QED BY <1>1, <2>1, RunsElsewhere DEF WatchInv, RunsOnce
<1>6. ASSUME NEW i \in Items, NEW n \in 1..MaxStamp PROVE UpdateOnce(i, n)'
  <2>1. UpdateOnce(i, n)
    BY <1>1 DEF WatchInv, UpdatesOnce
  <2>2. CASE Update(i, n) = l
    <3>1. Update(i, n) \in lines /\ Update(i, n) \notin lines'
      BY <1>1, <2>2
    <3>2. ~Over(i, n) /\ n <= stamp[i] /\ <<i, n>> \in now /\ RepoOf[i] \notin todo
      BY <2>1, <3>1 DEF UpdateOnce
    <3>3. told'[Update(i, n)] <= 1 + kills + asked
      BY <1>3, <2>2, <3>2, CountedUpdates DEF Over
    <3>4. QED BY <1>1, <3>1, <3>2, <3>3 DEF UpdateOnce, Safe
  <2>3. CASE Update(i, n) # l
    BY <1>1, <1>3, <2>1, <2>3, LinesAre DEF UpdateOnce, Over, Safe
  <2>4. QED BY <2>2, <2>3
<1>7. UpdatesOnce'
  BY <1>1, <1>6 DEF WatchInv, UpdatesOnce
<1>8. UpdatesRemembered'
  <2>1. ASSUME NEW i \in Items, NEW n \in 1..MaxStamp
        PROVE  /\ told[Update(i, n)] > 0 => told'[Update(i, n)] > 0
               /\ Update(i, n) \in lines => told'[Update(i, n)] > 0 \/ Update(i, n) \in lines'
    BY <1>1, <1>3, LinesAre, CountedUpdates
  <2>2. /\ \A e \in file.state : e[1] \in Items /\ e[2] \in 1..MaxStamp
        /\ \A e \in now : e[1] \in Items /\ e[2] \in 1..MaxStamp
    BY <1>1 DEF WatchInv, UpdatesOnce, Stamps
  <2>3. QED BY <1>1, <2>1, <2>2 DEF WatchInv, UpdatesRemembered
<1>9. Faithful'
  BY <1>1, FaithfulElsewhere
<1>10. QED BY <1>4, <1>5, <1>7, <1>8, <1>9 DEF WatchInv

LEMMA PrintStateKeeps ==
  ASSUME WatchInv, which \in {"install", "disks"}, NEW l \in Lines, PrintLine(l)
  PROVE  WatchInv'
<1>1. /\ pc = "print" /\ l \in lines /\ Printed(l) /\ believed' = Belief(l)
      /\ UNCHANGED <<which, stamp, changes, file, found, kills, asked>>
      /\ \/ lines = {l} /\ pc' = "idle" /\ lines' = {}
         \/ lines # {l} /\ pc' = "print" /\ lines' = lines \ {l} /\ now' = now
  BY DEF WatchInv, WatchType, Loop, PrintLine, Printed, Stop, world
<1>2. PICK w \in LineKinds : l = Tells(w)
  BY <1>1 DEF WatchInv, WatchType, OwnLines, EdgeLines, LineKinds
<1>3. /\ told' \in [Lines -> Nat] /\ told'[l] = told[l] + 1
      /\ \A k \in Lines : k # l => told'[k] = told[k]
  BY <1>1, PrintedCounts
<1>4. WatchType'
  BY <1>1, <1>3 DEF WatchInv, WatchType, Loop, OwnLines, FileOK, Counts
<1>5. RunsOnce' /\ RunsLost' /\ UpdatesOnce' /\ UpdatesRemembered'
  <2>1. \A r \in Items : told'[Failed(r)] = told[Failed(r)]
    BY <1>2, <1>3, LinesDiffer, LinesAre
  <2>2. \A i \in Items, n \in 1..MaxStamp : told'[Update(i, n)] = told[Update(i, n)]
    BY <1>2, <1>3, LinesDiffer, LinesAre
  <2>3. \A k \in Updates : told'[k] = 0
    BY <1>1, <2>2 DEF Updates, WatchInv, UpdatesOnce
  <2>4. QED BY <1>1, <2>1, <2>3, RunsElsewhere, UpdatesElsewhere DEF WatchInv, RunsOnce
<1>6. Faithful'
  <2> SUFFICES ASSUME kills = 0 PROVE Faithful'
    BY <1>1 DEF Faithful
  <2>0. l.what = w
    BY <1>2, LineParts
  <2>1. file = Saved(now) /\ file.state = now /\ file.text = "whole"
    BY <1>1 DEF WatchInv, Faithful, Saved
  <2>2. CASE which = "disks"
    <3>1. lines = {l} /\ w \in {"armed", "hardware"}
      BY <1>1, <1>2, <2>2, LinesDiffer DEF WatchInv, Faithful, LineKinds
    <3>2. believed' = file
      BY <1>1, <2>0, <2>1, <3>1 DEF Belief
    <3>3. QED BY <1>1, <2>2, <3>1, <3>2 DEF Faithful
  <2>3. CASE which = "install"
    <3>1. \/ lines = {Tells("armed")}
          \/ Tells("armed") \notin lines /\ Agrees(believed.state, lines, now)
      BY <1>1, <2>3 DEF WatchInv, Faithful
    <3>2. CASE lines = {Tells("armed")}
      <4>1. lines = {l} /\ w = "armed"
        BY <1>1, <1>2, <3>2, LinesDiffer DEF LineKinds
      <4>2. believed'.state = now
        BY <1>1, <2>0, <4>1 DEF Belief, Saved
      <4>3. Agrees(now, {}, now)
        BY DEF Agrees
      <4>4. QED BY <1>1, <2>1, <2>3, <4>1, <4>2, <4>3 DEF Faithful
    <3>3. CASE Tells("armed") \notin lines /\ Agrees(believed.state, lines, now)
      <4>1. w \in {"live", "aged", "resumed", "stopped"}
        <5>1. l \in EdgeLines
          BY <1>1, <2>3, <3>3 DEF WatchInv, WatchType, OwnLines
        <5>2. QED BY <1>2, <5>1, LinesDiffer DEF EdgeLines
      <4>2. believed'.state = CASE w = "live" -> believed.state \cup {"cpu"}
                                [] w = "aged" -> believed.state \ {"hostcpu"}
                                [] w = "resumed" -> believed.state \cup {"collecting"}
                                [] w = "stopped" -> believed.state \ {"collecting"}
        BY <1>1, <2>0, <4>1 DEF Belief, Saved
      <4>3. /\ \A v : Tells(v) \in lines \ {l} <=> Tells(v) \in lines /\ v # w
            /\ Tells(w) \in lines
        BY <1>1, <1>2, LinesDiffer
      <4>4. Agrees(believed'.state, lines \ {l}, now)
        BY <3>3, <4>1, <4>2, <4>3 DEF Agrees
      <4>5. CASE lines = {l}
        BY <1>1, <2>1, <2>3, <4>4, <4>5 DEF Faithful
      <4>6. CASE lines # {l}
        <5>1. Tells("armed") \notin lines'
          BY <1>1, <3>3
        <5>2. file' = Saved(now')
          BY <1>1, <2>1, <4>6
        <5>3. QED BY <1>1, <2>3, <4>4, <4>6, <5>1, <5>2 DEF Faithful
      <4>7. QED BY <4>5, <4>6
    <3>4. QED BY <3>1, <3>2, <3>3
  <2>4. QED BY <2>2, <2>3
<1>7. QED BY <1>4, <1>5, <1>6 DEF WatchInv

-----------------------------------------------------------------------------
(* A kill: the failures that were to be printed are lost, as many as one   *)
(* listing has; an update may be printed again.                            *)
LEMMA KillKeeps ==
  ASSUME WatchInv, Kill
  PROVE  WatchInv'
<1>1. /\ pc' = "idle" /\ lines' = {} /\ kills' = kills + 1
      /\ UNCHANGED <<which, stamp, changes, file, told, found, believed, asked>>
  BY DEF Kill, Stop, world, log
<1>2. kills' \in Nat /\ kills' > 0
  BY <1>1, CountedUpdates
<1>3. WatchType'
  BY <1>1, <1>2 DEF WatchInv, WatchType, Loop, OwnLines, FileOK, Counts
<1>4. RunsOnce'
  BY <1>1 DEF WatchInv, RunsOnce
<1>5. RunsLost'
  <2> SUFFICES ASSUME which = "ci" PROVE RunsLost'
    BY <1>1 DEF RunsLost
  <2>1. Untold' \subseteq Untold \cup InLines
    BY <1>1 DEF Untold, InLines, WatchInv, RunsOnce
  <2>2. InLines' = {}
    BY <1>1 DEF InLines
  <2>3. /\ IsFiniteSet(Untold) /\ Cardinality(Untold) \in Nat
        /\ IsFiniteSet(InLines) /\ Cardinality(InLines) \in Nat
    BY RunsFinite
  <2>4. /\ IsFiniteSet(Untold \cup InLines) /\ IsFiniteSet(Untold \cap InLines)
        /\ Cardinality(Untold \cup InLines)
             = Cardinality(Untold) + Cardinality(InLines) - Cardinality(Untold \cap InLines)
    BY <2>3, FS_Union, FS_Intersection
  <2>5. /\ Cardinality(Untold') <= Cardinality(Untold \cup InLines)
        /\ Cardinality(Untold') \in Nat
        /\ Cardinality(Untold \cap InLines) \in Nat
    BY <2>1, <2>4, FS_Subset, FS_CardinalityType
  <2>6. Cardinality(Untold) <= Window * kills /\ Cardinality(InLines) <= Window
    BY DEF WatchInv, RunsLost
  <2>7. Window * (kills + 1) = Window * kills + Window /\ Window * kills \in Int
    BY WatchersOK, CountedUpdates
  <2>8. Cardinality(Untold') <= Window * kills'
    BY <1>1, <2>3, <2>4, <2>5, <2>6, <2>7, WatchersOK
  <2>9. Cardinality(InLines') <= Window
    BY <2>2, FS_EmptySet, WatchersOK
  <2>10. QED BY <1>1, <2>8, <2>9 DEF RunsLost
<1>6. ASSUME which = "issues", NEW i \in Items, NEW n \in 1..MaxStamp PROVE UpdateOnce(i, n)'
  <2>1. UpdateOnce(i, n)
    BY <1>6 DEF WatchInv, UpdatesOnce
  <2>2. told'[Update(i, n)] <= 1 + kills' + asked' /\ ~Over(i, n)'
    BY <1>1, <2>1, CountedUpdates DEF UpdateOnce, Over
  <2>3. QED BY <1>1, <2>1, <2>2 DEF UpdateOnce
<1>7. UpdatesOnce'
  BY <1>1, <1>6 DEF WatchInv, UpdatesOnce
<1>8. UpdatesRemembered'
  BY <1>1 DEF WatchInv, UpdatesRemembered
<1>9. Faithful'
  BY <1>2 DEF Faithful
<1>10. QED BY <1>3, <1>4, <1>5, <1>7, <1>8, <1>9 DEF WatchInv

-----------------------------------------------------------------------------
LEMMA WatchStep == WatchInv /\ [Next]_vars => WatchInv'
<1> SUFFICES ASSUME WatchInv, [Next]_vars PROVE WatchInv'
  OBVIOUS
<1>0. changes \in 0..MaxStamp /\ MaxStamp \in Nat
  BY CountedUpdates, WatchersOK
<1>1. ASSUME NEW r \in Items, Push(r) PROVE WatchInv'
  BY <1>0, <1>1, WaitingKeeps DEF Push, Changing, Waiting
<1>2. ASSUME NEW r \in Items, Finish(r) PROVE WatchInv'
  <2>1. Waiting /\ stamp' = stamp /\ changes' = changes
    BY <1>2 DEF Finish, Waiting
  <2>2. QED BY <1>0, <2>1, WaitingKeeps
<1>3. ASSUME NEW r \in Items, Rerun(r) PROVE WatchInv'
  <2>1. Waiting /\ stamp' = stamp /\ changes' = changes + 1 /\ changes < MaxStamp
    BY <1>3 DEF Rerun, Changing, Waiting
  <2>2. QED BY <1>0, <2>1, WaitingKeeps
<1>4. ASSUME NEW i \in Items, Touch(i) PROVE WatchInv'
  BY <1>4, TouchKeeps
<1>5. ASSUME NEW s \in Signals, Signal(s) PROVE WatchInv'
  BY <1>0, <1>5, WaitingKeeps DEF Signal, Changing, Waiting
<1>6. ASSUME NEW d \in Items, Fill(d) PROVE WatchInv'
  BY <1>0, <1>6, WaitingKeeps DEF Fill, Changing, Waiting
<1>7. CASE Unanswered
  BY <1>0, <1>7, WaitingKeeps DEF Unanswered, Waiting, world
<1>8. ASSUME NEW o \in {"watch", "baseline"}, LookAtRuns(o) PROVE WatchInv'
  BY <1>8, LookAtRunsKeeps
<1>9. ASSUME NEW o \in {"watch", "baseline", "all"}, StartIssues(o) PROVE WatchInv'
  BY <1>9, StartIssuesKeeps
<1>10. ASSUME NEW repo \in Repos, LookAtIssues(repo) PROVE WatchInv'
  BY <1>10, LookAtIssuesKeeps
<1>11. ASSUME NEW repo \in Repos, UnansweredRepo(repo) PROVE WatchInv'
  BY <1>11, UnansweredRepoKeeps
<1>12. CASE LookAtInstall
  BY <1>12, LookAtInstallKeeps
<1>13. CASE LookAtDisks
  BY <1>13, LookAtDisksKeeps
<1>14. CASE Save
  BY <1>14, SaveRunsKeeps, SaveIssuesKeeps DEF Save, ToSave
<1>15. CASE Truncate
  BY <1>15, TruncateKeeps
<1>16. CASE Write
  BY <1>16, WriteKeeps
<1>17. ASSUME NEW l \in Lines, PrintLine(l) PROVE WatchInv'
  <2>1. which \in {"ci", "issues", "install", "disks"}
    BY DEF WatchInv, WatchType, OwnLines
  <2>2. QED BY <1>17, <2>1, PrintRunsKeeps, PrintIssuesKeeps, PrintStateKeeps
<1>18. CASE Kill
  BY <1>18, KillKeeps
<1>19. CASE UNCHANGED vars
  BY <1>0, <1>19, WaitingKeeps DEF vars, world, Waiting
<1>20. CASE Watch
  BY <1>8, <1>9, <1>10, <1>12, <1>13, <1>14, <1>15, <1>16, <1>17, <1>20 DEF Watch
<1>21. QED BY <1>1, <1>2, <1>3, <1>4, <1>5, <1>6, <1>7, <1>8, <1>9, <1>11, <1>18, <1>19, <1>20
  DEF Next

(* In every behaviour each watcher keeps its own lines and its own file:   *)
(* what it printed, what it still has to print, what it will save and what *)
(* is in the file account for each other at every step, killed or not.     *)
THEOREM WatchInvariant == Spec => []WatchInv
<1>1. QED BY WatchInit, WatchStep, PTL DEF Spec

(* watch_ci.py saves the ids of the runs before it prints: a failed run is *)
(* printed at most once, and what is in the file without having been       *)
(* printed is at most a listing for every kill.                            *)
THEOREM AtMostAListingIsLost == Spec => []RunsLostToKills
<1>1. WatchInv => RunsLostToKills
  <2> SUFFICES ASSUME WatchInv PROVE RunsLostToKills
    OBVIOUS
  <2>1. \A r \in Items : told[Failed(r)] <= 1
    BY DEF WatchInv, RunsOnce
  <2>2. ASSUME which = "ci", pc = "idle"
        PROVE  Cardinality({r \in SeenRuns : Failed(r) \in found /\ told[Failed(r)] = 0})
                 <= Window * kills
    <3>1. SeenRuns = file.state
      BY LoadedIs DEF WatchInv, WatchType
    <3>2. {r \in SeenRuns : Failed(r) \in found /\ told[Failed(r)] = 0} = Untold
      BY <2>2, <3>1 DEF Untold
    <3>3. QED BY <2>2, <3>2 DEF WatchInv, RunsLost
  <2>3. QED BY <2>1, <2>2 DEF RunsLostToKills
<1>2. QED BY <1>1, WatchInvariant, PTL

(* watch_issues.py prints before it saves: an update that is in the file   *)
(* was printed if a watch was to print it, and it is printed once more at  *)
(* most for every kill and every watch with --all.                         *)
THEOREM UpdatesAreRemembered == Spec => []RememberedIsTold
<1>1. WatchInv => RememberedIsTold
  <2> SUFFICES ASSUME WatchInv PROVE RememberedIsTold
    OBVIOUS
  <2>1. ASSUME NEW l \in Updates PROVE told[l] <= 1 + kills + asked
    <3>1. CASE which = "issues"
      <4>1. PICK i \in Items, n \in 1..MaxStamp : l = Update(i, n)
        BY <2>1 DEF Updates
      <4>2. UpdateOnce(i, n)
        BY <3>1 DEF WatchInv, UpdatesOnce
      <4>3. QED BY <4>1, <4>2 DEF UpdateOnce
    <3>2. CASE which # "issues"
      BY <2>1, <3>2, CountedUpdates DEF WatchInv, UpdatesOnce
    <3>3. QED BY <3>1, <3>2
  <2>2. QED BY <2>1 DEF RememberedIsTold, WatchInv, UpdatesRemembered
<1>2. QED BY <1>1, WatchInvariant, PTL

(* watch_install.py and watch_disk_hw.py: what was printed tells what is   *)
(* in the file as long as nothing was killed, and a file that cannot be    *)
(* read is left only by them, and only by a kill between truncation and    *)
(* write.                                                                  *)
THEOREM PrintedTellsSaved == Spec => []LinesTellState
<1>1. WatchInv => LinesTellState
  <2> SUFFICES ASSUME WatchInv PROVE LinesTellState
    OBVIOUS
  <2>1. file.text = "torn" => which \in {"install", "disks"} /\ (pc = "write" \/ kills > 0)
    BY DEF WatchInv, WatchType, FileOK
  <2>2. ASSUME pc = "idle", kills = 0, file.text = "whole"
        PROVE  /\ which = "disks" => believed = file
               /\ which = "install" =>
                    /\ "collecting" \in believed.state <=> "collecting" \in file.state
                    /\ "cpu" \in file.state => "cpu" \in believed.state
                    /\ "hostcpu" \in believed.state => "hostcpu" \in file.state
    BY <2>2 DEF WatchInv, Faithful, Agrees
  <2>3. QED BY <2>1, <2>2 DEF LinesTellState
<1>2. QED BY <1>1, WatchInvariant, PTL

(* The four watchers: what a saved state remembers was told, and what was  *)
(* told is remembered, but for what a kill took.                           *)
THEOREM WhatIsSavedIsTold == Spec => []SavedIsTold
<1>1. RunsLostToKills /\ RememberedIsTold /\ LinesTellState => SavedIsTold
  BY DEF SavedIsTold
<1>2. QED BY <1>1, AtMostAListingIsLost, UpdatesAreRemembered, PrintedTellsSaved, PTL
=============================================================================
