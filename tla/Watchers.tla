------------------------------- MODULE Watchers -------------------------------
(***************************************************************************)
(* The scripts that report what is new, once, and keep what they have seen *)
(* in a file (tools/watch_ci.py, watch_issues.py, watch_install.py,        *)
(* watch_disk_hw.py).  A scheduler runs each again and again; it may be    *)
(* killed anywhere.  They differ in the order of their steps:              *)
(*   ci       saves atomically, then prints                                *)
(*   issues   prints, then saves atomically                                *)
(*   install  truncates the file, writes it, then prints what changed      *)
(*   disks    the same, from requests of which each may fail               *)
(* Nothing is shared between them: a behaviour follows one of them.        *)
(***************************************************************************)
EXTENDS Integers, FiniteSets, FiniteSetsExt

CONSTANTS
  Items,      \* CI runs, issues or drives; the order of CI runs and stamps is <
  RepoOf,     \* the repository of each issue
  Window,     \* entries the API lists: per_page
  MaxStamp,   \* bound: changes to the world in a behaviour
  MaxKills,   \* bound: kills
  MaxAsked,   \* bound: watches an operator starts with --baseline or --all
  MaxFails    \* bound: requests that fail

ASSUME WatchersOK ==
  /\ Items \subseteq Nat \ {0} /\ IsFiniteSet(Items) /\ Items # {}
  /\ Window \in Nat \ {0}
  /\ MaxStamp \in Nat /\ MaxKills \in Nat /\ MaxAsked \in Nat /\ MaxFails \in Nat

VARIABLES
  which,    \* the watcher followed
  verdict,  \* CI runs: none, running, ok, bad, and the same when run again
  stamp,    \* issues: when each was last updated, 0: it does not exist
  signal,   \* install: what Operations shows
  filled,   \* disks: drives whose properties are there
  changes,  \* how often the world changed
  file,     \* what the state file holds
  pc,       \* where the running watcher is
  opts,     \* how it was started: watch, baseline, all
  was,      \* the state it loaded
  now,      \* the state it will save
  todo,     \* issues: repositories to ask
  lines,    \* what it still has to print
  told,     \* history: how often each line was printed
  found,    \* history: lines a watch without --baseline should print
  believed, \* history: install, disks: the state that was last printed
  kills, asked, fails

world == <<verdict, stamp, signal, filled, changes>>
run   == <<pc, opts, was, now, todo, lines>>
log   == <<told, found, believed>>
vars  == <<which, world, file, run, log, kills, asked, fails>>

-----------------------------------------------------------------------------
Repos == {RepoOf[i] : i \in Items}

(* VsanCpu objects, VsanHostCpu objects, samples younger than 20 minutes. *)
Signals == SUBSET {"cpu", "hostcpu", "collecting"}

Passed == {"ok", "ok again"}
Bad == {"bad", "bad again"}

(* The lines of each watcher. *)
Line(w, i, n) == [what |-> w, item |-> i, stamp |-> n]
Failed(r) == Line("failed", r, 0)
Update(i, n) == Line("updated", i, n)
Tells(w) == Line(w, 0, 0)
Updates == {Update(i, n) : i \in Items, n \in 1..MaxStamp}
Lines == {Failed(r) : r \in Items} \cup Updates
           \cup {Tells(w) : w \in {"armed", "live", "aged", "resumed", "stopped", "hardware"}}

(* The latest entries of a listing: by age for runs, by update for issues.  *)
Latest(S, at(_)) == {i \in S : Cardinality({j \in S : at(j) > at(i)}) < Window}
ListedRuns == Latest({r \in Items : verdict[r] # "none"}, LAMBDA r : r)
ListedIssues(repo) ==
  Latest({i \in Items : RepoOf[i] = repo /\ stamp[i] > 0}, LAMBDA i : stamp[i])

Absent == [text |-> "absent", state |-> {}]
Torn == [text |-> "torn", state |-> {}]
Saved(state) == [text |-> "whole", state |-> state]

Init ==
  /\ which \in {"ci", "issues", "install", "disks"}
  /\ verdict = [r \in Items |-> "none"]
  /\ stamp = [i \in Items |-> 0]
  /\ signal = {}
  /\ filled = {}
  /\ changes = 0
  /\ file = Absent
  /\ pc = "idle"
  /\ opts = "watch"
  /\ was = Absent
  /\ now = {}
  /\ todo = {}
  /\ lines = {}
  /\ told = [l \in Lines |-> 0]
  /\ found = {}
  /\ believed = Absent
  /\ kills = 0
  /\ asked = 0
  /\ fails = 0

-----------------------------------------------------------------------------
(* What the watchers look at.                                              *)

Changing(w) == which = w /\ changes < MaxStamp /\ changes' = changes + 1

Push(r) ==
  /\ Changing("ci")
  /\ verdict[r] = "none"
  /\ \A q \in Items : q < r => verdict[q] # "none"
  /\ verdict' = [verdict EXCEPT ![r] = "running"]
  /\ UNCHANGED <<which, stamp, signal, filled, file, run, log, kills, asked, fails>>

Finish(r) ==
  /\ which = "ci"
  /\ \E v \in IF verdict[r] = "running" THEN {"ok", "bad"}
          ELSE IF verdict[r] = "running again" THEN {"ok again", "bad again"} ELSE {} :
       verdict' = [verdict EXCEPT ![r] = v]
  /\ UNCHANGED <<which, stamp, signal, filled, changes, file, run, log, kills, asked, fails>>

(* Jobs that are run again keep the id of their run. *)
Rerun(r) ==
  /\ Changing("ci")
  /\ verdict[r] \in Passed \cup Bad
  /\ verdict' = [verdict EXCEPT ![r] = "running again"]
  /\ UNCHANGED <<which, stamp, signal, filled, file, run, log, kills, asked, fails>>

Touch(i) ==
  /\ Changing("issues")
  /\ stamp' = [stamp EXCEPT ![i] = changes']
  /\ UNCHANGED <<which, verdict, signal, filled, file, run, log, kills, asked, fails>>

Signal(s) ==
  /\ Changing("install")
  /\ s # signal
  /\ signal' = s
  /\ UNCHANGED <<which, verdict, stamp, filled, file, run, log, kills, asked, fails>>

Fill(d) ==
  /\ Changing("disks")
  /\ d \notin filled
  /\ filled' = filled \cup {d}
  /\ UNCHANGED <<which, verdict, stamp, signal, file, run, log, kills, asked, fails>>

-----------------------------------------------------------------------------
(* A watch.  A state that is missing or cannot be read is no state.        *)

Loaded == IF file.text = "torn" THEN Absent ELSE file

Start(w, o) ==
  /\ which = w
  /\ pc = "idle"
  /\ opts' = o
  /\ asked' = IF o = "watch" THEN asked ELSE asked + 1
  /\ asked' <= MaxAsked

Stop ==
  /\ pc' = "idle"
  /\ opts' = "watch"
  /\ was' = Absent
  /\ now' = {}
  /\ todo' = {}
  /\ lines' = {}

FailedRequest == fails < MaxFails /\ fails' = fails + 1

(* A request that fails ends the watch before anything is saved. *)
Unanswered ==
  /\ which # "issues"
  /\ pc = "idle"
  /\ FailedRequest
  /\ UNCHANGED <<which, world, file, run, log, kills, asked>>

(* ci: the listing and the runs seen before; a run that failed is printed  *)
(* if its id is new, and every completed one is remembered.                *)
SeenRuns == IF Loaded.text = "whole" THEN Loaded.state ELSE {}
Completed == {r \in ListedRuns : verdict[r] \in Passed \cup Bad}
NewFailures(o) ==
  IF o = "baseline" THEN {} ELSE {Failed(r) : r \in {q \in Completed \ SeenRuns : verdict[q] \in Bad}}

LookAtRuns(o) ==
  /\ Start("ci", o)
  /\ now' = SeenRuns \cup Completed
  /\ lines' = NewFailures(o)
  /\ found' = (found \ {Failed(r) : r \in Completed \ SeenRuns}) \cup NewFailures(o)
  /\ pc' = "save"
  /\ UNCHANGED <<which, world, file, was, todo, told, believed, kills, fails>>

(* issues: one repository after the other; what is not as it was is        *)
(* printed at once.  A repository that does not answer counts as empty.    *)
(* What --all shows although it is in the file is not found anew.          *)
KnownStamp(state, i) == IF \E e \in state : e[1] = i
                        THEN (CHOOSE e \in state : e[1] = i)[2] ELSE 0

StartIssues(o) ==
  /\ Start("issues", o)
  /\ LET known == IF Loaded.text = "whole" /\ o # "all" THEN Loaded.state ELSE {}
     IN  was' = Saved(known) /\ now' = known
  /\ todo' = Repos
  /\ pc' = "look"
  /\ UNCHANGED <<which, world, file, lines, log, kills, fails>>

(* Variant: only new issues are reported. *)
NewOnly(repo) == {i \in ListedIssues(repo) : KnownStamp(was.state, i) = 0}
Updated(repo) == {i \in ListedIssues(repo) : KnownStamp(was.state, i) # stamp[i]}
News(repo) == {Update(i, stamp[i]) : i \in Updated(repo)}
Report(repo) == IF opts = "baseline" THEN {} ELSE News(repo)

LookAtIssues(repo) ==
  /\ pc = "look"
  /\ lines = {}
  /\ repo \in todo
  /\ todo' = todo \ {repo}
  /\ now' = {e \in now : e[1] \notin Updated(repo)} \cup {<<i, stamp[i]>> : i \in Updated(repo)}
  /\ lines' = Report(repo)
  /\ found' = (found \ News(repo))
                \cup {l \in Report(repo) : <<l.item, l.stamp>> \notin file.state}
  /\ UNCHANGED <<which, world, file, pc, opts, was, told, believed, kills, asked, fails>>

UnansweredRepo(repo) ==
  /\ pc = "look"
  /\ lines = {}
  /\ repo \in todo
  /\ FailedRequest
  /\ todo' = todo \ {repo}
  /\ UNCHANGED <<which, world, file, pc, opts, was, now, lines, log, kills, asked>>

(* install and disks: nothing happens unless the state is another one.     *)
Edges(w, s) ==
  {Tells(e) : e \in {x \in {"live", "aged", "resumed", "stopped"} :
     CASE x = "live" -> "cpu" \in s \ w
       [] x = "aged" -> "hostcpu" \in w \ s
       [] x = "resumed" -> "collecting" \in s \ w
       [] x = "stopped" -> "collecting" \in w \ s}}

Differs(s, edges(_)) ==
  /\ ~(Loaded.text = "whole" /\ Loaded.state = s)
  /\ was' = Loaded
  /\ now' = s
  /\ lines' = IF Loaded.text = "whole" THEN edges(Loaded.state) ELSE {Tells("armed")}
  /\ pc' = "truncate"
  /\ UNCHANGED <<which, world, file, todo, log, kills>>

LookAtInstall ==
  /\ Start("install", "watch")
  /\ Differs(signal, LAMBDA w : Edges(w, signal))
  /\ UNCHANGED fails

(* A drive whose request fails counts as one without properties. *)
LookAtDisks ==
  /\ Start("disks", "watch")
  /\ \E missed \in SUBSET filled :
       /\ fails' = fails + Cardinality(missed)
       /\ fails' <= MaxFails
       /\ Differs(1..Cardinality(filled \ missed), LAMBDA w : {Tells("hardware")})

-----------------------------------------------------------------------------
(* Saving and printing.                                                    *)

ToSave ==
  \/ pc = "save"
  \/ pc = "look" /\ todo = {} /\ lines = {}

PrintNext == IF lines = {} THEN Stop ELSE pc' = "print" /\ UNCHANGED <<opts, was, now, todo, lines>>

(* Variant: issues are saved before the last lines are printed. *)
SaveFirst ==
  /\ pc = "save" \/ (pc = "look" /\ todo = {})
  /\ file' = Saved(now)
  /\ PrintNext
  /\ UNCHANGED <<which, world, log, kills, asked, fails>>

(* ci: a temporary file is renamed over the state, then the lines follow;  *)
(* issues: every line has been printed.                                    *)
Save ==
  /\ ToSave
  /\ file' = Saved(now)
  /\ PrintNext
  /\ UNCHANGED <<which, world, log, kills, asked, fails>>

Truncate ==
  /\ pc = "truncate"
  /\ file' = Torn
  /\ pc' = "write"
  /\ UNCHANGED <<which, world, opts, was, now, todo, lines, log, kills, asked, fails>>

Write ==
  /\ pc = "write"
  /\ file' = Saved(now)
  /\ PrintNext
  /\ UNCHANGED <<which, world, log, kills, asked, fails>>

(* What a line of install tells of the state. *)
Belief(l) ==
  CASE l.what \in {"armed", "hardware"} -> Saved(now)
    [] l.what = "live" -> Saved(believed.state \cup {"cpu"})
    [] l.what = "aged" -> Saved(believed.state \ {"hostcpu"})
    [] l.what = "resumed" -> Saved(believed.state \cup {"collecting"})
    [] l.what = "stopped" -> Saved(believed.state \ {"collecting"})

PrintLine(l) ==
  /\ pc \in {"print", "look"}
  /\ l \in lines
  /\ told' = [told EXCEPT ![l] = @ + 1]
  /\ believed' = IF which \in {"ci", "issues"} THEN believed ELSE Belief(l)
  /\ IF lines = {l} /\ pc = "print" THEN Stop
     ELSE lines' = lines \ {l} /\ UNCHANGED <<pc, opts, was, now, todo>>
  /\ UNCHANGED <<which, world, file, found, kills, asked, fails>>

Kill ==
  /\ pc # "idle"
  /\ kills < MaxKills
  /\ kills' = kills + 1
  /\ Stop
  /\ UNCHANGED <<which, world, file, log, asked, fails>>

-----------------------------------------------------------------------------
(* What a watch does once it is started, and the scheduler starting it. *)
Watch ==
  \/ LookAtRuns("watch")
  \/ StartIssues("watch")
  \/ \E repo \in Repos : LookAtIssues(repo)
  \/ LookAtInstall
  \/ LookAtDisks
  \/ Save
  \/ Truncate
  \/ Write
  \/ \E l \in Lines : PrintLine(l)

Next ==
  \/ \E r \in Items : Push(r)
  \/ \E r \in Items : Finish(r)
  \/ \E r \in Items : Rerun(r)
  \/ \E i \in Items : Touch(i)
  \/ \E s \in Signals : Signal(s)
  \/ \E d \in Items : Fill(d)
  \/ Unanswered
  \/ LookAtRuns("baseline")
  \/ \E o \in {"baseline", "all"} : StartIssues(o)
  \/ \E repo \in Repos : UnansweredRepo(repo)
  \/ Watch
  \/ Kill

Spec == Init /\ [][Next]_vars

(* Requests fail and watches are killed only so often (MaxFails, MaxKills), *)
(* and the scheduler always starts the next watch.                         *)
FairSpec == Spec /\ WF_vars(Watch)

-----------------------------------------------------------------------------
(* ci: whenever it is killed, a run is reported at most once, and one it    *)
(* found failing is lost only to a kill, which costs at most the failures   *)
(* of one listing.                                                          *)
RunsLostToKills ==
  /\ \A r \in Items : told[Failed(r)] <= 1
  /\ which = "ci" /\ pc = "idle" =>
       Cardinality({r \in SeenRuns : Failed(r) \in found /\ told[Failed(r)] = 0}) <= Window * kills

(* issues: an update is remembered only after it was reported, and it is    *)
(* reported again only after a kill or by request.                          *)
RememberedIsTold ==
  /\ which = "issues" /\ file.text = "whole" =>
       \A e \in file.state : Update(e[1], e[2]) \in found => told[Update(e[1], e[2])] > 0
  /\ \A l \in Updates : told[l] <= 1 + kills + asked

(* install, disks: as long as nothing was killed, the lines that were      *)
(* printed, read in order, tell the saved state: that collection runs or   *)
(* stopped, that the new image is there, that the old one is gone.  Only   *)
(* these two leave a file that cannot be read, and only when killed.       *)
LinesTellState ==
  /\ file.text = "torn" => which \in {"install", "disks"} /\ (pc = "write" \/ kills > 0)
  /\ pc = "idle" /\ kills = 0 /\ file.text = "whole" =>
       /\ which = "disks" => believed = file
       /\ which = "install" =>
            /\ "collecting" \in believed.state <=> "collecting" \in file.state
            /\ "cpu" \in file.state => "cpu" \in believed.state
            /\ "hostcpu" \in believed.state => "hostcpu" \in file.state

(* Each watcher: what it remembers is what it told, and what it told it     *)
(* remembers, but for what a kill took (watch_ci.py:44-92,                  *)
(* watch_issues.py:86-128, watch_install.py:31-93, watch_disk_hw.py:26-84). *)
SavedIsTold == RunsLostToKills /\ RememberedIsTold /\ LinesTellState

(* What the listing shows and no operator asked to skip is told, unless it *)
(* leaves the listing first: an update of an issue whatever is killed, a   *)
(* first failure of a run if nothing is.                                   *)
Due(i) ==
  /\ asked = 0
  /\ \/ which = "ci" /\ kills = 0 /\ i \in ListedRuns /\ verdict[i] = "bad" /\ told[Failed(i)] = 0
     \/ which = "issues" /\ i \in ListedIssues(RepoOf[i]) /\ told[Update(i, stamp[i])] = 0

EveryNewsTold == \A i \in Items : Due(i) ~> ~Due(i)
=============================================================================
