---------------------------------- MODULE Bundle ----------------------------------
(***************************************************************************)
(* build_release_bundle.py puts a built pak, a README that describes it, on *)
(* request the image it points at, and check sums into one zip, while       *)
(* mp-build may write a pak anew at any moment.  A pak is opened four       *)
(* times: for its facts, for its digest in the README, into the zip, and    *)
(* for its sum.  The content of a pak is the number of its build, which     *)
(* also is the image it points at; versions are numbered in the order of    *)
(* their names, which are sorted as strings.                                *)
(***************************************************************************)
EXTENDS Naturals, FiniteSets, FiniteSetsExt

CONSTANTS
  Versions,   \* a set of numbers
  Within,     \* version -> the versions whose names hold its name
  MaxBuilds,  \* bound: builds
  MaxRuns,    \* bound: bundles that are begun
  MaxFaults   \* bound: failures and kills

None == 0
Builds == 1..MaxBuilds

VARIABLES
  paks,       \* version -> the build its pak is of, None: there is none
  built,      \* builds so far; the local tag names the image of the last
  dist,       \* version -> the bundle in dist
  pc,
  withImage,
  pak,        \* the version whose pak was chosen
  facts,      \* build -> what pak_facts read
  readme,     \* the build and the digest the README names
  tar,        \* the build whose image was saved, None: none
  zip,        \* the members so far
  moved,      \* history: the chosen pak was built anew since it was chosen
  spoilt,     \* history: bundles of these versions were interrupted while written
  runs, faults

builders == <<paks, built>>
choice == <<withImage, pak>>
work == <<facts, readme, tar, zip>>
history == <<spoilt, runs>>
bundleVars == <<builders, dist, pc, choice, work, moved, history, faults>>

Nothing == [pak |-> None, tar |-> None, airgap |-> None, readme |-> <<None, None>>, sums |-> {}]

Init ==
  /\ paks = [v \in Versions |-> None] /\ built = 0
  /\ dist = [v \in Versions |-> [state |-> "none", has |-> Nothing]]
  /\ pc = "off" /\ withImage = FALSE /\ pak = None
  /\ facts = None /\ readme = <<None, None>> /\ tar = None /\ zip = Nothing
  /\ moved = FALSE /\ spoilt = {} /\ runs = 0 /\ faults = 0

-----------------------------------------------------------------------------
(* mp-build replaces a pak and pushes the image it points at. *)
MpBuild(v) ==
  /\ built < MaxBuilds
  /\ built' = built + 1
  /\ paks' = [paks EXCEPT ![v] = built + 1]
  /\ moved' = (moved \/ (pc # "off" /\ pak = v))
  /\ UNCHANGED <<dist, pc, choice, work, history, faults>>

-----------------------------------------------------------------------------
(* The first argument, whatever it is, is looked for in the names; the last *)
(* name of those that hold it is taken.  "--with-image" in its place is in   *)
(* no name.                                                                 *)
Matching(v) == {w \in Versions : paks[w] # None /\ (v # None => w \in Within[v])}

Choose(v, image) ==
  /\ pc = "off" /\ runs < MaxRuns
  /\ v = None => ~image
  /\ Matching(v) # {}
  /\ pc' = "facts" /\ withImage' = image /\ pak' = Max(Matching(v))
  /\ facts' = None /\ readme' = <<None, None>> /\ tar' = None /\ zip' = Nothing
  /\ moved' = FALSE /\ runs' = runs + 1
  /\ UNCHANGED <<builders, dist, spoilt, faults>>

FactsIn(version) == paks[version]

PakFacts ==
  /\ pc = "facts"
  /\ facts' = FactsIn(pak) /\ pc' = "readme"
  /\ UNCHANGED <<builders, dist, choice, readme, tar, zip, moved, history, faults>>

Sha256(version) == paks[version]

Readme ==
  /\ pc = "readme"
  /\ readme' = <<facts, Sha256(pak)>>
  /\ pc' = IF withImage THEN "image" ELSE "zip"
  /\ UNCHANGED <<builders, dist, choice, facts, tar, zip, moved, history, faults>>

(* Mutant: the image is saved by its local tag. *)
ByTag == built
Reference == facts

SaveImage ==
  /\ pc = "image"
  /\ tar' = Reference /\ pc' = "zip"
  /\ UNCHANGED <<builders, dist, choice, facts, readme, zip, moved, history, faults>>

(* Opening the zip for writing empties the one that is there. *)
OpenZip ==
  /\ pc = "zip"
  /\ dist' = [dist EXCEPT ![pak] = [state |-> "open", has |-> Nothing]]
  /\ pc' = "pak"
  /\ UNCHANGED <<builders, choice, work, moved, history, faults>>

(* What AIRGAP.md says of the image: the digest and the name of the tar. *)
AirgapDoc == IF withImage THEN facts ELSE None

WritePak ==
  /\ pc = "pak"
  /\ zip' = [zip EXCEPT !.pak = paks[pak], !.tar = tar, !.airgap = AirgapDoc, !.readme = readme]
  /\ pc' = "sums"
  /\ UNCHANGED <<builders, dist, choice, facts, readme, tar, moved, history, faults>>

Sums == {<<"pak", Sha256(pak)>>} \cup (IF withImage THEN {<<"tar", tar>>} ELSE {})

WriteSums ==
  /\ pc = "sums"
  /\ zip' = [zip EXCEPT !.sums = Sums]
  /\ pc' = "close"
  /\ UNCHANGED <<builders, dist, choice, facts, readme, tar, moved, history, faults>>

Finished(state) == dist' = [dist EXCEPT ![pak] = [state |-> state, has |-> zip]]

Close ==
  /\ pc = "close"
  /\ Finished("whole")
  /\ spoilt' = spoilt \ {pak}
  /\ pc' = "off"
  /\ UNCHANGED <<builders, choice, work, moved, runs, faults>>

-----------------------------------------------------------------------------
(* The zip is open. *)
Emptied == pc \in {"pak", "sums", "close"}

(* A read, the pull, the save or a write fails: it raises.  An open zip is  *)
(* closed on the way out, with the members it has.                          *)
Raises ==
  /\ pc # "off" /\ faults < MaxFaults
  /\ faults' = faults + 1
  /\ pc' = "off"
  /\ IF Emptied THEN Finished("cut") ELSE UNCHANGED dist
  /\ spoilt' = IF Emptied THEN spoilt \cup {pak} ELSE spoilt
  /\ UNCHANGED <<builders, choice, work, moved, runs>>

(* Killed: an open zip has no directory and cannot be read. *)
Killed ==
  /\ pc # "off" /\ faults < MaxFaults
  /\ faults' = faults + 1
  /\ pc' = "off"
  /\ dist' = IF Emptied THEN [dist EXCEPT ![pak].state = "torn"] ELSE dist
  /\ spoilt' = IF Emptied THEN spoilt \cup {pak} ELSE spoilt
  /\ UNCHANGED <<builders, choice, work, moved, runs>>

Next ==
  \/ \E v \in Versions : MpBuild(v)
  \/ \E v \in Versions \cup {None}, image \in BOOLEAN : Choose(v, image)
  \/ PakFacts \/ Readme \/ SaveImage \/ OpenZip \/ WritePak \/ WriteSums \/ Close
  \/ Raises \/ Killed

Spec == Init /\ [][Next]_bundleVars

-----------------------------------------------------------------------------
Complete == {v \in Versions : dist[v].state = "whole"}

(* The image in a bundle is the one its README and AIRGAP.md name, whatever *)
(* was built meanwhile, "rather than whatever happens to be tagged locally" *)
(* (build_release_bundle.py:127-128).                                       *)
TarIsNamed ==
  \A v \in Complete :
    LET b == dist[v].has IN
    b.tar # None => b.tar = b.readme[1] /\ b.airgap = b.tar /\ <<"tar", b.tar>> \in b.sums

(* A bundle describes the build it contains, by version, digest and sum,    *)
(* unless that pak was built anew while the bundle was made                 *)
(* (build_release_bundle.py:13-16).                                         *)
DescribesItsPak ==
  [][\A v \in Versions :
       LET b == dist'[v].has IN
       dist'[v].state = "whole" /\ dist[v].state # "whole" /\ ~moved =>
         /\ b.pak # None /\ b.readme = <<b.pak, b.pak>>
         /\ <<"pak", b.pak>> \in b.sums
         /\ b.tar \in {None, b.pak}]_bundleVars

(* A bundle that is there and not whole was interrupted while it was        *)
(* written; what goes wrong before, the pull of the image above all, leaves *)
(* the last bundle as it was (build_release_bundle.py:225-230).             *)
LastBundleStays ==
  \A v \in Versions : dist[v].state \in {"cut", "torn"} => v \in spoilt

(* A bundle that is there contains what it says it contains, or it was      *)
(* interrupted (build_release_bundle.py:13-16, 127-128, 225-230).           *)
BundleIsTrue == [](TarIsNamed /\ LastBundleStays) /\ DescribesItsPak
=============================================================================
