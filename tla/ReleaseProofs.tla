--------------------------- MODULE ReleaseProofs ---------------------------
(***************************************************************************)
(* Proofs about Release, for any runs, branches and number of images.      *)
(* The concurrency group lets one run at a time act on the registry and on *)
(* the Release; so what a publish job saw when it checked the tag is still *)
(* so when it copies, and one run at most ever gets past that check.       *)
(***************************************************************************)
EXTENDS Release, TLAPS

(* The facts about an image that a publish job has when it is at step n.   *)
Done(n) == {Steps[i] : i \in 1 .. (n - 1)} \cap Marks

Alone == \A r, x \in Runs : Busy(r) /\ Busy(x) => r = x

(* A job runs when the ones it needs are green, and it is not.             *)
Turn == \A r \in Runs :
  /\ phase[r] \in {"absent", "verify"} => green[r] = {}
  /\ phase[r] = "publish" => green[r] = {"verify"}
  /\ phase[r] = "release" => green[r] = {"verify", "publish"}
  /\ phase[r] = "queued" => green[r] # Jobs

RunnersInv == TypeOK /\ Alone /\ Turn

(* What the publish job of a run knows of its image and of the tag. *)
Publishing(r) ==
  /\ phase[r] # "publish" => at[r] = 1
  /\ at[r] > 3 => /\ pak[r] \in 1 .. built
                  /\ Done(at[r]) \subseteq marks[pak[r]]
  /\ at[r] > 10 => \A x \in Runs : "publish" \notin green[x]
  /\ at[r] = 11 => tagged = None
  /\ at[r] > 11 => tagged = pak[r]

(* Only the run that set the tag has handed anything over. *)
Handed ==
  /\ \A r \in Runs : artifact[r] # None => artifact[r] = tagged
  /\ \A r \in Runs : "publish" \in green[r] => artifact[r] = tagged /\ tagged # None
  /\ \A r, x \in Runs : "publish" \in green[r] /\ "publish" \in green[x] => r = x

Replacing(r) == sending[r] # {} =>
  /\ phase[r] = "release"
  /\ \A a \in Assets \ sending[r] : assets[a] # None

ReleaseInv ==
  /\ RunnersInv
  /\ tagged \in 0 .. built
  /\ \A r \in Runs : Publishing(r)
  /\ TaggedIsWhole
  /\ Handed
  /\ \A r \in Runs : Replacing(r)
  /\ ReleasedIsTagged
  /\ LostOnlyLate

(* The numbers of the steps. *)
LEMMA StepNumbers ==
  /\ DOMAIN Steps = 1 .. 13
  /\ Steps[1] = "refuse" /\ Steps[2] = "early" /\ Steps[3] = "build"
  /\ Steps[4] = "digest" /\ Steps[5] = "gate" /\ Steps[6] = "pull"
  /\ Steps[7] = "attest image" /\ Steps[8] = "attest pak" /\ Steps[9] = "sign"
  /\ Steps[10] = "check tag" /\ Steps[11] = "copy tag"
  /\ Steps[12] = "read back" /\ Steps[13] = "upload"
  BY DEF Steps

LEMMA StepRange == DOMAIN Steps = 1 .. 13
  BY StepNumbers

LEMMA StepAt ==
  ASSUME NEW n \in 1 .. 13
  PROVE  /\ Steps[n] = "refuse" => n = 1
         /\ Steps[n] = "early" => n = 2
         /\ Steps[n] = "build" => n = 3
         /\ Steps[n] \in Marks \ {"build"} => n \in 4 .. 9
         /\ Steps[n] = "check tag" => n = 10
         /\ Steps[n] = "copy tag" => n = 11
         /\ Steps[n] = "read back" => n = 12
         /\ Steps[n] = "upload" => n = 13
<1>1. \/ n = 1 \/ n = 2 \/ n = 3 \/ n = 4 \/ n = 5 \/ n = 6 \/ n = 7
      \/ n = 8 \/ n = 9 \/ n = 10 \/ n = 11 \/ n = 12 \/ n = 13
  OBVIOUS
<1>2. CASE n = 1 \/ n = 2 \/ n = 3
  BY <1>2, StepNumbers DEF Marks
<1>3. CASE n = 4 \/ n = 5 \/ n = 6 \/ n = 7 \/ n = 8 \/ n = 9
  <2>1. Steps[n] \in {"digest", "gate", "pull", "attest image", "attest pak", "sign"}
    BY <1>3, StepNumbers
  <2>2. n \in 4 .. 9
    BY <1>3
  <2>3. QED BY <2>1, <2>2
<1>4. CASE n = 10 \/ n = 11 \/ n = 12 \/ n = 13
  BY <1>4, StepNumbers DEF Marks
<1>5. QED BY <1>1, <1>2, <1>3, <1>4

LEMMA DoneNext == ASSUME NEW n \in 1 .. 13 PROVE Done(n + 1) \subseteq Done(n) \cup {Steps[n]}
<1> SUFFICES ASSUME NEW i \in 1 .. n, Steps[i] \in Marks
             PROVE  Steps[i] \in Done(n) \cup {Steps[n]}
  BY DEF Done
<1>1. i = n \/ i \in 1 .. (n - 1)
  OBVIOUS
<1>2. QED BY <1>1 DEF Done

LEMMA DoneBuild == Done(4) \subseteq {"build"}
<1>1. \A i \in 1 .. 3 : i = 1 \/ i = 2 \/ i = 3
  OBVIOUS
<1>2. \A i \in 1 .. 3 : Steps[i] \in Marks => Steps[i] = "build"
  BY <1>1, StepNumbers DEF Marks
<1>3. QED BY <1>2 DEF Done

LEMMA DoneAll == ASSUME NEW n \in 10 .. 13 PROVE Marks \subseteq Done(n)
<1>1. 1 .. 9 \subseteq 1 .. (n - 1)
  OBVIOUS
<1>2. {3, 4, 5, 6, 7, 8, 9} \subseteq 1 .. 9
  OBVIOUS
<1>3. Marks = {Steps[3], Steps[4], Steps[5], Steps[6], Steps[7], Steps[8], Steps[9]}
  BY StepNumbers DEF Marks
<1>4. QED BY <1>1, <1>2, <1>3 DEF Done

-----------------------------------------------------------------------------
(* Runs, jobs and the concurrency group.                                   *)

RunnerType ==
  /\ phase \in [Runs -> Jobs \cup Outside]
  /\ green \in [Runs -> {{}, {"verify"}, {"verify", "publish"}, Jobs}]
  /\ at \in [Runs -> DOMAIN Steps]
  /\ pak \in [Runs -> Digests \cup {None}]

(* Where a job that ends leaves its run, and that it disturbs no other.    *)
LEMMA EndsTo ==
  ASSUME RunnersInv, NEW r \in Runs, NEW ok \in BOOLEAN, Busy(r), Ends(r, ok)
  PROVE  /\ RunnerType' /\ Alone' /\ Turn'
         /\ phase'[r] # "verify"
         /\ phase'[r] = "publish" => phase[r] = "verify"
         /\ phase'[r] = "release" => ok /\ phase[r] = "publish"
         /\ at'[r] = 1
         /\ green'[r] = IF ok THEN green[r] \cup {phase[r]} ELSE green[r]
         /\ \A x \in Runs \ {r} : /\ phase'[x] = phase[x] /\ green'[x] = green[x]
                                  /\ at'[x] = at[x] /\ pak'[x] = pak[x]
<1>1. /\ RunnerType /\ phase[r] \in Jobs
      /\ \A x \in Runs \ {r} : ~ Busy(x)
  BY DEF RunnersInv, TypeOK, RunnerType, Busy, Alone
<1>2. \A x \in Runs \ {r} : /\ phase'[x] = phase[x] /\ green'[x] = green[x]
                            /\ at'[x] = at[x] /\ pak'[x] = pak[x]
  BY <1>1 DEF Ends, RunnerType
<1>3. at'[r] = 1
  BY <1>1 DEF Ends, RunnerType
<1>4. phase'[r] = IF ok /\ phase[r] = "verify" THEN "publish"
                  ELSE IF ok /\ phase[r] = "publish" THEN "release" ELSE "ended"
  BY <1>1 DEF Ends, RunnerType
<1>5. green'[r] = IF ok THEN green[r] \cup {phase[r]} ELSE green[r]
  <2>1. green'[r] = IF ok THEN green[r] \cup {phase[r]} ELSE green[r] \ {phase[r]}
    BY <1>1 DEF Ends, RunnerType
  <2>2. phase[r] \notin green[r]
    BY <1>1 DEF RunnersInv, Turn, Jobs
  <2>3. QED BY <2>1, <2>2
<1>6. Turn'
  <2>1. \/ phase[r] = "verify" /\ green[r] = {}
        \/ phase[r] = "publish" /\ green[r] = {"verify"}
        \/ phase[r] = "release" /\ green[r] = {"verify", "publish"}
    BY <1>1 DEF RunnersInv, Turn, Jobs
  <2>2. \/ phase'[r] = "ended"
        \/ phase'[r] = "publish" /\ green'[r] = {"verify"}
        \/ phase'[r] = "release" /\ green'[r] = {"verify", "publish"}
    BY <1>4, <1>5, <2>1
  <2>3. QED BY <1>2, <2>2 DEF RunnersInv, Turn, Jobs
<1>7. RunnerType'
  <2>1. green'[r] \in {{}, {"verify"}, {"verify", "publish"}, Jobs}
    <3>1. \/ phase[r] = "verify" /\ green[r] = {}
          \/ phase[r] = "publish" /\ green[r] = {"verify"}
          \/ phase[r] = "release" /\ green[r] = {"verify", "publish"}
      BY <1>1 DEF RunnersInv, Turn, Jobs
    <3>2. QED BY <1>5, <3>1 DEF Jobs
  <2>2. phase'[r] \in Jobs \cup Outside
    BY <1>4 DEF Jobs, Outside
  <2>3. phase' \in [Runs -> Jobs \cup Outside]
    <3>1. phase' = [phase EXCEPT ![r] = phase'[r]]
      BY <1>1 DEF Ends, RunnerType
    <3>2. QED BY <3>1, <2>2, <1>1 DEF RunnerType
  <2>4. green' \in [Runs -> {{}, {"verify"}, {"verify", "publish"}, Jobs}]
    <3>1. green' = [green EXCEPT ![r] = green'[r]]
      BY <1>1 DEF Ends, RunnerType
    <3>2. QED BY <3>1, <2>1, <1>1 DEF RunnerType
  <2>5. at' \in [Runs -> DOMAIN Steps] /\ pak' \in [Runs -> Digests \cup {None}]
    <3>1. 1 \in DOMAIN Steps
      <4>1. 1 \in 1 .. 13
        OBVIOUS
      <4>2. QED BY <4>1, StepRange
    <3>2. QED BY <3>1, <1>1 DEF Ends, RunnerType
  <2>6. QED BY <2>3, <2>4, <2>5 DEF RunnerType
<1>8. Alone'
  BY <1>1, <1>2 DEF Alone, Busy
<1>9. QED BY <1>2, <1>3, <1>4, <1>5, <1>6, <1>7, <1>8

(* A job that goes on to its next step. *)
LEMMA PassedTo ==
  ASSUME RunnersInv, NEW r \in Runs, phase[r] = "publish", at[r] # 13,
         at' = [at EXCEPT ![r] = @ + 1], pak' \in [Runs -> Digests \cup {None}],
         UNCHANGED <<phase, green>>
  PROVE  /\ RunnerType' /\ Alone' /\ Turn'
         /\ at'[r] = at[r] + 1
         /\ \A x \in Runs \ {r} : at'[x] = at[x]
<1>1. RunnerType /\ at[r] \in 1 .. 13
  BY StepRange DEF RunnersInv, TypeOK, RunnerType
<1>2. at[r] + 1 \in DOMAIN Steps
  <2>1. at[r] + 1 \in 1 .. 13
    BY <1>1
  <2>2. QED BY <2>1, StepRange
<1>3. RunnerType'
  BY <1>1, <1>2 DEF RunnerType
<1>4. QED BY <1>1, <1>3 DEF RunnersInv, RunnerType, Alone, Busy, Turn

-----------------------------------------------------------------------------
(* What the group gives the run that has its turn. *)
LEMMA OthersIdle ==
  ASSUME ReleaseInv, NEW r \in Runs, Busy(r)
  PROVE  \A x \in Runs \ {r} : ~ Busy(x) /\ phase[x] # "publish" /\ at[x] = 1 /\ sending[x] = {}
  BY DEF ReleaseInv, RunnersInv, Alone, Publishing, Replacing, Busy, Jobs

LEMMA LateAt == ASSUME RunnerType, NEW r \in Runs
                PROVE  Late(r) <=> phase[r] = "publish" /\ at[r] \in {12, 13}
<1>1. at[r] \in 1 .. 13
  BY StepRange DEF RunnerType
<1>2. /\ Steps[at[r]] = "read back" => at[r] = 12
      /\ Steps[at[r]] = "upload" => at[r] = 13
  BY <1>1, StepAt
<1>3. Steps[12] = "read back" /\ Steps[13] = "upload"
  BY StepNumbers
<1>4. QED BY <1>2, <1>3 DEF Late

(* A job that ends and does not hand over a pak takes nothing back, except *)
(* the pak of a tag that it has just set.                                  *)
LEMMA EndedRun ==
  ASSUME ReleaseInv, NEW r \in Runs, NEW ok \in BOOLEAN, Busy(r), Ends(r, ok),
         UNCHANGED <<tagged, artifact>>, ok => phase[r] # "publish"
  PROVE  /\ \A x \in Runs : Publishing(x)'
         /\ Handed'
         /\ ~ Late(r) => \A x \in Runs : MayRelease(x) => MayRelease(x)'
<1>1. RunnersInv /\ Handed
  BY DEF ReleaseInv
<1>2. \A x \in Runs : at'[x] = 1
  <2>1. at'[r] = 1 /\ \A x \in Runs \ {r} : at'[x] = at[x]
    BY <1>1, EndsTo
  <2>2. \A x \in Runs \ {r} : at[x] = 1
    BY OthersIdle
  <2>3. QED BY <2>1, <2>2
<1>3. \A x \in Runs : Publishing(x)'
  BY <1>2 DEF Publishing
<1>4. \A x \in Runs : green[x] \subseteq green'[x]
  BY <1>1, EndsTo
<1>5. \A x \in Runs : "publish" \in green'[x] <=> "publish" \in green[x]
  BY <1>1, EndsTo, ZenonT(60) DEF Busy, Jobs
<1>6. Handed'
  BY <1>1, <1>5 DEF Handed
<1>7. ASSUME ~ Late(r), NEW x \in Runs, MayRelease(x) PROVE MayRelease(x)'
  <2>1. ~ Late(x)
    BY <1>7, OthersIdle DEF Late
  <2>2. QED BY <1>7, <2>1, <1>5 DEF MayRelease
<1>8. QED BY <1>3, <1>6, <1>7

(* A job that goes on to its next step: what stays to be shown of it. *)
LEMMA PassedRun ==
  ASSUME ReleaseInv, NEW r \in Runs, phase[r] = "publish", at[r] # 13,
         at' = [at EXCEPT ![r] = @ + 1], pak' \in [Runs -> Digests \cup {None}],
         UNCHANGED <<phase, green, handed, undone>>
  PROVE  /\ RunnersInv' <=> TypeOK'
         /\ Publishing(r)' => \A x \in Runs : Publishing(x)'
         /\ \A x \in Runs : Replacing(x)'
         /\ tagged' = tagged \/ tagged = None => Handed' /\ ReleasedIsTagged'
         /\ ~ Late(r) /\ tagged' = tagged => LostOnlyLate'
<1>1. RunnersInv /\ Handed /\ Busy(r) /\ RunnerType
  BY DEF ReleaseInv, RunnersInv, TypeOK, RunnerType, Busy, Jobs
<1>2. \A x \in Runs \ {r} : at'[x] = 1 /\ phase[x] # "publish"
  BY <1>1, PassedTo, OthersIdle
<1>3. Publishing(r)' => \A x \in Runs : Publishing(x)'
  BY <1>2 DEF Publishing
<1>4. RunnersInv' <=> TypeOK'
  BY <1>1, PassedTo DEF RunnersInv
<1>5. \A x \in Runs : Replacing(x)'
  BY DEF ReleaseInv, Replacing, handed
<1>6. tagged' = tagged => Handed' /\ ReleasedIsTagged'
  BY DEF ReleaseInv, Handed, ReleasedIsTagged, handed
<1>7. tagged = None => Handed' /\ ReleasedIsTagged'
  BY DEF ReleaseInv, Handed, ReleasedIsTagged, handed
<1>8. ASSUME ~ Late(r), tagged' = tagged PROVE LostOnlyLate'
  <2>1. \A x \in Runs : ~ Late(x)
    BY <1>2, <1>8 DEF Late
  <2>2. \A x \in Runs : MayRelease(x) => MayRelease(x)'
    BY <1>8, <2>1 DEF MayRelease, handed
  <2>3. QED BY <1>8, <2>2 DEF ReleaseInv, LostOnlyLate
<1>9. QED BY <1>3, <1>4, <1>5, <1>6, <1>7, <1>8

(* The part of the type that is not about runners. *)
ImageType ==
  /\ built \in 0 .. MaxBuilds /\ tagged \in Digests \cup {None}
  /\ marks \in [Digests -> SUBSET Marks]

HandedType ==
  /\ artifact \in [Runs -> Digests \cup {None}]
  /\ assets \in [Assets -> Digests \cup {None}]
  /\ sending \in [Runs -> SUBSET Assets] /\ undone \in BOOLEAN

LEMMA TypeParts == TypeOK <=> RunnerType /\ ImageType /\ HandedType
  BY DEF TypeOK, RunnerType, ImageType, HandedType

(* A job ends that is not the one that makes, tags or hands over an image. *)
LEMMA EndedKeeps ==
  ASSUME ReleaseInv, NEW r \in Runs, NEW ok \in BOOLEAN, Busy(r), Ends(r, ok),
         UNCHANGED <<image, artifact, assets>>, ok => phase[r] = "verify",
         sending' = [sending EXCEPT ![r] = {}], undone' = (undone \/ Late(r))
  PROVE  ReleaseInv'
<1>1. RunnersInv /\ RunnerType /\ ImageType /\ HandedType
  BY TypeParts DEF ReleaseInv, RunnersInv
<1>2. (\A x \in Runs : Publishing(x)') /\ Handed'
  BY EndedRun DEF image
<1>3. RunnersInv'
  <2>1. RunnerType' /\ Alone' /\ Turn'
    BY <1>1, EndsTo
  <2>2. ImageType'
    BY <1>1 DEF ImageType, image
  <2>3. HandedType'
    BY <1>1 DEF HandedType
  <2>4. QED BY <2>1, <2>2, <2>3 DEF RunnersInv, TypeOK, RunnerType, ImageType, HandedType
<1>4. \A x \in Runs : Replacing(x)'
  <2>1. sending'[r] = {} /\ \A x \in Runs \ {r} : sending'[x] = {}
    BY <1>1, OthersIdle DEF HandedType
  <2>2. QED BY <2>1 DEF Replacing
<1>5. ReleasedIsTagged'
  <2>1. \A x \in Runs : "release" \in green'[x] => "release" \in green[x]
    <3>1. green'[r] = (IF ok THEN green[r] \cup {phase[r]} ELSE green[r])
          /\ \A x \in Runs \ {r} : green'[x] = green[x]
      BY <1>1, EndsTo
    <3>2. QED BY <3>1
  <2>2. QED BY <2>1 DEF ReleaseInv, ReleasedIsTagged, image
<1>6. LostOnlyLate'
  BY EndedRun DEF ReleaseInv, LostOnlyLate, image
<1>7. tagged' \in 0 .. built' /\ TaggedIsWhole'
  BY DEF ReleaseInv, TaggedIsWhole, image
<1>8. QED BY <1>2, <1>3, <1>4, <1>5, <1>6, <1>7 DEF ReleaseInv

(* A run changes its place in the group; nothing is done. *)
LEMMA GroupKeeps ==
  ASSUME ReleaseInv, NEW r \in Runs,
         Push(r) \/ RerunFailed(r) \/ RerunAll(r) \/ Start(r)
  PROVE  ReleaseInv'
<1>1. RunnersInv /\ RunnerType /\ ImageType /\ HandedType
  BY TypeParts DEF ReleaseInv, RunnersInv
<1>2. UNCHANGED <<runner, image, handed>>
  BY DEF Push, RerunFailed, RerunAll, Start
<1>3. ~ Busy(r) /\ sending[r] = {} /\ at[r] = 1
  BY DEF ReleaseInv, Publishing, Replacing, Push, RerunFailed, RerunAll, Start, Busy, Jobs
<1>4. /\ phase' \in [Runs -> Jobs \cup Outside]
      /\ \A x \in Runs \ {r} : phase'[x] # phase[x] => phase[x] = "queued" /\ phase'[x] = "ended"
      /\ \/ phase'[r] = "queued" /\ green'[r] # Jobs
         \/ phase'[r] = NextJob(r) /\ green'[r] = green[r] /\ phase[r] = "queued"
            /\ \A x \in Runs : ~ Busy(x)
  <2>1. CASE Start(r)
    BY <2>1, <1>1 DEF Start, RunnerType, NextJob, Jobs
  <2>2. CASE Push(r) \/ RerunFailed(r) \/ RerunAll(r)
    <3>1. Queue(r)
      BY <2>2 DEF Push, RerunFailed, RerunAll
    <3>2. green'[r] # Jobs
      BY <2>2, <1>1 DEF Push, RerunFailed, RerunAll, RunnersInv, Turn, RunnerType, Jobs
    <3>3. QED BY <3>1, <3>2, <1>1 DEF Queue, RunnerType, Outside
  <2>3. QED BY <2>1, <2>2
<1>5. /\ green' \in [Runs -> {{}, {"verify"}, {"verify", "publish"}, Jobs}]
      /\ \A x \in Runs : green'[x] = green[x] \/ (green'[x] = {} /\ x = r /\ phase'[r] = "queued")
      /\ undone' \in BOOLEAN
      /\ ~ undone' => ~ undone /\ (green'[r] # green[r] => "publish" \notin green[r])
  <2>1. CASE RerunAll(r)
    <3>1. /\ green' = [green EXCEPT ![r] = {}]
          /\ phase'[r] = "queued"
          /\ undone' = (undone \/ "publish" \in green[r])
      BY <2>1, <1>1 DEF RerunAll, Queue, RunnerType
    <3>2. undone' \in BOOLEAN
      BY <3>1, <1>1 DEF HandedType
    <3>3. ~ undone' => ~ undone /\ "publish" \notin green[r]
      BY <3>1
    <3>4. green' \in [Runs -> {{}, {"verify"}, {"verify", "publish"}, Jobs}]
      BY <3>1, <1>1 DEF RunnerType
    <3>5. \A x \in Runs : green'[x] = green[x] \/ (green'[x] = {} /\ x = r)
      BY <3>1, <1>1 DEF RunnerType
    <3>6. QED BY <3>1, <3>2, <3>3, <3>4, <3>5
  <2>2. CASE Push(r) \/ RerunFailed(r) \/ Start(r)
    <3>1. green' = green /\ undone' = undone
      BY <2>2 DEF Push, RerunFailed, Start
    <3>2. QED BY <3>1, <1>1 DEF RunnerType, HandedType
  <2>3. QED BY <2>1, <2>2
<1>6. RunnersInv'
  <2>1. TypeOK'
    BY <1>1, <1>2, <1>4, <1>5
    DEF TypeOK, RunnerType, ImageType, HandedType, runner, image, handed
  <2>2. Alone'
    BY <1>1, <1>3, <1>4 DEF RunnersInv, Alone, Busy, Jobs
  <2>3. Turn'
    <3>1. ASSUME NEW x \in Runs \ {r}
          PROVE  green'[x] = green[x] /\ (phase'[x] = phase[x] \/ phase'[x] = "ended")
      BY <1>4, <1>5
    <3>2. CASE phase'[r] = "queued" /\ green'[r] # Jobs
      BY <1>1, <3>1, <3>2 DEF RunnersInv, Turn
    <3>3. CASE phase'[r] = NextJob(r) /\ green'[r] = green[r] /\ phase[r] = "queued"
      <4>1. green[r] \in {{}, {"verify"}, {"verify", "publish"}}
        BY <1>1, <3>3 DEF RunnersInv, Turn, RunnerType
      <4>2. \/ phase'[r] = "verify" /\ green'[r] = {}
            \/ phase'[r] = "publish" /\ green'[r] = {"verify"}
            \/ phase'[r] = "release" /\ green'[r] = {"verify", "publish"}
        BY <3>3, <4>1 DEF NextJob
      <4>3. QED BY <1>1, <3>1, <4>2 DEF RunnersInv, Turn
    <3>4. QED BY <1>4, <3>2, <3>3
  <2>4. QED BY <2>1, <2>2, <2>3 DEF RunnersInv
<1>7. \A x \in Runs : green'[x] \subseteq green[x]
  BY <1>5
<1>8. ASSUME NEW x \in Runs PROVE Publishing(x)'
  <2>1. at[x] > 1 => phase'[x] = "publish"
    BY <1>3, <1>4 DEF ReleaseInv, Publishing
  <2>2. phase'[x] # "publish" => at[x] = 1
    BY <1>3, <1>4 DEF ReleaseInv, Publishing
  <2>3. QED BY <1>2, <1>7, <2>2 DEF ReleaseInv, Publishing, runner, image
<1>9. Handed' /\ ReleasedIsTagged' /\ TaggedIsWhole' /\ tagged' \in 0 .. built'
  BY <1>2, <1>7 DEF ReleaseInv, Handed, ReleasedIsTagged, TaggedIsWhole, image, handed
<1>10. \A x \in Runs : Replacing(x)'
  <2>1. \A x \in Runs : sending[x] # {} => phase'[x] = "release"
    BY <1>3, <1>4 DEF ReleaseInv, Replacing
  <2>2. QED BY <1>2, <2>1 DEF ReleaseInv, Replacing, handed
<1>11. LostOnlyLate'
  <2>1. ASSUME ~ undone', NEW x \in Runs, MayRelease(x) PROVE MayRelease(x)'
    <3>1. Late(x) => Late(x)' /\ pak'[x] = pak[x]
      BY <1>2, <1>3, <1>4, LateAt, <1>1 DEF Late, runner, Busy, Jobs
    <3>2. "publish" \in green[x] => "publish" \in green'[x]
      BY <1>5, <2>1
    <3>3. QED BY <1>2, <2>1, <3>1, <3>2 DEF MayRelease, image, handed
  <2>2. QED BY <1>2, <1>5, <2>1 DEF ReleaseInv, LostOnlyLate, image
<1>12. QED BY <1>6, <1>8, <1>9, <1>10, <1>11 DEF ReleaseInv

-----------------------------------------------------------------------------
(* The steps of the publish job. *)
LEMMA PublishKeeps ==
  ASSUME ReleaseInv, NEW r \in Runs,
         Refuse(r) \/ Early(r) \/ CheckTag(r) \/ CopyTag(r) \/ ReadBack(r)
  PROVE  ReleaseInv'
<1>1. RunnersInv /\ RunnerType /\ ImageType /\ HandedType /\ Publishing(r)
  BY TypeParts DEF ReleaseInv, RunnersInv
<1>2. at[r] \in 1 .. 13 /\ phase[r] = "publish"
  BY <1>1, StepRange DEF RunnerType, Refuse, Early, CheckTag, CopyTag, ReadBack, AtStep
<1>0. /\ Steps[at[r]] = "refuse" => at[r] = 1
      /\ Steps[at[r]] = "early" => at[r] = 2
      /\ Steps[at[r]] = "check tag" => at[r] = 10
      /\ Steps[at[r]] = "copy tag" => at[r] = 11
      /\ Steps[at[r]] = "read back" => at[r] = 12
  BY <1>2, StepAt
<1>3. /\ Passed(r) /\ UNCHANGED <<built, marks, handed, undone>>
      /\ at[r] # 13
      /\ at[r] = 10 => tagged = None
      /\ at[r] = 11 => tagged' = pak[r]
      /\ at[r] # 11 => tagged' = tagged
      /\ at[r] \in {1, 2, 10, 11, 12}
  <2>1. CASE Refuse(r)
    BY <1>0, <2>1 DEF Refuse, AtStep, image
  <2>2. CASE Early(r)
    BY <1>0, <2>2 DEF Early, AtStep, image
  <2>3. CASE CheckTag(r)
    <3>1. at[r] = 10
      BY <1>0, <2>3 DEF CheckTag, AtStep
    <3>2. Passed(r) /\ UNCHANGED <<built, marks, handed, undone>>
      BY <2>3 DEF CheckTag, image
    <3>3. UNCHANGED tagged /\ tagged = None
      BY <2>3 DEF CheckTag, image
    <3>4. QED BY <3>1, <3>2, <3>3
  <2>4. CASE CopyTag(r)
    <3>1. at[r] = 11
      BY <1>0, <2>4 DEF CopyTag, AtStep
    <3>2. Passed(r) /\ UNCHANGED <<built, marks, handed, undone>>
      BY <2>4 DEF CopyTag
    <3>3. tagged' = pak[r]
      BY <2>4 DEF CopyTag
    <3>4. QED BY <3>1, <3>2, <3>3
  <2>5. CASE ReadBack(r)
    <3>1. at[r] = 12
      BY <1>0, <2>5 DEF ReadBack, AtStep
    <3>2. Passed(r) /\ UNCHANGED <<built, marks, handed, undone>>
      BY <2>5 DEF ReadBack, image
    <3>3. UNCHANGED tagged
      BY <2>5 DEF ReadBack, image
    <3>4. QED BY <3>1, <3>2, <3>3
  <2>6. QED BY <2>1, <2>2, <2>3, <2>4, <2>5
<1>4. /\ at' = [at EXCEPT ![r] = @ + 1] /\ UNCHANGED <<phase, green, pak>>
      /\ at'[r] = at[r] + 1
  BY <1>1, <1>3 DEF Passed, RunnerType
<1>5. /\ RunnersInv' <=> TypeOK'
      /\ Publishing(r)' => \A x \in Runs : Publishing(x)'
      /\ \A x \in Runs : Replacing(x)'
      /\ tagged' = tagged \/ tagged = None => Handed' /\ ReleasedIsTagged'
      /\ ~ Late(r) /\ tagged' = tagged => LostOnlyLate'
  BY <1>1, <1>2, <1>3, <1>4, PassedRun DEF RunnerType
<1>6. at[r] = 11 => /\ tagged = None /\ pak[r] \in 1 .. built /\ marks[pak[r]] = Marks
  <2> SUFFICES ASSUME at[r] = 11 PROVE tagged = None /\ pak[r] \in 1 .. built /\ marks[pak[r]] = Marks
    OBVIOUS
  <2>1. tagged = None /\ pak[r] \in 1 .. built /\ Done(11) \subseteq marks[pak[r]]
    BY <1>1 DEF Publishing
  <2>2. Marks \subseteq Done(11)
    BY DoneAll
  <2>3. marks[pak[r]] \subseteq Marks
    <3>1. pak[r] \in Digests
      BY <1>1, <2>1, ReleaseAssumption DEF ImageType, Digests
    <3>2. QED BY <1>1, <3>1 DEF ImageType
  <2>4. QED BY <2>1, <2>2, <2>3
<1>7. RunnersInv'
  <2>1. RunnerType'
    BY <1>1, <1>2, <1>3, <1>4, PassedTo DEF RunnerType
  <2>2. tagged' \in Digests \cup {None}
    BY <1>1, <1>3 DEF ImageType, RunnerType
  <2>3. ImageType' /\ HandedType'
    BY <1>1, <1>3, <2>2 DEF ImageType, HandedType, handed
  <2>4. QED BY <1>5, <2>1, <2>3 DEF TypeOK, RunnerType, ImageType, HandedType
<1>8. Publishing(r)'
  <2>1. Done(at[r] + 1) \subseteq Done(at[r]) \cup {Steps[at[r]]}
    BY <1>2, DoneNext
  <2>2. at[r] > 9 => Steps[at[r]] \notin Marks
    <3>1. Steps[10] \notin Marks /\ Steps[11] \notin Marks /\ Steps[12] \notin Marks
      BY StepNumbers DEF Marks
    <3>2. QED BY <1>3, <3>1
  <2>3. at'[r] > 3 => pak'[r] \in 1 .. built' /\ Done(at'[r]) \subseteq marks'[pak'[r]]
    <3> SUFFICES ASSUME at[r] \in {10, 11, 12}
                 PROVE  pak[r] \in 1 .. built /\ Done(at[r] + 1) \subseteq marks[pak[r]]
      BY <1>3, <1>4
    <3>1. pak[r] \in 1 .. built /\ Done(at[r]) \subseteq marks[pak[r]]
      BY <1>1 DEF Publishing
    <3>2. Done(at[r] + 1) \subseteq Marks
      BY DEF Done
    <3>3. Steps[at[r]] \notin Marks
      BY <2>2
    <3>4. QED BY <2>1, <3>1, <3>2, <3>3
  <2>4. at'[r] > 10 => \A x \in Runs : "publish" \notin green'[x]
    <3>1. at[r] = 10 => \A x \in Runs : "publish" \notin green[x]
      BY <1>3 DEF ReleaseInv, Handed
    <3>2. at[r] > 10 => \A x \in Runs : "publish" \notin green[x]
      BY <1>1 DEF Publishing
    <3>3. QED BY <1>3, <1>4, <3>1, <3>2
  <2>5. (at'[r] = 11 => tagged' = None) /\ (at'[r] > 11 => tagged' = pak'[r])
    BY <1>1, <1>3, <1>4 DEF Publishing
  <2>6. QED BY <1>2, <1>4, <2>3, <2>4, <2>5 DEF Publishing
<1>9. Handed' /\ ReleasedIsTagged'
  BY <1>3, <1>5, <1>6
<1>10. TaggedIsWhole' /\ tagged' \in 0 .. built'
  <2>1. CASE at[r] = 11
    BY <2>1, <1>3, <1>6 DEF TaggedIsWhole, ImageType, None
  <2>2. CASE at[r] # 11
    BY <2>2, <1>3 DEF ReleaseInv, TaggedIsWhole
  <2>3. QED BY <2>1, <2>2
<1>11. LostOnlyLate'
  <2>1. CASE at[r] \in {1, 2, 10}
    BY <2>1, <1>1, <1>3, <1>5, LateAt
  <2>2. CASE at[r] \in {11, 12}
    <3>1. Steps[12] = "read back" /\ Steps[13] = "upload"
      BY StepNumbers
    <3>2. Steps[at'[r]] \in {"read back", "upload"}
      <4>1. at'[r] = 12 \/ at'[r] = 13
        BY <1>4, <2>2
      <4>2. QED BY <3>1, <4>1
    <3>3. Late(r)'
      BY <1>2, <1>4, <3>2 DEF Late
    <3>4. tagged' = pak'[r]
      BY <1>1, <1>3, <1>4, <2>2 DEF Publishing
    <3>5. QED BY <3>3, <3>4 DEF LostOnlyLate, MayRelease
  <2>3. QED BY <1>3, <2>1, <2>2
<1>12. QED BY <1>5, <1>7, <1>8, <1>9, <1>10, <1>11 DEF ReleaseInv

(* What a build or a check does to the marks, and a job that fails after.  *)
LEMMA MarkedFails ==
  ASSUME ReleaseInv, NEW r \in Runs, phase[r] = "publish", Ends(r, FALSE), ~ Late(r),
         ImageType', tagged' = tagged, built \leq built', built' \in Nat,
         tagged # None => marks[tagged] \subseteq marks'[tagged],
         UNCHANGED <<handed, undone>>
  PROVE  ReleaseInv'
<1>1. RunnersInv /\ RunnerType /\ ImageType /\ HandedType /\ Busy(r)
  BY TypeParts DEF ReleaseInv, RunnersInv, Busy, Jobs
<1>2. /\ \A x \in Runs : Publishing(x)'
      /\ Handed'
      /\ \A x \in Runs : MayRelease(x) => MayRelease(x)'
  BY <1>1, EndedRun DEF handed
<1>3. RunnersInv'
  <2>1. RunnerType' /\ Alone' /\ Turn'
    BY <1>1, EndsTo
  <2>2. HandedType'
    BY <1>1 DEF HandedType, handed
  <2>3. QED BY <2>1, <2>2 DEF RunnersInv, TypeOK, RunnerType, ImageType, HandedType
<1>4. \A x \in Runs : Replacing(x)'
  <2>1. \A x \in Runs : sending[x] = {}
    BY <1>1, OthersIdle DEF ReleaseInv, Replacing
  <2>2. QED BY <2>1 DEF Replacing, handed
<1>5. ReleasedIsTagged'
  <2>1. \A x \in Runs : green'[x] = green[x]
    BY <1>1, EndsTo
  <2>2. QED BY <2>1 DEF ReleaseInv, ReleasedIsTagged, handed
<1>6. TaggedIsWhole' /\ tagged' \in 0 .. built'
  <2>1. tagged # None => marks'[tagged] = Marks
    <3>1. tagged # None => marks'[tagged] \subseteq Marks
      BY <1>1 DEF ImageType
    <3>2. QED BY <3>1 DEF ReleaseInv, TaggedIsWhole
  <2>2. tagged \in 0 .. built /\ built \in Nat
    BY <1>1 DEF ReleaseInv, ImageType
  <2>3. tagged \in 0 .. built'
    BY <2>2
  <2>4. QED BY <2>1, <2>3 DEF TaggedIsWhole
<1>7. LostOnlyLate'
  BY <1>2 DEF ReleaseInv, LostOnlyLate
<1>8. QED BY <1>2, <1>3, <1>4, <1>5, <1>6, <1>7 DEF ReleaseInv

LEMMA MarkedPasses ==
  ASSUME ReleaseInv, NEW r \in Runs, phase[r] = "publish", at[r] \in 3 .. 9,
         at' = [at EXCEPT ![r] = @ + 1], pak' \in [Runs -> Digests \cup {None}],
         ImageType', tagged' = tagged, built \leq built', built' \in Nat,
         tagged # None => marks[tagged] \subseteq marks'[tagged],
         pak'[r] \in 1 .. built', Done(at[r] + 1) \subseteq marks'[pak'[r]],
         UNCHANGED <<phase, green, handed, undone>>
  PROVE  ReleaseInv'
<1>1. RunnersInv /\ RunnerType /\ ImageType /\ HandedType /\ at[r] # 13
  BY TypeParts DEF ReleaseInv, RunnersInv
<1>2. RunnerType' /\ Alone' /\ Turn' /\ at'[r] = at[r] + 1
  BY <1>1, PassedTo
<1>3. ~ Late(r)
  BY <1>1, LateAt
<1>4. /\ Publishing(r)' => \A x \in Runs : Publishing(x)'
      /\ \A x \in Runs : Replacing(x)'
      /\ Handed' /\ ReleasedIsTagged' /\ LostOnlyLate'
  BY <1>1, <1>3, PassedRun
<1>5. Publishing(r)'
  <2>1. at'[r] \in 4 .. 10 /\ phase'[r] = "publish"
    BY <1>2
  <2>2. pak'[r] \in 1 .. built' /\ Done(at'[r]) \subseteq marks'[pak'[r]]
    BY <1>2
  <2>3. QED BY <2>1, <2>2 DEF Publishing
<1>6. RunnersInv'
  <2>1. HandedType'
    BY <1>1 DEF HandedType, handed
  <2>2. QED BY <1>2, <2>1 DEF RunnersInv, TypeOK, RunnerType, ImageType, HandedType
<1>7. TaggedIsWhole' /\ tagged' \in 0 .. built'
  <2>1. tagged # None => marks'[tagged] = Marks
    <3>1. tagged # None => marks'[tagged] \subseteq Marks
      BY <1>1 DEF ImageType
    <3>2. QED BY <3>1 DEF ReleaseInv, TaggedIsWhole
  <2>2. tagged \in 0 .. built /\ built \in Nat
    BY <1>1 DEF ReleaseInv, ImageType
  <2>3. tagged \in 0 .. built'
    BY <2>2
  <2>4. QED BY <2>1, <2>3 DEF TaggedIsWhole
<1>8. QED BY <1>4, <1>5, <1>6, <1>7 DEF ReleaseInv

LEMMA BuildKeeps == ASSUME ReleaseInv, NEW r \in Runs, Build(r) PROVE ReleaseInv'
<1>1. RunnersInv /\ RunnerType /\ ImageType /\ HandedType /\ phase[r] = "publish"
  BY TypeParts DEF ReleaseInv, RunnersInv, Build, AtStep
<1>2. at[r] = 3 /\ ~ Late(r)
  <2>1. at[r] \in 1 .. 13
    BY <1>1, StepRange DEF RunnerType
  <2>2. Steps[at[r]] = "build" => at[r] = 3
    BY <2>1, StepAt
  <2>3. QED BY <1>1, <2>2, LateAt DEF Build, AtStep
<1>3. built \in Nat /\ built < MaxBuilds /\ built' = built + 1 /\ MaxBuilds \in Nat
  BY <1>1, ReleaseAssumption DEF Build, ImageType
<1>4. built + 1 \in Digests /\ built + 1 # tagged
  BY <1>3 DEF Digests, ReleaseInv
<1>5. marks' = [marks EXCEPT ![built + 1] = {"build"}] /\ UNCHANGED <<tagged, handed, undone>>
  BY DEF Build
<1>6. ImageType'
  <2>1. {"build"} \subseteq Marks
    BY DEF Marks
  <2>2. built' \in 0 .. MaxBuilds
    BY <1>3
  <2>3. QED BY <1>1, <1>5, <2>1, <2>2 DEF ImageType
<1>7. tagged # None => marks[tagged] \subseteq marks'[tagged]
  BY <1>1, <1>4, <1>5 DEF ImageType
<1>8. CASE Ends(r, FALSE)
  <2>1. built \leq built' /\ built' \in Nat /\ tagged' = tagged
    BY <1>3, <1>5
  <2>2. UNCHANGED <<handed, undone>>
    BY <1>5
  <2>3. QED BY <1>1, <1>2, <1>6, <1>7, <1>8, <2>1, <2>2, MarkedFails
<1>9. CASE /\ at' = [at EXCEPT ![r] = @ + 1]
           /\ pak' = [pak EXCEPT ![r] = built + 1]
           /\ UNCHANGED <<phase, green>>
  <2>1. pak' \in [Runs -> Digests \cup {None}] /\ pak'[r] = built + 1
    BY <1>1, <1>4, <1>9 DEF RunnerType
  <2>2. marks'[built + 1] = {"build"}
    BY <1>1, <1>4, <1>5 DEF ImageType
  <2>3. Done(at[r] + 1) \subseteq marks'[pak'[r]]
    <3>1. at[r] + 1 = 4
      BY <1>2
    <3>2. QED BY <2>1, <2>2, <3>1, DoneBuild
  <2>4. pak'[r] \in 1 .. built' /\ built \leq built' /\ built' \in Nat /\ at[r] \in 3 .. 9
    BY <1>2, <1>3, <2>1
  <2>5. QED BY <1>1, <1>5, <1>6, <1>7, <1>9, <2>1, <2>3, <2>4, MarkedPasses
<1>10. QED BY <1>8, <1>9 DEF Build

LEMMA MarkKeeps == ASSUME ReleaseInv, NEW r \in Runs, Mark(r) PROVE ReleaseInv'
<1>1. PICK s \in Marks \ {"build"} :
        /\ AtStep(r, s)
        /\ marks' = [marks EXCEPT ![pak[r]] = @ \cup {s}]
        /\ Passed(r) \/ Ends(r, FALSE)
        /\ UNCHANGED <<built, tagged, handed, undone>>
  BY DEF Mark
<1>2. RunnersInv /\ RunnerType /\ ImageType /\ HandedType /\ phase[r] = "publish" /\ Publishing(r)
  BY <1>1, TypeParts DEF ReleaseInv, RunnersInv, AtStep
<1>3. at[r] \in 4 .. 9 /\ at[r] \in 1 .. 13 /\ ~ Late(r) /\ Steps[at[r]] = s
  <2>1. at[r] \in 1 .. 13
    BY <1>2, StepRange DEF RunnerType
  <2>2. Steps[at[r]] \in Marks \ {"build"} => at[r] \in 4 .. 9
    BY <2>1, StepAt
  <2>3. at[r] \in 4 .. 9
    BY <1>1, <2>2 DEF AtStep
  <2>4. QED BY <1>1, <1>2, <2>1, <2>3, LateAt DEF AtStep
<1>4. pak[r] \in 1 .. built /\ Done(at[r]) \subseteq marks[pak[r]]
  BY <1>2, <1>3 DEF Publishing
<1>5. pak[r] \in Digests /\ built \in Nat
  BY <1>2, <1>4, ReleaseAssumption DEF ImageType, Digests
<1>6. /\ ImageType'
      /\ \A d \in Digests : marks[d] \subseteq marks'[d]
      /\ marks'[pak[r]] = marks[pak[r]] \cup {s}
  BY <1>1, <1>2, <1>5 DEF ImageType
<1>7. tagged # None => marks[tagged] \subseteq marks'[tagged]
  BY <1>2, <1>6 DEF ImageType
<1>8. built \leq built' /\ built' \in Nat /\ tagged' = tagged
  BY <1>1, <1>5
<1>9. CASE Ends(r, FALSE)
  BY <1>1, <1>2, <1>3, <1>6, <1>7, <1>8, <1>9, MarkedFails
<1>10. CASE Passed(r)
  <2>1. at' = [at EXCEPT ![r] = @ + 1] /\ UNCHANGED <<phase, green, pak>>
    BY <1>10 DEF Passed
  <2>2. Done(at[r] + 1) \subseteq marks'[pak'[r]]
    BY <1>3, <1>4, <1>6, <2>1, DoneNext
  <2>3. pak' \in [Runs -> Digests \cup {None}] /\ pak'[r] \in 1 .. built' /\ at[r] \in 3 .. 9
    BY <1>1, <1>2, <1>3, <1>4, <2>1 DEF RunnerType
  <2>4. QED BY <1>1, <1>2, <1>6, <1>7, <1>8, <2>1, <2>2, <2>3, MarkedPasses
<1>11. QED BY <1>1, <1>9, <1>10

LEMMA UploadKeeps == ASSUME ReleaseInv, NEW r \in Runs, Upload(r) PROVE ReleaseInv'
<1>1. PICK ok \in BOOLEAN : Ends(r, ok) /\ undone' = (undone \/ ~ ok)
  BY DEF Upload
<1>2. RunnersInv /\ RunnerType /\ ImageType /\ HandedType /\ Busy(r) /\ Publishing(r)
      /\ phase[r] = "publish"
  BY TypeParts DEF ReleaseInv, RunnersInv, Upload, AtStep, Busy, Jobs
<1>3. at[r] = 13
  <2>1. at[r] \in 1 .. 13
    BY <1>2, StepRange DEF RunnerType
  <2>2. Steps[at[r]] = "upload" => at[r] = 13
    BY <2>1, StepAt
  <2>3. QED BY <2>2 DEF Upload, AtStep
<1>4. /\ tagged = pak[r] /\ tagged # None
      /\ \A x \in Runs : "publish" \notin green[x]
  <2>1. pak[r] \in 1 .. built /\ tagged = pak[r] /\ \A x \in Runs : "publish" \notin green[x]
    BY <1>2, <1>3 DEF Publishing
  <2>2. built \in Nat
    BY <1>2 DEF ImageType
  <2>3. QED BY <2>1, <2>2 DEF None
<1>5. /\ artifact' = [artifact EXCEPT ![r] = pak[r]] /\ artifact'[r] = tagged
      /\ UNCHANGED <<image, assets, sending>>
  BY <1>2, <1>4 DEF Upload, HandedType
<1>6. green'[r] = (IF ok THEN green[r] \cup {"publish"} ELSE green[r])
      /\ \A x \in Runs \ {r} : green'[x] = green[x]
  BY <1>1, <1>2, EndsTo
<1>7. RunnersInv'
  <2>1. RunnerType' /\ Alone' /\ Turn'
    BY <1>1, <1>2, EndsTo
  <2>2. HandedType'
    BY <1>1, <1>2, <1>5 DEF HandedType, RunnerType
  <2>3. ImageType'
    BY <1>2, <1>5 DEF ImageType, image
  <2>4. QED BY <2>1, <2>2, <2>3 DEF RunnersInv, TypeOK, RunnerType, ImageType, HandedType
<1>8. \A x \in Runs : Publishing(x)'
  <2>1. at'[r] = 1 /\ \A x \in Runs \ {r} : at'[x] = at[x]
    BY <1>1, <1>2, EndsTo
  <2>2. \A x \in Runs \ {r} : at[x] = 1
    BY <1>2, OthersIdle
  <2>3. QED BY <2>1, <2>2 DEF Publishing
<1>9. Handed'
  <2>1. \A x \in Runs : artifact'[x] # None => artifact'[x] = tagged
    BY <1>2, <1>5 DEF ReleaseInv, Handed, HandedType
  <2>2. \A x \in Runs : "publish" \in green'[x] => x = r
    BY <1>4, <1>6
  <2>3. QED BY <1>4, <1>5, <2>1, <2>2 DEF Handed, image
<1>10. \A x \in Runs : Replacing(x)'
  <2>1. \A x \in Runs : sending[x] = {}
    BY <1>2, OthersIdle DEF ReleaseInv, Replacing
  <2>2. QED BY <1>5, <2>1 DEF Replacing
<1>11. ReleasedIsTagged'
  <2>1. \A x \in Runs : "release" \in green'[x] => "release" \in green[x]
    BY <1>6
  <2>2. QED BY <1>5, <2>1 DEF ReleaseInv, ReleasedIsTagged, image
<1>12. LostOnlyLate'
  <2>1. ok => MayRelease(r)'
    BY <1>5, <1>6 DEF MayRelease, image
  <2>2. QED BY <1>1, <2>1 DEF LostOnlyLate
<1>13. TaggedIsWhole' /\ tagged' \in 0 .. built'
  BY <1>5 DEF ReleaseInv, TaggedIsWhole, image
<1>14. QED BY <1>7, <1>8, <1>9, <1>10, <1>11, <1>12, <1>13 DEF ReleaseInv

-----------------------------------------------------------------------------
(* The release job.                                                        *)

(* It hands over the pak of the tag, and no release has succeeded before.  *)
LEMMA ReleasesTagged ==
  ASSUME ReleaseInv, NEW r \in Runs, phase[r] = "release"
  PROVE  /\ artifact[r] = tagged /\ tagged # None
         /\ \A x \in Runs : "release" \notin green[x]
<1>1. RunnersInv /\ RunnerType /\ Handed
  BY TypeParts DEF ReleaseInv, RunnersInv
<1>2. green[r] = {"verify", "publish"}
  BY <1>1 DEF RunnersInv, Turn
<1>3. \A x \in Runs : "release" \in green[x] => "publish" \in green[x]
  BY <1>1 DEF RunnerType, Jobs
<1>4. QED BY <1>1, <1>2, <1>3 DEF Handed

LEMMA HandsOver ==
  ASSUME ReleaseInv, NEW r \in Runs, phase[r] = "release",
         UNCHANGED <<image, artifact, undone>>,
         assets' \in [Assets -> {None, tagged}],
         NEW rest \in SUBSET Assets, sending' = [sending EXCEPT ![r] = rest],
         \/ Ends(r, TRUE) /\ rest = {} /\ \A a \in Assets : assets'[a] = tagged
         \/ /\ UNCHANGED <<phase, green, runner>>
            /\ rest # {} => \A a \in Assets \ rest : assets'[a] # None
  PROVE  ReleaseInv'
<1>1. RunnersInv /\ RunnerType /\ ImageType /\ HandedType /\ Busy(r) /\ tagged # None
  BY TypeParts, ReleasesTagged DEF ReleaseInv, RunnersInv, Busy, Jobs
<1>2. \A x \in Runs : ~ Late(x)
  BY <1>1, OthersIdle DEF Late
<1>3. ImageType' /\ HandedType'
  <2>1. tagged \in Digests
    BY <1>1 DEF ImageType
  <2>2. QED BY <1>1, <2>1 DEF ImageType, HandedType, image
<1>4. TaggedIsWhole' /\ tagged' \in 0 .. built'
  BY DEF ReleaseInv, TaggedIsWhole, image
<1>5. sending'[r] = rest /\ \A x \in Runs \ {r} : sending'[x] = {}
  BY <1>1, OthersIdle DEF HandedType
<1>6. CASE Ends(r, TRUE) /\ rest = {} /\ \A a \in Assets : assets'[a] = tagged
  <2>1. RunnerType' /\ Alone' /\ Turn'
    BY <1>1, <1>6, EndsTo
  <2>2. (\A x \in Runs : Publishing(x)') /\ Handed' /\ \A x \in Runs : MayRelease(x) => MayRelease(x)'
    BY <1>1, <1>2, <1>6, EndedRun DEF image
  <2>3. RunnersInv'
    BY <2>1, <1>3 DEF RunnersInv, TypeOK, RunnerType, ImageType, HandedType
  <2>4. \A x \in Runs : Replacing(x)'
    BY <1>5, <1>6 DEF Replacing
  <2>5. ReleasedIsTagged'
    BY <1>1, <1>6 DEF ReleasedIsTagged, image
  <2>6. LostOnlyLate'
    BY <2>2 DEF ReleaseInv, LostOnlyLate, image
  <2>7. QED BY <1>4, <2>2, <2>3, <2>4, <2>5, <2>6 DEF ReleaseInv
<1>7. CASE /\ UNCHANGED <<phase, green, runner>>
           /\ rest # {} => \A a \in Assets \ rest : assets'[a] # None
  <2>1. RunnersInv'
    BY <1>1, <1>3, <1>7
    DEF RunnersInv, Alone, Turn, Busy, TypeOK, RunnerType, ImageType, HandedType, runner
  <2>2. (\A x \in Runs : Publishing(x)') /\ Handed'
    BY <1>7 DEF ReleaseInv, Publishing, Handed, image, runner
  <2>3. \A x \in Runs : Replacing(x)'
    BY <1>5, <1>7 DEF Replacing
  <2>4. ReleasedIsTagged'
    BY <1>7, ReleasesTagged DEF ReleasedIsTagged, image
  <2>5. LostOnlyLate'
    BY <1>7 DEF ReleaseInv, LostOnlyLate, MayRelease, Late, image, runner
  <2>6. QED BY <1>4, <2>1, <2>2, <2>3, <2>4, <2>5 DEF ReleaseInv
<1>8. QED BY <1>6, <1>7

LEMMA ReleaseKeeps ==
  ASSUME ReleaseInv, NEW r \in Runs, Create(r) \/ Exists(r) \/ Delete(r) \/ Send(r)
  PROVE  ReleaseInv'
<1>1. phase[r] = "release" /\ UNCHANGED <<image, artifact, undone>>
  BY DEF Create, Exists, Delete, Send
<1>2. HandedType /\ artifact[r] = tagged /\ tagged # None
  BY <1>1, TypeParts, ReleasesTagged DEF ReleaseInv, RunnersInv
<1>3. assets \in [Assets -> {None, tagged}]
  BY <1>2 DEF ReleaseInv, ReleasedIsTagged, HandedType
<1>4. CASE Create(r)
  <2>1. assets' \in [Assets -> {None, tagged}] /\ \A a \in Assets : assets'[a] = tagged
    BY <1>2, <1>4 DEF Create
  <2>2. CASE Ends(r, TRUE) /\ UNCHANGED sending
    <3>1. sending' = [sending EXCEPT ![r] = {}]
      BY <1>2, <1>4, <2>2 DEF Create, HandedType
    <3>2. QED BY <1>1, <2>1, <2>2, <3>1, HandsOver
  <2>3. CASE sending' = [sending EXCEPT ![r] = Assets] /\ UNCHANGED <<phase, green, runner>>
    BY <1>1, <2>1, <2>3, HandsOver
  <2>4. QED BY <1>4, <2>2, <2>3 DEF Create
<1>5. CASE Exists(r)
  <2>1. /\ sending' = [sending EXCEPT ![r] = Assets] /\ assets' = assets
        /\ UNCHANGED <<phase, green, runner>>
    BY <1>5 DEF Exists
  <2>2. QED BY <1>1, <1>3, <2>1, HandsOver
<1>6. CASE Delete(r)
  <2>1. PICK a \in sending[r] : /\ assets' = [assets EXCEPT ![a] = None]
                                /\ UNCHANGED <<phase, green, runner, sending>>
    BY <1>6 DEF Delete
  <2>2. sending[r] \in SUBSET Assets /\ sending' = [sending EXCEPT ![r] = sending[r]]
    BY <1>2, <2>1 DEF HandedType
  <2>3. assets' \in [Assets -> {None, tagged}]
    BY <1>3, <2>1, <2>2
  <2>4. \A b \in Assets \ sending[r] : assets'[b] # None
    BY <1>2, <2>1 DEF ReleaseInv, Replacing, HandedType
  <2>5. QED BY <1>1, <2>1, <2>2, <2>3, <2>4, HandsOver
<1>7. CASE Send(r)
  <2>1. PICK a \in sending[r] :
          /\ assets' = [assets EXCEPT ![a] = artifact[r]]
          /\ sending' = [sending EXCEPT ![r] = @ \ {a}]
          /\ IF sending[r] = {a} THEN Ends(r, TRUE) ELSE UNCHANGED <<phase, green, runner>>
    BY <1>7 DEF Send
  <2>2. DEFINE rest == sending[r] \ {a}
  <2>3. /\ rest \in SUBSET Assets /\ a \in Assets
        /\ sending' = [sending EXCEPT ![r] = rest]
    BY <1>2, <2>1 DEF HandedType
  <2>4. assets' \in [Assets -> {None, tagged}] /\ assets'[a] = tagged
    BY <1>2, <1>3, <2>1, <2>3
  <2>5. \A b \in Assets \ rest : assets'[b] = tagged
    <3>1. \A b \in Assets \ sending[r] : assets[b] # None
      BY <2>1 DEF ReleaseInv, Replacing
    <3>2. \A b \in Assets \ rest : b = a \/ (b \in Assets \ sending[r] /\ assets'[b] = assets[b])
      BY <1>2, <2>1 DEF HandedType
    <3>3. QED BY <1>3, <2>4, <3>1, <3>2
  <2>6. CASE sending[r] = {a}
    <3>1. rest = {} /\ Ends(r, TRUE)
      BY <2>1, <2>6
    <3>2. QED BY <1>1, <2>3, <2>4, <2>5, <3>1, HandsOver
  <2>7. CASE sending[r] # {a}
    <3>1. UNCHANGED <<phase, green, runner>>
      BY <2>1, <2>7
    <3>2. QED BY <1>1, <1>2, <2>3, <2>4, <2>5, <3>1, HandsOver
  <2>8. QED BY <2>6, <2>7
<1>8. QED BY <1>4, <1>5, <1>6, <1>7

(* Jobs that fail, and verify. *)
LEMMA QuietlyEnds ==
  ASSUME ReleaseInv, NEW r \in Runs, Verify(r) \/ StepFails(r) \/ ReleaseFails(r)
  PROVE  ReleaseInv'
<1>1. RunnersInv /\ HandedType /\ Busy(r)
  BY TypeParts DEF ReleaseInv, RunnersInv, Verify, StepFails, ReleaseFails, Busy, Jobs
<1>2. sending[r] # {} => phase[r] = "release"
  BY DEF ReleaseInv, Replacing
<1>3. CASE Verify(r)
  <2>1. sending' = [sending EXCEPT ![r] = {}]
    BY <1>1, <1>2, <1>3 DEF Verify, handed, HandedType
  <2>2. undone' = (undone \/ Late(r)) /\ UNCHANGED <<image, artifact, assets>>
    BY <1>1, <1>3 DEF Verify, handed, Late, HandedType
  <2>3. PICK ok \in BOOLEAN : Ends(r, ok)
    BY <1>3 DEF Verify
  <2>4. phase[r] = "verify"
    BY <1>3 DEF Verify
  <2>5. QED BY <1>1, <2>1, <2>2, <2>3, <2>4, EndedKeeps
<1>4. CASE StepFails(r)
  <2>1. sending' = [sending EXCEPT ![r] = {}]
    BY <1>1, <1>2, <1>4 DEF StepFails, handed, HandedType
  <2>2. undone' = (undone \/ Late(r)) /\ UNCHANGED <<image, artifact, assets>> /\ Ends(r, FALSE)
    BY <1>4 DEF StepFails, handed
  <2>3. QED BY <1>1, <2>1, <2>2, EndedKeeps
<1>5. CASE ReleaseFails(r)
  <2>1. undone' = (undone \/ Late(r))
    BY <1>1, <1>5 DEF ReleaseFails, Late, HandedType
  <2>2. /\ sending' = [sending EXCEPT ![r] = {}] /\ UNCHANGED <<image, artifact, assets>>
        /\ Ends(r, FALSE)
    BY <1>5 DEF ReleaseFails
  <2>3. QED BY <1>1, <2>1, <2>2, EndedKeeps
<1>6. QED BY <1>3, <1>4, <1>5

-----------------------------------------------------------------------------
LEMMA InitInv == Init => ReleaseInv
<1> SUFFICES ASSUME Init PROVE ReleaseInv
  OBVIOUS
<1>1. TypeOK
  <2>1. 1 \in DOMAIN Steps
    <3>1. 1 \in 1 .. 13
      OBVIOUS
    <3>2. QED BY <3>1, StepRange
  <2>2. 0 \in 0 .. MaxBuilds
    BY ReleaseAssumption
  <2>3. QED BY <2>1, <2>2 DEF Init, TypeOK, Outside, None
<1>2. Alone /\ Turn
  BY DEF Init, Alone, Turn, Busy, Jobs
<1>3. \A r \in Runs : Publishing(r) /\ Replacing(r)
  <2> SUFFICES ASSUME NEW r \in Runs PROVE Publishing(r) /\ Replacing(r)
    OBVIOUS
  <2>1. at[r] = 1 /\ sending[r] = {}
    BY DEF Init
  <2>2. ~ (at[r] > 3) /\ ~ (at[r] > 10) /\ at[r] # 11 /\ ~ (at[r] > 11)
    BY <2>1
  <2>3. QED BY <2>1, <2>2 DEF Publishing, Replacing
<1>4. TaggedIsWhole /\ Handed /\ ReleasedIsTagged /\ LostOnlyLate /\ tagged \in 0 .. built
  BY DEF Init, TaggedIsWhole, Handed, ReleasedIsTagged, LostOnlyLate, None
<1>5. QED BY <1>1, <1>2, <1>3, <1>4 DEF ReleaseInv, RunnersInv

LEMMA InvStep == ReleaseInv /\ [Next]_vars => ReleaseInv'
<1> SUFFICES ASSUME ReleaseInv, [Next]_vars PROVE ReleaseInv'
  OBVIOUS
<1>1. CASE UNCHANGED vars
  BY <1>1 DEF vars, ReleaseInv, RunnersInv, TypeOK, Alone, Turn, Busy, Publishing, Handed,
              Replacing, TaggedIsWhole, ReleasedIsTagged, LostOnlyLate, MayRelease, Late
<1>2. ASSUME NEW r \in Runs, Push(r) \/ RerunFailed(r) \/ RerunAll(r) \/ Start(r) PROVE ReleaseInv'
  BY <1>2, GroupKeeps
<1>3. ASSUME NEW r \in Runs, Verify(r) \/ StepFails(r) \/ ReleaseFails(r) PROVE ReleaseInv'
  BY <1>3, QuietlyEnds
<1>4. ASSUME NEW r \in Runs, Refuse(r) \/ Early(r) \/ CheckTag(r) \/ CopyTag(r) \/ ReadBack(r)
      PROVE  ReleaseInv'
  BY <1>4, PublishKeeps
<1>5. ASSUME NEW r \in Runs, Build(r) PROVE ReleaseInv'
  BY <1>5, BuildKeeps
<1>6. ASSUME NEW r \in Runs, Mark(r) PROVE ReleaseInv'
  BY <1>6, MarkKeeps
<1>7. ASSUME NEW r \in Runs, Upload(r) PROVE ReleaseInv'
  BY <1>7, UploadKeeps
<1>8. ASSUME NEW r \in Runs, Create(r) \/ Exists(r) \/ Delete(r) \/ Send(r) PROVE ReleaseInv'
  BY <1>8, ReleaseKeeps
<1>9. QED BY <1>1, <1>2, <1>3, <1>4, <1>5, <1>6, <1>7, <1>8 DEF Next

(* What every step of the workflow preserves.                              *)
THEOREM ReleaseInvariant == Spec => []ReleaseInv
  BY InitInv, InvStep, PTL DEF Spec

(* Only an image that passed every check, is attested and signed has the   *)
(* version tag, however often jobs fail and are run again.                 *)
THEOREM TagsAreWhole == Spec => []TaggedIsWhole
  BY ReleaseInvariant, PTL DEF ReleaseInv

(* The Release never mixes images, and is whole once its job succeeded.    *)
THEOREM ReleasesAreTagged == Spec => []ReleasedIsTagged
  BY ReleaseInvariant, PTL DEF ReleaseInv

(* However often jobs fail and are run again, the version tag names an     *)
(* image that passed every gate, and every asset of the Release is of it.  *)
THEOREM WhatIsHandedOutIsWhole == Spec => []HandedOutIsWhole
<1>1. TaggedIsWhole /\ ReleasedIsTagged => HandedOutIsWhole
  BY DEF HandedOutIsWhole
<1>2. QED BY <1>1, TagsAreWhole, ReleasesAreTagged, PTL

(* A tagged version can still be released, but for a failure after the tag *)
(* or a repetition of a publish job that had succeeded.                    *)
THEOREM LossIsLate == Spec => []LostOnlyLate
  BY ReleaseInvariant, PTL DEF ReleaseInv

(* Types, and no job has succeeded that needs one which has not.           *)
THEOREM TypeCorrect == Spec => []TypeOK
<1>1. ReleaseInv => TypeOK
  BY DEF ReleaseInv, RunnersInv
<1>2. QED BY <1>1, ReleaseInvariant, PTL

(* The version tag never moves, nor does an asset of the Release turn into *)
(* that of another image.                                                  *)
THEOREM PublishedStays == Spec => NothingPublishedChanges
<1> DEFINE Stays == /\ tagged # None => tagged' = tagged
                    /\ \A a \in Assets : assets[a] # None => assets'[a] \in {assets[a], None}
<1>1. ReleaseInv /\ [Next]_vars => [Stays]_vars
  <2> SUFFICES ASSUME ReleaseInv, ReleaseInv', Next PROVE Stays
    BY InvStep
  <2>1. tagged # None => tagged' = tagged
    <3>1. ASSUME NEW r \in Runs, CopyTag(r) PROVE tagged = None
      <4>1. RunnerType /\ Publishing(r)
        BY TypeParts DEF ReleaseInv, RunnersInv
      <4>2. at[r] \in 1 .. 13
        BY <4>1, StepRange DEF RunnerType
      <4>3. Steps[at[r]] = "copy tag" => at[r] = 11
        BY <4>2, StepAt
      <4>4. at[r] = 11
        BY <3>1, <4>3 DEF CopyTag, AtStep
      <4>5. QED BY <4>1, <4>4 DEF Publishing
    <3>2. (\A r \in Runs : ~ CopyTag(r)) => tagged' = tagged
      BY DEF Next, Push, RerunFailed, RerunAll, Start, Verify, StepFails, Refuse, Early, Build,
             Mark, CheckTag, ReadBack, Upload, Create, Exists, Delete, Send, ReleaseFails, image
    <3>3. QED BY <3>1, <3>2
  <2>2. ASSUME NEW a \in Assets, assets[a] # None PROVE assets'[a] \in {assets[a], None}
    <3>1. assets[a] = tagged /\ (assets'[a] # None => assets'[a] = tagged')
      BY <2>2 DEF ReleaseInv, ReleasedIsTagged
    <3>2. QED BY <2>1, <2>2, <3>1
  <2>3. QED BY <2>1, <2>2
<1>2. QED BY <1>1, ReleaseInvariant, PTL DEF Spec, NothingPublishedChanges
============================================================================
