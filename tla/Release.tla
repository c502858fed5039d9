---------------------------- MODULE Release ----------------------------
(***************************************************************************)
(* How one version leaves the repository: the jobs verify, publish and     *)
(* release of .github/workflows/build-and-publish.yml, for the runs of ONE *)
(* tag (another tag is another concurrency group and another image tag).   *)
(*                                                                         *)
(* A run is started by a push of the tag and may be run again by hand, the *)
(* failed jobs only or all of them.  Any step may fail, before its effect  *)
(* or after it; the registry, the image and the Release keep what was done *)
(* to them.  A digest is the number of the build that made it: mp-build    *)
(* builds without a cache, so no two attempts make the same image.         *)
(***************************************************************************)
EXTENDS Naturals, Sequences

CONSTANTS Runs,        \* the runs that pushes of the tag start
          OnBranch,    \* those whose commit is on a release branch
          MaxBuilds    \* bound: images built

ASSUME ReleaseAssumption == OnBranch \subseteq Runs /\ MaxBuilds \in Nat \ {0}

VARIABLES phase,       \* where each run is: a job, or one of Outside
          green,       \* the jobs of each run whose latest attempt succeeded
          at,          \* the step of the publish job each run is at
          pak,         \* the digest in the pak that the attempt built
          built,       \* images built so far
          marks,       \* what was done with each digest
          tagged,      \* what the version tag resolves to
          artifact,    \* the digest in the pak that each run handed over
          assets,      \* the digest each asset of the Release belongs to
          sending,     \* assets a run has yet to replace in the Release
          undone       \* history: a finished publish job was run again, or
                       \* one failed after it had set the version tag

vars == <<phase, green, at, pak, built, marks, tagged, artifact, assets,
          sending, undone>>
image == <<built, marks, tagged>>
runner == <<at, pak>>
handed == <<artifact, assets, sending>>

Jobs == {"verify", "publish", "release"}
Outside == {"absent", "queued", "ended"}
Assets == {"pak", "bundle", "sums"}
None == 0
Digests == 1 .. MaxBuilds

\* TLC must refute TaggedIsWhole and LostOnlyLate with this order.
TagFirst == <<"refuse", "early", "build", "digest", "check tag", "copy tag",
              "read back", "gate", "pull", "attest image", "attest pak", "sign",
              "upload">>

\* The steps of the publish job, in their order.
Steps == <<"refuse", "early", "build", "digest", "gate", "pull", "attest image",
           "attest pak", "sign", "check tag", "copy tag", "read back", "upload">>

\* The steps whose success is a fact about the image.
Marks == {"build", "digest", "gate", "pull", "attest image", "attest pak", "sign"}

Init == /\ phase = [r \in Runs |-> "absent"]
        /\ green = [r \in Runs |-> {}]
        /\ at = [r \in Runs |-> 1]
        /\ pak = [r \in Runs |-> None]
        /\ built = 0
        /\ marks = [d \in Digests |-> {}]
        /\ tagged = None
        /\ artifact = [r \in Runs |-> None]
        /\ assets = [a \in Assets |-> None]
        /\ sending = [r \in Runs |-> {}]
        /\ undone = FALSE
------------------------------------------------------------------------
(* Runs and their concurrency group.                                       *)

\* A run asks for its turn.  A group keeps one waiting run: an older one that
\* still waits is cancelled.
Queue(r) == phase' = [x \in Runs |-> IF x = r THEN "queued"
                                     ELSE IF phase[x] = "queued" THEN "ended"
                                     ELSE phase[x]]

Push(r) == /\ phase[r] = "absent"
           /\ Queue(r)
           /\ UNCHANGED <<green, runner, image, handed, undone>>

RerunFailed(r) == /\ phase[r] = "ended" /\ green[r] # Jobs
                  /\ Queue(r)
                  /\ UNCHANGED <<green, runner, image, handed, undone>>

RerunAll(r) == /\ phase[r] = "ended"
               /\ Queue(r)
               /\ green' = [green EXCEPT ![r] = {}]
               /\ undone' = (undone \/ "publish" \in green[r])
               /\ UNCHANGED <<runner, image, handed>>

Busy(r) == phase[r] \in Jobs

\* The first job that still has to run.
NextJob(r) == IF "verify" \notin green[r] THEN "verify"
              ELSE IF "publish" \notin green[r] THEN "publish" ELSE "release"

\* TLC must refute NothingPublishedChanges with this: no concurrency group.
StartUngrouped(r) == /\ phase[r] = "queued"
                     /\ phase' = [phase EXCEPT ![r] = NextJob(r)]
                     /\ UNCHANGED <<green, runner, image, handed, undone>>

Start(r) == /\ phase[r] = "queued"
            /\ \A x \in Runs : ~ Busy(x)
            /\ phase' = [phase EXCEPT ![r] = NextJob(r)]
            /\ UNCHANGED <<green, runner, image, handed, undone>>

\* A job ends and its runner with what is on it.  The next job needs it.
Ends(r, ok) ==
  /\ green' = [green EXCEPT ![r] = IF ok THEN @ \cup {phase[r]} ELSE @ \ {phase[r]}]
  /\ phase' = [phase EXCEPT ![r] = CASE ok /\ @ = "verify" -> "publish"
                                     [] ok /\ @ = "publish" -> "release"
                                     [] OTHER -> "ended"]
  /\ at' = [at EXCEPT ![r] = 1]
  /\ pak' = [pak EXCEPT ![r] = None]

Verify(r) == /\ phase[r] = "verify"
             /\ \E ok \in BOOLEAN : Ends(r, ok)
             /\ UNCHANGED <<image, handed, undone>>
------------------------------------------------------------------------
(* The publish job.                                                        *)

AtStep(r, s) == phase[r] = "publish" /\ Steps[at[r]] = s

Passed(r) == /\ at' = [at EXCEPT ![r] = @ + 1]
             /\ UNCHANGED <<phase, green, pak>>

\* The version tag is set and the pak is not handed over yet.
Late(r) == phase[r] = "publish" /\ Steps[at[r]] \in {"read back", "upload"}

\* Every step may fail; what the job did before stays.
StepFails(r) == /\ phase[r] = "publish"
                /\ Ends(r, FALSE)
                /\ undone' = (undone \/ Late(r))
                /\ UNCHANGED <<image, handed>>

\* A final tag is refused off the release branches.
Refuse(r) == /\ AtStep(r, "refuse") /\ r \in OnBranch
             /\ Passed(r)
             /\ UNCHANGED <<image, handed, undone>>

\* The early check stops at a tag it sees; it may be unable to tell and goes on.
Early(r) == /\ AtStep(r, "early")
            /\ Passed(r)
            /\ UNCHANGED <<image, handed, undone>>

\* mp-build pushes the image before it writes the pak: either may be the last
\* thing it does.
Build(r) == /\ AtStep(r, "build") /\ built < MaxBuilds
            /\ built' = built + 1
            /\ marks' = [marks EXCEPT ![built + 1] = {"build"}]
            /\ \/ /\ at' = [at EXCEPT ![r] = @ + 1]
                  /\ pak' = [pak EXCEPT ![r] = built + 1]
                  /\ UNCHANGED <<phase, green>>
               \/ Ends(r, FALSE)
            /\ UNCHANGED <<tagged, handed, undone>>

\* The digest and pull checks, the vulnerability gate, the attestations and
\* the signatures are about the digest that the pak names.
Mark(r) == \E s \in Marks \ {"build"} :
             /\ AtStep(r, s)
             /\ marks' = [marks EXCEPT ![pak[r]] = @ \cup {s}]
             /\ \/ Passed(r)
                \/ Ends(r, FALSE)
             /\ UNCHANGED <<built, tagged, handed, undone>>

\* TLC must refute ReleasedIsTagged with this: the early check was trusted.
CheckTagNot(r) == /\ AtStep(r, "check tag")
                  /\ Passed(r)
                  /\ UNCHANGED <<image, handed, undone>>

\* The gate: only "manifest unknown" lets the job go on.
CheckTag(r) == /\ AtStep(r, "check tag") /\ tagged = None
               /\ Passed(r)
               /\ UNCHANGED <<image, handed, undone>>

\* The copy, a request of its own after the check.
CopyTag(r) == /\ AtStep(r, "copy tag")
              /\ tagged' = pak[r]
              /\ Passed(r)
              /\ UNCHANGED <<built, marks, handed, undone>>

ReadBack(r) == /\ AtStep(r, "read back") /\ tagged = pak[r]
               /\ Passed(r)
               /\ UNCHANGED <<image, handed, undone>>

Upload(r) == /\ AtStep(r, "upload")
             /\ artifact' = [artifact EXCEPT ![r] = pak[r]]
             /\ \E ok \in BOOLEAN : Ends(r, ok) /\ undone' = (undone \/ ~ ok)
             /\ UNCHANGED <<image, assets, sending>>
------------------------------------------------------------------------
(* The release job.                                                        *)

NoRelease == \A a \in Assets : assets[a] = None

\* gh release create makes the Release with all its assets or none at all.
\* It may have made it and still report an error.
Create(r) == /\ phase[r] = "release" /\ sending[r] = {} /\ NoRelease
             /\ assets' = [a \in Assets |-> artifact[r]]
             /\ \/ Ends(r, TRUE) /\ UNCHANGED sending
                \/ sending' = [sending EXCEPT ![r] = Assets] /\ UNCHANGED <<phase, green, runner>>
             /\ UNCHANGED <<image, artifact, undone>>

\* The Release exists: its assets are replaced, one by one.
Exists(r) == /\ phase[r] = "release" /\ sending[r] = {} /\ ~ NoRelease
             /\ sending' = [sending EXCEPT ![r] = Assets]
             /\ UNCHANGED <<phase, green, runner, image, artifact, assets, undone>>

\* --clobber deletes an asset, then sends the new one.
Delete(r) == \E a \in sending[r] :
               /\ phase[r] = "release" /\ assets[a] # None
               /\ assets' = [assets EXCEPT ![a] = None]
               /\ UNCHANGED <<phase, green, runner, image, artifact, sending, undone>>

Send(r) == \E a \in sending[r] :
             /\ phase[r] = "release" /\ assets[a] = None
             /\ assets' = [assets EXCEPT ![a] = artifact[r]]
             /\ sending' = [sending EXCEPT ![r] = @ \ {a}]
             /\ IF sending[r] = {a} THEN Ends(r, TRUE) ELSE UNCHANGED <<phase, green, runner>>
             /\ UNCHANGED <<image, artifact, undone>>

ReleaseFails(r) == /\ phase[r] = "release"
                   /\ Ends(r, FALSE)
                   /\ sending' = [sending EXCEPT ![r] = {}]
                   /\ UNCHANGED <<image, artifact, assets, undone>>

Next == \E r \in Runs :
          \/ Push(r) \/ RerunFailed(r) \/ RerunAll(r) \/ Start(r)
          \/ Verify(r) \/ StepFails(r) \/ Refuse(r) \/ Early(r) \/ Build(r)
          \/ Mark(r) \/ CheckTag(r) \/ CopyTag(r) \/ ReadBack(r) \/ Upload(r)
          \/ Create(r) \/ Exists(r) \/ Delete(r) \/ Send(r) \/ ReleaseFails(r)

Spec == Init /\ [][Next]_vars
------------------------------------------------------------------------
\* Types; and no job has succeeded that needs one which has not: release needs
\* publish and publish needs verify, whatever was run again.
TypeOK ==
  /\ phase \in [Runs -> Jobs \cup Outside]
  /\ green \in [Runs -> {{}, {"verify"}, {"verify", "publish"}, Jobs}]
  /\ at \in [Runs -> DOMAIN Steps]
  /\ pak \in [Runs -> Digests \cup {None}] /\ artifact \in [Runs -> Digests \cup {None}]
  /\ built \in 0 .. MaxBuilds /\ tagged \in Digests \cup {None}
  /\ marks \in [Digests -> SUBSET Marks]
  /\ assets \in [Assets -> Digests \cup {None}]
  /\ sending \in [Runs -> SUBSET Assets] /\ undone \in BOOLEAN

\* "Nothing is signed, attested, version-tagged or released if it fails"
\* (build-and-publish.yml:340-341): however often jobs fail and are run again,
\* the image that the version tag resolves to passed the digest check, the
\* vulnerability gate and the pull check, is attested and signed.
TaggedIsWhole == tagged # None => marks[tagged] = Marks

\* Every asset of the Release is of the image that the version tag resolves
\* to, although the Release outlives the attempt that made it and a later
\* attempt builds another image and may not see the tag in its early check;
\* and a release job that succeeded left no asset out, also when it found the
\* Release there and replaced it asset by asset.
ReleasedIsTagged == \A a \in Assets :
  /\ assets[a] # None => assets[a] = tagged
  /\ assets[a] = None => \A r \in Runs : "release" \notin green[r]

\* What a Release hands out is the tagged image's, and that image is whole:
\* whatever failed, was run again or was left over
\* (build-and-publish.yml:340-341).
HandedOutIsWhole == TaggedIsWhole /\ ReleasedIsTagged

\* Run r has handed over, or may still hand over, the tagged pak.
MayRelease(r) == \/ artifact[r] = tagged /\ "publish" \in green[r]
                 \/ Late(r) /\ pak[r] = tagged

\* A version whose tag is set can be released by running failed jobs again,
\* except after a failure between the tag and the upload of the pak, or when
\* a publish job that had succeeded was run again: publish cannot succeed a
\* second time, so the tag then stays without its Release.
LostOnlyLate == tagged # None /\ ~ undone => \E r \in Runs : MayRelease(r)

\* The version tag never moves once it is set ("Version tags are immutable",
\* build-and-publish.yml:250), although its check and its copy are two
\* requests, and no asset of the Release turns into that of another image.
NothingPublishedChanges ==
  [][/\ tagged # None => tagged' = tagged
     /\ \A a \in Assets : assets[a] # None => assets'[a] \in {assets[a], None}]_vars
========================================================================
