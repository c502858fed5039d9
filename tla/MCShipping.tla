------------------------------- MODULE MCShipping -------------------------------
(* How the repository becomes what is handed out: its tables become content  *)
(* and a scope (Content), a tag becomes an image and a Release (Release), a  *)
(* pak is checked (PakVerify) and bundled by hand (Bundle).  They share no   *)
(* state: a behaviour follows one of them and the others rest.               *)
EXTENDS Content, Release, TLC

CONSTANTS
  clusters, A, B, D, E,   \* Content
  first, second, third,   \* Release
  view, dashboard, Views, Unbound, MaxIdents,   \* PakVerify
  Versions, MaxPaks, MaxBundles, MaxFailures    \* Bundle

VARIABLES
  followed,
  checked, checkPc, examined, asked, failures, verdict,
  paks, builds, dist, bundlePc, withImage, chosen, facts, readme, tar, zip, rebuilt,
  spoilt, begun, failed

checkVars == <<checked, checkPc, examined, asked, failures, verdict>>
bundleVars == <<paks, builds, dist, bundlePc, withImage, chosen, facts, readme, tar, zip,
                rebuilt, spoilt, begun, failed>>

-----------------------------------------------------------------------------
(* Content: two clusters; on the first the feature behind "remote" is not   *)
(* in use.  Its two kind names differ, as for                               *)
(* computeCluster-remotedomclient.                                          *)
ActualOf == [m \in {"iopsActual"} |-> "iops"]
Live == [client |-> "VsanClient", remote |-> "VsanComputecluster", cpu |-> "VsanHostCpu"]
Extra == [client |-> "VsanClient", remote |-> "VsanComputeCluster", cpu |-> "VsanHostCpu"]
Plain == [client |-> {"iops", "iopsActual", "loss"}, remote |-> {}, cpu |-> {"iops"}]
Shared == [client |-> {"iops", "loss"}, remote |-> {"iops", "loss"}, cpu |-> {"iops"}]
Clusters == {Plain, Shared}
Advertised == [client |-> {"iops"}, remote |-> {"iops"}, cpu |-> {"iops"}]

(* Release: two pushes of a tag on a release branch and one off them. *)
AllRuns == {first, second, third}
Reviewed == {first, second}

(* One view, which one dashboard may show. *)
PakCheck == INSTANCE PakVerify WITH
  pak <- checked, pc <- checkPc, Dashboards <- {dashboard}

(* 1 is version 1.3.1, 2 is 1.3.10, whose name holds the other's. *)
Prefixed == [v \in Versions |-> IF v = 1 THEN {1, 2} ELSE {v}]
Bundled == INSTANCE Bundle WITH
  Within <- Prefixed, MaxBuilds <- MaxPaks, MaxRuns <- MaxBundles, MaxFaults <- MaxFailures,
  built <- builds, pc <- bundlePc, pak <- chosen, moved <- rebuilt, runs <- begun,
  faults <- failed

(* Of Content and Release one rests, and looks alike then: the names of the *)
(* views and of the runs may be exchanged together.                         *)
Exchanged == (A :> B) @@ (B :> A) @@ (first :> second) @@ (second :> first)
Same == [x \in {A, B} \cup Reviewed |-> x]
Interchangeable == {f @@ g : f \in {Exchanged, Same}, g \in Permutations({D, E})}

-----------------------------------------------------------------------------
(* What is not followed: nothing was harvested, nothing pushed.             *)
ContentRests ==
  /\ live = [e \in Entities |-> {}] /\ extra = [e \in Entities |-> {}]
  /\ covered = [k \in Kinds |-> {}]
  /\ views = [t \in Titles |-> NoView] /\ guid = [t \in Titles |-> t]
  /\ outViews = [t \in Titles |-> NoFile] /\ treeViews = [t \in Titles |-> NoFile]
  /\ dashes = [d \in Dashboards |-> {}]
  /\ outDashes = [d \in Dashboards |-> {}] /\ treeDashes = [d \in Dashboards |-> {}]
  /\ fresh = {} /\ edits = 0

CheckRests == checked = <<>> /\ PakCheck!NotBegun

ShippingInit ==
  /\ followed \in {"content", "release", "check", "bundle"}
  /\ IF followed = "content" THEN InitContent ELSE ContentRests
  /\ Init
  /\ IF followed = "check" THEN PakCheck!Init ELSE CheckRests
  /\ Bundled!Init

ShippingNext ==
  /\ UNCHANGED followed
  /\ IF followed = "content" THEN NextContent ELSE UNCHANGED contentVars
  /\ IF followed = "release" THEN Next ELSE UNCHANGED vars
  /\ IF followed = "check" THEN PakCheck!Next ELSE UNCHANGED checkVars
  /\ IF followed = "bundle" THEN Bundled!Next ELSE UNCHANGED bundleVars

shippingVars == <<followed, contentVars, vars, checkVars, bundleVars>>
ShippingSpec == ShippingInit /\ [][ShippingNext]_shippingVars

-----------------------------------------------------------------------------

(* A bundle contains what it says it contains, or was interrupted            *)
(* (build_release_bundle.py:13-16, 127-128, 225-230).                        *)
BundleIsTrue == Bundled!BundleIsTrue
=============================================================================
