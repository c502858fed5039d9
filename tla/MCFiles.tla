-------------------------------- MODULE MCFiles --------------------------------
(* Two writers of files that later processes go on with: the baseline of the *)
(* rates (RateCache) and the samples of a capture (Capture).  They share no  *)
(* state: a behaviour follows one of them and the other rests.               *)
EXTENDS RateCache, TLC

CONSTANTS
  a, b, h1, h2, s1, s2, s3,                                       \* RateCache
  core0, core1, Captured, EntityOf, Window, MaxTime, MaxStarts    \* Capture

VARIABLES
  followed,
  now, offered, capturePc, asked, unasked, got, seen, file, header, delivered, lost,
  beheaded, starts

captureVars == <<now, offered, capturePc, asked, unasked, got, seen, file, header,
                 delivered, lost, beheaded, starts>>

(* Process a scrapes h1, whose two counters fall together, b scrapes both. *)
HostOfSeries == [s \in Series |-> IF s = s3 THEN h2 ELSE h1]
ScopeOfProcess == [p \in Processes |-> IF p = a THEN {h1} ELSE {h1, h2}]

(* Two cores of a host, whose names differ behind the 36th character. *)
HostCpu == [s \in Captured |-> "host-cpu"]
OneHost == [s \in Captured |-> "host"]

Samples == INSTANCE Capture WITH Series <- Captured, ObjectOf <- OneHost,
             published <- offered, pc <- capturePc, left <- unasked

Interchangeable == Permutations({s1, s2}) \cup Permutations({core0, core1})

-----------------------------------------------------------------------------
FilesInit ==
  /\ followed \in {"rates", "samples"}
  /\ Init /\ Samples!Init

FilesNext ==
  /\ UNCHANGED followed
  /\ \/ followed = "rates" /\ Next /\ UNCHANGED captureVars
     \/ followed = "samples" /\ Samples!Next /\ UNCHANGED vars

FilesSpec == FilesInit /\ [][FilesNext]_<<followed, vars, captureVars>>

-----------------------------------------------------------------------------
=============================================================================
