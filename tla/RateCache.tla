------------------------------ MODULE RateCache ------------------------------
(***************************************************************************)
(* Rates of counters that only ever grow since a host's boot               *)
(* (app/vsanmetrics.py, RateCache).                                        *)
(*                                                                         *)
(* Every collection is a process of its own.  It loads the baseline that   *)
(* earlier ones left in a file, and for each host replaces the host's      *)
(* entries by what it has just read and saves everything: a temporary file *)
(* is truncated, written, and renamed over the published one.  All         *)
(* processes use one temporary name, so the model keeps inodes: two        *)
(* processes may hold the same one open, and it may be published while one *)
(* of them is still writing to it.                                         *)
(***************************************************************************)
EXTENDS Integers, FiniteSets, FiniteSetsExt

CONSTANTS
  Processes,     \* collections that may run, one per adapter instance
  Series,        \* counters of the hosts; host and identity are in the key
  Hosts, HostOf, \* the host of each series
  Scope,         \* the hosts each process scrapes
  Inodes,        \* bound: files the directory's names can stand for
  None,          \* no entry, no rate, no file
  MaxCount,      \* bound: increments in a behaviour
  MaxScrapes,    \* bound: scrapes in a behaviour
  MaxFaults      \* bound: reboots, restarts, kills, failed saves, overlaps

(* A reading of a counter: its time and value, and for the record the      *)
(* collector's boot and what the counter had counted by then.  A rate is a *)
(* reading against one of the baseline.                                    *)
Entries == [t : Nat, v : Nat, epoch : Nat, total : Nat]
Ratings == [dv : Int, dt : Int, base : Entries, now : Entries]
Baselines == [Series -> Entries \cup {None}]

ASSUME ConstantsOK ==
  /\ HostOf \in [Series -> Hosts]
  /\ Scope \in [Processes -> SUBSET Hosts]
  /\ None \notin Inodes /\ None \notin Entries /\ None \notin Ratings
  /\ MaxCount \in Nat /\ MaxScrapes \in Nat /\ MaxFaults \in Nat

VARIABLES
  value,      \* what each counter shows
  total,      \* history: what it has counted in all its boots
  clock,      \* time.monotonic() of the collector, in scrapes
  epoch,      \* history: boots of the collector
  published,  \* the inode under the cache's path
  tmp,        \* the inode under path.tmp
  content,    \* what is in each inode
  pc, prev, left, fd,   \* each process: where it is, _prev, hosts to go, open file
  out,        \* the rates each running collection has for its result
  sent,       \* history: hosts spoilt in sent results, how often
  faults,     \* what has gone wrong so far
  overlaps    \* history: collections that began while another ran

world == <<value, total>>
disk  == <<published, tmp, content>>
vars  == <<world, clock, epoch, disk, pc, prev, left, fd, out, sent, faults, overlaps>>

-----------------------------------------------------------------------------
OfHost(h) == {s \in Series : HostOf[s] = h}

Reading(s) == [t |-> clock', v |-> value'[s], epoch |-> epoch, total |-> total'[s]]

NoEntries == [s \in Series |-> None]

(* What a file holds: nothing yet, scraps of JSON, or a saved baseline.     *)
Empty == [text |-> "empty", series |-> NoEntries]
Torn == [text |-> "torn", series |-> NoEntries]
Whole(baseline) == [text |-> "whole", series |-> baseline]

Fault == faults < MaxFaults /\ faults' = faults + 1

Init ==
  /\ value = [s \in Series |-> 0]
  /\ total = [s \in Series |-> 0]
  /\ clock = 0
  /\ epoch = 0
  /\ published = None
  /\ tmp = None
  /\ content = [f \in Inodes |-> Empty]
  /\ pc = [p \in Processes |-> "idle"]
  /\ prev = [p \in Processes |-> NoEntries]
  /\ left = [p \in Processes |-> {}]
  /\ fd = [p \in Processes |-> None]
  /\ out = [p \in Processes |-> NoEntries]
  /\ sent = [h \in Hosts |-> 0]
  /\ faults = 0
  /\ overlaps = 0

-----------------------------------------------------------------------------
(* The hosts and the machine the collections run on.                       *)

(* A host counts until it is read; what it counts before that is not seen. *)
Counting(h, grown) ==
  /\ \A s \in Series : grown[s] > 0 => HostOf[s] = h
  /\ value' = [s \in Series |-> value[s] + grown[s]]
  /\ total' = [s \in Series |-> total[s] + grown[s]]
  /\ MapThenSumSet(LAMBDA s : total'[s], Series) <= MaxCount

Reboot(h) ==
  /\ Fault
  /\ value' = [s \in Series |-> IF HostOf[s] = h THEN 0 ELSE value[s]]
  /\ UNCHANGED <<total, clock, epoch, disk, pc, prev, left, fd, out, sent, overlaps>>

Ended(P) ==
  /\ pc' = [p \in Processes |-> IF p \in P THEN "idle" ELSE pc[p]]
  /\ prev' = [p \in Processes |-> IF p \in P THEN NoEntries ELSE prev[p]]
  /\ left' = [p \in Processes |-> IF p \in P THEN {} ELSE left[p]]
  /\ fd' = [p \in Processes |-> IF p \in P THEN None ELSE fd[p]]
  /\ out' = [p \in Processes |-> IF p \in P THEN NoEntries ELSE out[p]]

(* What a process was writing when it was killed stays as scraps. *)
Scraps(P) ==
  content' = [f \in Inodes |-> IF \E p \in P : fd[p] = f THEN Torn ELSE content[f]]

Kill(p) ==
  /\ pc[p] # "idle"
  /\ Fault
  /\ Ended({p})
  /\ Scraps({p})
  /\ UNCHANGED <<world, clock, epoch, published, tmp, sent, overlaps>>

(* The collector itself restarts: its monotonic clock begins again, and    *)
(* the cache may outlive it with readings of the clock before.             *)
Restart ==
  /\ Fault
  /\ Ended(Processes)
  /\ Scraps(Processes)
  /\ clock' = 0
  /\ epoch' = epoch + 1
  /\ UNCHANGED <<world, published, tmp, sent, overlaps>>

-----------------------------------------------------------------------------
(* _load: a missing or unreadable file is an empty baseline. *)
Loaded ==
  IF published # None /\ content[published].text = "whole"
    THEN content[published].series ELSE NoEntries

Running == {p \in Processes : pc[p] # "idle"}

Start(p) ==
  /\ pc[p] = "idle"
  /\ IF Running = {} THEN UNCHANGED <<faults, overlaps>> ELSE Fault /\ overlaps' = overlaps + 1
  /\ pc' = [pc EXCEPT ![p] = "scrape"]
  /\ prev' = [prev EXCEPT ![p] = Loaded]
  /\ left' = [left EXCEPT ![p] = Scope[p]]
  /\ UNCHANGED <<world, clock, epoch, disk, fd, out, sent>>

-----------------------------------------------------------------------------
(* rates, rates_for_objects.                                               *)

Elapsed(p, s) == Reading(s).t - prev[p][s].t
Growth(p, s)  == Reading(s).v - prev[p][s].v

(* A baseline to compare with that is older by this clock. *)
Comparable(p, h) == {s \in OfHost(h) : prev[p][s] # None /\ Elapsed(p, s) > 0}

Resets(p, h) == {s \in Comparable(p, h) : Growth(p, s) < 0}

(* A majority that went backwards is a reboot: the whole host is dropped.  *)
Rebooted(p, h) ==
  LET resets == Cardinality(Resets(p, h))
  IN  resets >= 2 /\ resets >= Cardinality(OfHost(h)) \div 2

Rated(p, h) == IF Rebooted(p, h) THEN {} ELSE Comparable(p, h) \ Resets(p, h)

(* Variants with one mistake each: a counter that fell is not skipped; the *)
(* baseline of the other hosts is not kept.                                *)
ResetsCounted(p, h) ==
  [s \in Series |->
     IF s \in Comparable(p, h)
       THEN [dv |-> Growth(p, s), dt |-> Elapsed(p, s), base |-> prev[p][s], now |-> Reading(s)]
       ELSE out[p][s]]

StagedOnly(p, h) == [s \in Series |-> IF HostOf[s] = h THEN Reading(s) ELSE None]

Rates(p, h) ==
  [s \in Series |->
     IF s \in Rated(p, h)
       THEN [dv |-> Growth(p, s), dt |-> Elapsed(p, s), base |-> prev[p][s], now |-> Reading(s)]
       ELSE out[p][s]]

Staged(p, h) == [s \in Series |-> IF HostOf[s] = h THEN Reading(s) ELSE prev[p][s]]

Scrape(p, h) ==
  /\ pc[p] = "scrape"
  /\ h \in left[p]
  /\ clock < MaxScrapes
  /\ clock' = clock + 1
  /\ \E grown \in [Series -> 0..1] : Counting(h, grown)
  /\ left' = [left EXCEPT ![p] = @ \ {h}]
  /\ out' = [out EXCEPT ![p] = Rates(p, h)]
  /\ prev' = [prev EXCEPT ![p] = Staged(p, h)]
  /\ pc' = [pc EXCEPT ![p] = "open"]
  /\ UNCHANGED <<epoch, disk, fd, sent, faults, overlaps>>

(* forget: a host that left the configuration. *)
Forget(p, h) ==
  /\ pc[p] = "scrape"
  /\ h \notin Scope[p]
  /\ \E s \in OfHost(h) : prev[p][s] # None
  /\ Fault
  /\ prev' = [prev EXCEPT ![p] =
       [s \in Series |-> IF HostOf[s] = h THEN None ELSE prev[p][s]]]
  /\ pc' = [pc EXCEPT ![p] = "open"]
  /\ UNCHANGED <<world, clock, epoch, disk, left, fd, out, sent, overlaps>>

-----------------------------------------------------------------------------
(* _save, in the steps another process or a kill can come between.         *)

Unused == Inodes \ ({published, tmp} \cup {fd[p] : p \in Processes})
NewInode == IF Unused = {} THEN {} ELSE {CHOOSE f \in Unused : TRUE}

(* Variants: the baseline is written in place; the file is never closed.   *)
OpenInPlace(p) ==
  /\ pc[p] = "open"
  /\ \E f \in IF published = None THEN NewInode ELSE {published} :
       /\ published' = f
       /\ tmp' = f
       /\ fd' = [fd EXCEPT ![p] = f]
       /\ content' = [content EXCEPT ![f] = Empty]
  /\ pc' = [pc EXCEPT ![p] = "write"]
  /\ UNCHANGED <<world, clock, epoch, prev, left, out, sent, faults, overlaps>>

(* Opening truncates what is under the temporary name, or creates it. *)
Open(p) ==
  /\ pc[p] = "open"
  /\ \E f \in IF tmp = None THEN NewInode ELSE {tmp} :
       /\ tmp' = f
       /\ fd' = [fd EXCEPT ![p] = f]
       /\ content' = [content EXCEPT ![f] = Empty]
  /\ pc' = [pc EXCEPT ![p] = "write"]
  /\ UNCHANGED <<world, clock, epoch, published, prev, left, out, sent, faults, overlaps>>

(* What p writes starts at the beginning of the file: over what another    *)
(* process has written since, the end of that may be left behind.          *)
Write(p) ==
  /\ pc[p] = "write"
  /\ \E c \in {Whole(prev[p])} \cup IF content[fd[p]] = Empty THEN {} ELSE {Torn} :
       content' = [content EXCEPT ![fd[p]] = c]
  /\ fd' = [fd EXCEPT ![p] = None]
  /\ pc' = [pc EXCEPT ![p] = "replace"]
  /\ UNCHANGED <<world, clock, epoch, published, tmp, prev, left, out, sent, faults, overlaps>>

(* os.replace; without a temporary file it raises, which is swallowed. *)
Replace(p) ==
  /\ pc[p] = "replace"
  /\ published' = IF tmp = None THEN published ELSE tmp
  /\ tmp' = None
  /\ content' = [f \in Inodes |-> IF f \in {published', tmp} \cup {fd[q] : q \in Processes}
                                  THEN content[f] ELSE Empty]
  /\ pc' = [pc EXCEPT ![p] = "scrape"]
  /\ UNCHANGED <<world, clock, epoch, prev, left, fd, out, sent, faults, overlaps>>

(* An OSError before the file is replaced is swallowed. *)
SaveFails(p) ==
  /\ pc[p] \in {"open", "write"}
  /\ Fault
  /\ Scraps({p})
  /\ fd' = [fd EXCEPT ![p] = None]
  /\ pc' = [pc EXCEPT ![p] = "scrape"]
  /\ UNCHANGED <<world, clock, epoch, published, tmp, prev, left, out, sent, overlaps>>

-----------------------------------------------------------------------------
(* A rate is right if it is what its counter counted, over the time that   *)
(* passed by one clock.                                                    *)
Right(r) ==
  /\ r # None
  /\ r.dv = r.now.total - r.base.total
  /\ r.now.epoch = r.base.epoch

Spoilt(p) == {h \in Scope[p] : \E s \in OfHost(h) : ~Right(out[p][s])}

(* All hosts are done: the result goes out and the process ends. *)
Send(p) ==
  /\ pc[p] = "scrape"
  /\ left[p] = {}
  /\ sent' = [h \in Hosts |-> IF h \in Spoilt(p) THEN sent[h] + 1 ELSE sent[h]]
  /\ Ended({p})
  /\ UNCHANGED <<world, clock, epoch, disk, faults, overlaps>>

Next ==
  \/ \E h \in Hosts : Reboot(h)
  \/ Restart
  \/ \E p \in Processes : Kill(p)
  \/ \E p \in Processes : Start(p)
  \/ \E p \in Processes, h \in Hosts : Scrape(p, h)
  \/ \E p \in Processes, h \in Hosts : Forget(p, h)
  \/ \E p \in Processes : Open(p)
  \/ \E p \in Processes : Write(p)
  \/ \E p \in Processes : Replace(p)
  \/ \E p \in Processes : SaveFails(p)
  \/ \E p \in Processes : Send(p)

Spec == Init /\ [][Next]_vars

-----------------------------------------------------------------------------
TypeOK ==
  /\ value \in [Series -> Nat] /\ total \in [Series -> Nat]
  /\ clock \in Nat /\ epoch \in Nat
  /\ {published, tmp} \subseteq Inodes \cup {None}
  /\ content \in [Inodes -> [text : {"empty", "torn", "whole"}, series : Baselines]]
  /\ pc \in [Processes -> {"idle", "scrape", "open", "write", "replace"}]
  /\ prev \in [Processes -> Baselines]
  /\ left \in [Processes -> SUBSET Hosts]
  /\ fd \in [Processes -> Inodes \cup {None}]
  /\ \A p \in Processes : pc[p] = "write" <=> fd[p] # None
  /\ out \in [Processes -> [Series -> Ratings \cup {None}]]
  /\ sent \in [Hosts -> Nat]
  /\ faults \in 0..MaxFaults /\ overlaps \in 0..faults

(* Whatever was killed, rebooted or torn: no rate is negative or over no   *)
(* time, and none says more than its counter counted since the reading it  *)
(* is compared with.                                                       *)
NeverOverstated ==
  \A p \in Processes, s \in Series :
    LET r == out[p][s]
    IN  r # None => r.dt > 0 /\ r.dv \in 0..(r.now.total - r.base.total)

(* vsanmetrics.py:186, "a killed collection cannot leave a torn file": it  *)
(* takes two collections at once to publish one that cannot be read.       *)
OnlyOverlapTears ==
  overlaps = 0 /\ published # None => content[published].text = "whole"

(* vsanmetrics.py:171, "just costs one interval": each host's rates are    *)
(* missing or wrong in its first result, and in at most one more for       *)
(* everything that ever went wrong; two collections at once cost two.      *)
OneIntervalEach == \A h \in Hosts : sent[h] <= 1 + faults + overlaps
=============================================================================
