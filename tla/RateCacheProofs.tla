--------------------------- MODULE RateCacheProofs ---------------------------
(***************************************************************************)
(* Proofs about RateCache, for any hosts, counters, processes and bounds.  *)
(* The invariant says of every reading that is kept anywhere, in a process *)
(* or in a file, that its counter cannot have gained more than was         *)
(* counted since; a reboot only widens the gap.                            *)
(***************************************************************************)
EXTENDS RateCache, FiniteSetTheorems, TLAPS

(* The reading e of s: what s shows above it, s has counted since. *)
Behind(s, e) == value[s] - e.v <= total[s] - e.total

KeptBehind ==
  /\ \A p \in Processes, s \in Series : prev[p][s] # None => Behind(s, prev[p][s])
  /\ \A f \in Inodes, s \in Series :
       content[f].series[s] # None => Behind(s, content[f].series[s])

RateInv == TypeOK /\ KeptBehind /\ NeverOverstated

LEMMA NoEntriesType == NoEntries \in Baselines
BY DEF NoEntries, Baselines

LEMMA InitRateInv == Init => RateInv
<1> SUFFICES ASSUME Init PROVE RateInv
  OBVIOUS
<1>1. TypeOK
  BY ConstantsOK, NoEntriesType
  DEF Init, TypeOK, NoEntries, Empty, Baselines
<1>2. KeptBehind
  BY DEF Init, KeptBehind, NoEntries, Empty
<1>3. NeverOverstated
  BY DEF Init, NeverOverstated, NoEntries
<1>4. QED BY <1>1, <1>2, <1>3 DEF RateInv

(* What every step that ends processes does to their variables. *)
LEMMA EndedKeeps ==
  ASSUME RateInv, NEW P \in SUBSET Processes, Ended(P), Scraps(P) \/ UNCHANGED content,
         UNCHANGED world
  PROVE  /\ KeptBehind'
         /\ NeverOverstated'
         /\ prev' \in [Processes -> Baselines]
         /\ out' \in [Processes -> [Series -> Ratings \cup {None}]]
         /\ content' \in [Inodes -> [text : {"empty", "torn", "whole"}, series : Baselines]]
<1> USE DEF RateInv, TypeOK, NoEntries, Torn
<1>1. prev' \in [Processes -> Baselines]
  BY NoEntriesType DEF Ended
<1>2. out' \in [Processes -> [Series -> Ratings \cup {None}]]
  BY DEF Ended
<1>3. content' \in [Inodes -> [text : {"empty", "torn", "whole"}, series : Baselines]]
  <2>1. CASE Scraps(P)
    BY <2>1, NoEntriesType DEF Scraps
  <2>2. CASE UNCHANGED content
    BY <2>2
  <2>3. QED BY <2>1, <2>2
<1>4. \A p \in Processes, s \in Series : prev'[p][s] # None => prev'[p][s] = prev[p][s]
  BY DEF Ended
<1>5. \A f \in Inodes, s \in Series :
        content'[f].series[s] # None => content'[f].series[s] = content[f].series[s]
  BY DEF Scraps
<1>6. KeptBehind'
  BY <1>4, <1>5, ZenonT(60) DEF KeptBehind, Behind, world
<1>7. NeverOverstated'
  <2>1. \A p \in Processes, s \in Series : out'[p][s] # None => out'[p][s] = out[p][s]
    BY DEF Ended
  <2>2. QED BY <2>1 DEF NeverOverstated
<1>8. QED BY <1>1, <1>2, <1>3, <1>6, <1>7

LEMMA EndedTypes ==
  ASSUME TypeOK, NEW P \in SUBSET Processes, Ended(P)
  PROVE  /\ pc' \in [Processes -> {"idle", "scrape", "open", "write", "replace"}]
         /\ left' \in [Processes -> SUBSET Hosts]
         /\ fd' \in [Processes -> Inodes \cup {None}]
         /\ \A p \in Processes : pc'[p] = "write" <=> fd'[p] # None
BY DEF TypeOK, Ended

LEMMA FaultCounts ==
  ASSUME TypeOK, Fault
  PROVE  /\ faults' \in 0..MaxFaults
         /\ overlaps' = overlaps \/ overlaps' = overlaps + 1 => overlaps' \in 0..faults'
<1>1. faults \in Nat /\ MaxFaults \in Nat /\ faults < MaxFaults /\ faults' = faults + 1
      /\ overlaps \in Nat /\ overlaps <= faults
  BY ConstantsOK DEF TypeOK, Fault
<1>2. QED BY <1>1

(* A scrape: the host's counters have grown by the same in value and total. *)
LEMMA CountingGrows ==
  ASSUME TypeOK, NEW h \in Hosts, NEW grown \in [Series -> 0..1], Counting(h, grown)
  PROVE  /\ value' \in [Series -> Nat] /\ total' \in [Series -> Nat]
         /\ \A s \in Series : value'[s] - value[s] = total'[s] - total[s]
<1>1. value' = [s \in Series |-> value[s] + grown[s]] /\ total' = [s \in Series |-> total[s] + grown[s]]
  BY DEF Counting
<1>2. \A s \in Series : value[s] \in Nat /\ total[s] \in Nat /\ grown[s] \in Nat
  BY DEF TypeOK
<1>3. QED BY <1>1, <1>2

LEMMA RatesSound ==
  ASSUME RateInv, NEW p \in Processes, NEW h \in Hosts, clock' = clock + 1,
         NEW grown \in [Series -> 0..1], Counting(h, grown)
  PROVE  /\ Rates(p, h) \in [Series -> Ratings \cup {None}]
         /\ \A s \in Series : Rates(p, h)[s] # None =>
              /\ Rates(p, h)[s].dt > 0
              /\ Rates(p, h)[s].dv \in 0..(Rates(p, h)[s].now.total - Rates(p, h)[s].base.total)
<1> USE DEF RateInv
<1> SUFFICES ASSUME NEW s \in Series
             PROVE  /\ Rates(p, h)[s] \in Ratings \cup {None}
                    /\ Rates(p, h)[s] # None =>
                         /\ Rates(p, h)[s].dt > 0
                         /\ Rates(p, h)[s].dv
                              \in 0..(Rates(p, h)[s].now.total - Rates(p, h)[s].base.total)
  BY DEF Rates
<1>1. CASE s \notin Rated(p, h)
  BY <1>1 DEF Rates, TypeOK, NeverOverstated
<1>2. CASE s \in Rated(p, h)
  <2> DEFINE b == prev[p][s]
             n == Reading(s)
  <2>1. /\ s \in OfHost(h) /\ b # None /\ Elapsed(p, s) > 0
        /\ ~(Growth(p, s) < 0)
    BY <1>2 DEF Rated, Comparable, Resets
  <2>2. b \in Entries
    BY <2>1 DEF TypeOK, Baselines
  <2>3. n \in Entries
    BY CountingGrows DEF Reading, Entries, TypeOK
  <2>4. Rates(p, h)[s] = [dv |-> n.v - b.v, dt |-> n.t - b.t, base |-> b, now |-> n]
    BY <1>2 DEF Rates, Growth, Elapsed
  <2>5. value[s] - b.v <= total[s] - b.total
    BY <2>1 DEF KeptBehind, Behind
  <2>6. n.v - b.v <= n.total - b.total
    <3>1. n.v = value'[s] /\ n.total = total'[s]
      BY DEF Reading
    <3>2. value'[s] - value[s] = total'[s] - total[s]
      BY CountingGrows
    <3>3. /\ value[s] \in Nat /\ total[s] \in Nat /\ value'[s] \in Nat /\ total'[s] \in Nat
          /\ b.v \in Nat /\ b.total \in Nat
      BY <2>2, CountingGrows DEF TypeOK, Entries
    <3>4. QED BY <2>5, <3>1, <3>2, <3>3
  <2>7. n.v - b.v >= 0 /\ n.t - b.t > 0
    <3>1. n.v \in Nat /\ b.v \in Nat /\ n.t \in Nat /\ b.t \in Nat
      BY <2>2, <2>3 DEF Entries
    <3>2. QED BY <2>1, <3>1 DEF Growth, Elapsed
  <2>8. /\ n.v \in Nat /\ b.v \in Nat /\ n.t \in Nat /\ b.t \in Nat
        /\ n.total \in Nat /\ b.total \in Nat
    BY <2>2, <2>3 DEF Entries
  <2>9. Rates(p, h)[s] \in Ratings
    BY <2>2, <2>3, <2>4, <2>8 DEF Ratings
  <2>10. QED BY <2>4, <2>6, <2>7, <2>8, <2>9
<1>3. QED BY <1>1, <1>2

LEMMA ScrapeKeeps ==
  ASSUME RateInv, NEW p \in Processes, NEW h \in Hosts, Scrape(p, h)
  PROVE  RateInv'
<1> USE DEF RateInv
<1>0. PICK grown \in [Series -> 0..1] : Counting(h, grown)
  BY DEF Scrape
<1>1. /\ value' \in [Series -> Nat] /\ total' \in [Series -> Nat]
      /\ \A s \in Series : value'[s] - value[s] = total'[s] - total[s]
  BY <1>0, CountingGrows
<1>2. clock' = clock + 1 /\ clock' \in Nat
  BY DEF Scrape, TypeOK
<1>3. \A s \in Series : Reading(s) \in Entries
  BY <1>1, <1>2 DEF Reading, Entries, TypeOK
<1>4. Staged(p, h) \in Baselines
  BY <1>3 DEF Staged, Baselines, TypeOK
<1>5. /\ Rates(p, h) \in [Series -> Ratings \cup {None}]
      /\ \A s \in Series : Rates(p, h)[s] # None =>
           /\ Rates(p, h)[s].dt > 0
           /\ Rates(p, h)[s].dv \in 0..(Rates(p, h)[s].now.total - Rates(p, h)[s].base.total)
  BY <1>0, <1>2, RatesSound
<1>6. TypeOK'
  BY <1>1, <1>2, <1>4, <1>5 DEF Scrape, TypeOK, disk
<1>7. \A s \in Series, e \in Entries : Behind(s, e) => Behind(s, e)'
  <2> SUFFICES ASSUME NEW s \in Series, NEW e \in Entries, Behind(s, e) PROVE Behind(s, e)'
    OBVIOUS
  <2>1. /\ value[s] \in Nat /\ total[s] \in Nat /\ value'[s] \in Nat /\ total'[s] \in Nat
        /\ e.v \in Nat /\ e.total \in Nat
    BY <1>1 DEF TypeOK, Entries
  <2>2. value'[s] - e.v <= total'[s] - e.total
    BY <1>1, <2>1 DEF Behind
  <2>3. QED BY <2>2 DEF Behind
<1>8. ASSUME NEW q \in Processes, NEW s \in Series, prev'[q][s] # None
      PROVE  value'[s] - prev'[q][s].v <= total'[s] - prev'[q][s].total
  <2>1. CASE q = p /\ HostOf[s] = h
    <3>1. prev'[q][s] = Reading(s)
      BY <2>1 DEF Scrape, Staged, TypeOK
    <3>2. value'[s] \in Nat /\ total'[s] \in Nat
      BY <1>1
    <3>3. QED BY <3>1, <3>2 DEF Reading
  <2>2. CASE ~(q = p /\ HostOf[s] = h)
    <3>1. prev'[q][s] = prev[q][s]
      BY <2>2 DEF Scrape, Staged, TypeOK
    <3>2. prev[q][s] \in Entries
      BY <1>8, <3>1 DEF TypeOK, Baselines
    <3>3. Behind(s, prev[q][s])'
      BY <1>7, <1>8, <3>1, <3>2 DEF KeptBehind, Behind
    <3>4. QED BY <3>1, <3>3 DEF Behind
  <2>3. QED BY <2>1, <2>2
<1>9. ASSUME NEW f \in Inodes, NEW s \in Series, content'[f].series[s] # None
      PROVE  value'[s] - content'[f].series[s].v <= total'[s] - content'[f].series[s].total
  <2>1. content' = content
    BY DEF Scrape, disk
  <2>2. content[f].series[s] \in Entries
    BY <1>9, <2>1 DEF TypeOK, Baselines
  <2>3. value'[s] - content[f].series[s].v <= total'[s] - content[f].series[s].total
    BY <1>7, <1>9, <2>1, <2>2 DEF KeptBehind, Behind
  <2>4. QED BY <2>1, <2>3
<1>10. KeptBehind'
  BY <1>8, <1>9 DEF KeptBehind, Behind
<1>11. NeverOverstated'
  BY <1>5 DEF Scrape, NeverOverstated, TypeOK
<1>12. QED BY <1>6, <1>10, <1>11

(* The steps that move readings between processes and files. *)
LEMMA Moved ==
  ASSUME RateInv, TypeOK', UNCHANGED <<world, out>>,
         \A p \in Processes, s \in Series : prev'[p][s] # None =>
           \/ \E q \in Processes : prev'[p][s] = prev[q][s]
           \/ \E f \in Inodes : prev'[p][s] = content[f].series[s],
         \A f \in Inodes, s \in Series : content'[f].series[s] # None =>
           \/ \E q \in Processes : content'[f].series[s] = prev[q][s]
           \/ \E g \in Inodes : content'[f].series[s] = content[g].series[s]
  PROVE  RateInv'
<1>1. KeptBehind'
  BY DEF RateInv, KeptBehind, Behind, world
<1>2. NeverOverstated'
  BY DEF RateInv, NeverOverstated
<1>3. QED BY <1>1, <1>2 DEF RateInv

LEMMA RateInvStep == RateInv /\ [Next]_vars => RateInv'
<1> SUFFICES ASSUME RateInv, [Next]_vars PROVE RateInv'
  OBVIOUS
<1> USE DEF RateInv
<1>1. ASSUME NEW h \in Hosts, Reboot(h) PROVE RateInv'
  <2>1. TypeOK'
    BY <1>1, FaultCounts DEF Reboot, TypeOK, disk
  <2>2. \A s \in Series : value'[s] \in Nat /\ value'[s] <= value[s] /\ total'[s] = total[s]
    BY <1>1 DEF Reboot, TypeOK
  <2>3. \A s \in Series, e \in Entries :
          value[s] - e.v <= total[s] - e.total => value'[s] - e.v <= total'[s] - e.total
    BY <2>2 DEF TypeOK, Entries
  <2>4. \A p \in Processes, s \in Series : prev[p][s] # None => prev[p][s] \in Entries
    BY DEF TypeOK, Baselines
  <2>5. \A f \in Inodes, s \in Series :
          content[f].series[s] # None => content[f].series[s] \in Entries
    BY DEF TypeOK, Baselines
  <2>6. KeptBehind'
    BY <1>1, <2>3, <2>4, <2>5 DEF KeptBehind, Behind, Reboot, disk
  <2>7. NeverOverstated'
    BY <1>1 DEF Reboot, NeverOverstated
  <2>8. QED BY <2>1, <2>6, <2>7
<1>2. ASSUME Restart PROVE RateInv'
  <2>1. /\ Ended(Processes) /\ Scraps(Processes) /\ UNCHANGED world
    BY <1>2 DEF Restart
  <2>2. TypeOK'
    BY <1>2, <2>1, EndedKeeps, EndedTypes, FaultCounts DEF Restart, TypeOK, world
  <2>3. QED BY <2>1, <2>2, EndedKeeps
<1>3. ASSUME NEW p \in Processes, Kill(p) PROVE RateInv'
  <2>1. /\ Ended({p}) /\ Scraps({p}) /\ UNCHANGED world
    BY <1>3 DEF Kill
  <2>2. TypeOK'
    BY <1>3, <2>1, EndedKeeps, EndedTypes, FaultCounts DEF Kill, TypeOK, world
  <2>3. QED BY <2>1, <2>2, EndedKeeps
<1>4. ASSUME NEW p \in Processes, Send(p) PROVE RateInv'
  <2>1. /\ Ended({p}) /\ UNCHANGED content /\ UNCHANGED world
    BY <1>4 DEF Send, disk
  <2>2. TypeOK'
    BY <1>4, <2>1, EndedKeeps, EndedTypes DEF Send, TypeOK, world, disk
  <2>3. QED BY <2>1, <2>2, EndedKeeps
<1>5. ASSUME NEW p \in Processes, Start(p) PROVE RateInv'
  <2>1. Loaded \in Baselines
    BY NoEntriesType DEF Loaded, TypeOK
  <2>2. faults' \in 0..MaxFaults /\ overlaps' \in 0..faults'
    BY <1>5, ConstantsOK DEF Start, Fault, TypeOK
  <2>3. TypeOK'
    BY <1>5, <2>1, <2>2, ConstantsOK DEF Start, TypeOK, world, disk
  <2>4. \A q \in Processes, s \in Series : prev'[q][s] # None =>
          prev'[q][s] = prev[q][s] \/ \E f \in Inodes : prev'[q][s] = content[f].series[s]
    BY <1>5 DEF Start, TypeOK, Loaded, NoEntries
  <2>5. UNCHANGED <<world, out, content>>
    BY <1>5 DEF Start, disk
  <2>6. QED BY <2>3, <2>4, <2>5, Moved
<1>6. ASSUME NEW p \in Processes, NEW h \in Hosts, Scrape(p, h) PROVE RateInv'
  BY <1>6, ScrapeKeeps
<1>7. ASSUME NEW p \in Processes, NEW h \in Hosts, Forget(p, h) PROVE RateInv'
  <2>0. [s \in Series |-> IF HostOf[s] = h THEN None ELSE prev[p][s]] \in Baselines
    BY DEF TypeOK, Baselines
  <2>1. TypeOK'
    BY <1>7, FaultCounts, <2>0 DEF Forget, TypeOK, world, disk
  <2>2. \A q \in Processes, s \in Series : prev'[q][s] # None => prev'[q][s] = prev[q][s]
    BY <1>7 DEF Forget, TypeOK
  <2>3. UNCHANGED <<world, out, content>>
    BY <1>7 DEF Forget, disk
  <2>4. QED BY <2>1, <2>2, <2>3, Moved
<1>8. ASSUME NEW p \in Processes, Open(p) PROVE RateInv'
  <2>1. PICK f \in IF tmp = None THEN NewInode ELSE {tmp} :
          /\ tmp' = f
          /\ fd' = [fd EXCEPT ![p] = f]
          /\ content' = [content EXCEPT ![f] = Empty]
    BY <1>8 DEF Open
  <2>2. f \in Inodes
    BY <2>1 DEF NewInode, Unused, TypeOK
  <2>3. TypeOK'
    BY <1>8, <2>1, <2>2, NoEntriesType, ConstantsOK DEF Open, TypeOK, Empty, world
  <2>4. \A g \in Inodes, s \in Series :
          content'[g].series[s] # None => content'[g].series[s] = content[g].series[s]
    BY <2>1 DEF Empty, NoEntries, TypeOK
  <2>5. UNCHANGED <<world, out, prev>>
    BY <1>8 DEF Open
  <2>6. QED BY <2>3, <2>4, <2>5, Moved
<1>9. ASSUME NEW p \in Processes, Write(p) PROVE RateInv'
  <2>1. PICK c \in {Whole(prev[p]), Torn} : content' = [content EXCEPT ![fd[p]] = c]
    BY <1>9 DEF Write
  <2>2. c \in [text : {"empty", "torn", "whole"}, series : Baselines]
    BY <2>1, NoEntriesType DEF Whole, Torn, TypeOK
  <2>3. TypeOK'
    BY <1>9, <2>1, <2>2, ConstantsOK DEF Write, TypeOK, world
  <2>4. \A s \in Series : c.series[s] # None => c.series[s] = prev[p][s]
    BY <2>1 DEF Whole, Torn, NoEntries
  <2>5. \A g \in Inodes, s \in Series : content'[g].series[s] # None =>
          content'[g].series[s] = content[g].series[s] \/ content'[g].series[s] = prev[p][s]
    BY <2>1, <2>4 DEF TypeOK
  <2>6. UNCHANGED <<world, out, prev>>
    BY <1>9 DEF Write
  <2>7. QED BY <2>3, <2>5, <2>6, Moved
<1>10. ASSUME NEW p \in Processes, Replace(p) PROVE RateInv'
  <2>1. \A g \in Inodes : content'[g] = content[g] \/ content'[g] = Empty
    BY <1>10 DEF Replace
  <2>2. content' \in [Inodes -> [text : {"empty", "torn", "whole"}, series : Baselines]]
    BY <1>10, NoEntriesType DEF Replace, Empty, TypeOK
  <2>3. TypeOK'
    BY <1>10, <2>2 DEF Replace, TypeOK, world
  <2>4. \A g \in Inodes, s \in Series :
          content'[g].series[s] # None => content'[g].series[s] = content[g].series[s]
    BY <2>1 DEF Empty, NoEntries
  <2>5. UNCHANGED <<world, out, prev>>
    BY <1>10 DEF Replace
  <2>6. QED BY <2>3, <2>4, <2>5, Moved
<1>11. ASSUME NEW p \in Processes, SaveFails(p) PROVE RateInv'
  <2>1. content' \in [Inodes -> [text : {"empty", "torn", "whole"}, series : Baselines]]
    BY <1>11, NoEntriesType DEF SaveFails, Scraps, Torn, TypeOK
  <2>2. TypeOK'
    BY <1>11, <2>1, FaultCounts DEF SaveFails, TypeOK, world
  <2>3. \A g \in Inodes, s \in Series :
          content'[g].series[s] # None => content'[g].series[s] = content[g].series[s]
    BY <1>11 DEF SaveFails, Scraps, Torn, NoEntries
  <2>4. UNCHANGED <<world, out, prev>>
    BY <1>11 DEF SaveFails
  <2>5. QED BY <2>2, <2>3, <2>4, Moved
<1>12. CASE UNCHANGED vars
  <2>1. UNCHANGED <<world, out, prev, content>> /\ TypeOK'
    BY <1>12 DEF vars, world, disk, TypeOK
  <2>2. QED BY <2>1, Moved
<1>13. QED
  BY <1>1, <1>2, <1>3, <1>4, <1>5, <1>6, <1>7, <1>8, <1>9, <1>10, <1>11, <1>12 DEF Next

(* Types, and that no rate is negative, over no time, or above what its    *)
(* counter counted since the reading it is compared with: whatever         *)
(* reboots, restarts, kills, failed saves and overlaps there are.          *)
THEOREM RateInvariant == Spec => []RateInv
BY InitRateInv, RateInvStep, PTL DEF Spec

(* Type correctness: what is saved or staged is a baseline. *)
THEOREM TypeCorrect == Spec => []TypeOK
<1>1. RateInv => TypeOK
  BY DEF RateInv
<1>2. QED BY <1>1, RateInvariant, PTL

(* No rate counts more than its counter counted between its two readings. *)
THEOREM RatesAreNeverOverstated == Spec => []NeverOverstated
<1>1. RateInv => NeverOverstated
  BY DEF RateInv
<1>2. QED BY <1>1, RateInvariant, PTL

-----------------------------------------------------------------------------
(* While no two collections have overlapped, the temporary file belongs to *)
(* the one that runs, and is never the published one.                      *)
AloneInv ==
  overlaps = 0 =>
    /\ \A p, q \in Running : p = q
    /\ published # None => content[published].text = "whole" /\ published # tmp
    /\ \A p \in Processes : pc[p] = "write" => fd[p] = tmp /\ content[tmp] = Empty
    /\ \A p \in Processes :
         pc[p] = "replace" => tmp # None /\ content[tmp].text = "whole"

LEMMA AloneStep == TypeOK /\ TypeOK' /\ AloneInv /\ [Next]_vars => AloneInv'
<1> SUFFICES ASSUME TypeOK, TypeOK', AloneInv, [Next]_vars, overlaps' = 0 PROVE AloneInv'
  BY DEF AloneInv
<1>0. overlaps = 0
  <2>1. overlaps' = overlaps \/ overlaps' = overlaps + 1
    BY DEF Next, vars, Reboot, Restart, Kill, Start, Scrape, Forget, Open, Write, Replace,
           SaveFails, Send
  <2>2. overlaps \in Nat
    BY DEF TypeOK
  <2>3. QED BY <2>1, <2>2
<1>a. /\ \A p, q \in Processes : pc[p] # "idle" /\ pc[q] # "idle" => p = q
      /\ published # None => content[published].text = "whole" /\ published # tmp
      /\ \A p \in Processes : pc[p] = "write" => fd[p] = tmp /\ content[tmp] = Empty
      /\ \A p \in Processes :
           pc[p] = "replace" => tmp # None /\ content[tmp].text = "whole"
  BY <1>0 DEF AloneInv, Running
<1> DEFINE Goal ==
      /\ \A p, q \in Processes : pc'[p] # "idle" /\ pc'[q] # "idle" => p = q
      /\ published' # None => content'[published'].text = "whole" /\ published' # tmp'
      /\ \A p \in Processes : pc'[p] = "write" => fd'[p] = tmp' /\ content'[tmp'] = Empty
      /\ \A p \in Processes :
           pc'[p] = "replace" => tmp' # None /\ content'[tmp'].text = "whole"
<1> SUFFICES Goal
  BY DEF AloneInv, Running, Empty
<1>1. ASSUME NEW P \in SUBSET Processes, Ended(P), Scraps(P) \/ UNCHANGED content,
             UNCHANGED <<published, tmp>>
      PROVE  Goal
  <2>1. \A p \in Processes : pc'[p] # "idle" => p \notin P /\ pc'[p] = pc[p] /\ fd'[p] = fd[p]
    BY <1>1 DEF Ended, TypeOK
  <2>2. \A p \in Processes : fd[p] # None => fd[p] = tmp
    BY <1>a DEF TypeOK
  <2>3. published # None => content'[published] = content[published]
    BY <1>1, <1>a, <2>2 DEF Scraps, TypeOK
  <2>4. ASSUME NEW p \in Processes, pc'[p] # "idle", tmp # None
        PROVE  content'[tmp] = content[tmp]
    <3>1. \A q \in P : fd[q] = None
      BY <2>1, <2>4, <1>a DEF TypeOK
    <3>2. QED BY <1>1, <3>1, <2>4 DEF Scraps, TypeOK
  <2>5. \A p \in Processes : pc[p] = "write" => tmp # None
    BY <1>a DEF TypeOK
  <2>6. QED BY <1>1, <1>a, <2>1, <2>3, <2>4, <2>5
<1>2. ASSUME NEW p \in Processes, Start(p) PROVE Goal
  <2>1. overlaps \in Nat
    BY DEF TypeOK
  <2>2. Running = {}
    BY <1>2, <1>0, <2>1 DEF Start
  <2>3. \A q \in Processes : pc[q] = "idle"
    BY <2>2 DEF Running
  <2>4. \A q \in Processes : (pc'[q] = "scrape" /\ q = p) \/ pc'[q] = "idle"
    BY <1>2, <2>3 DEF Start, TypeOK
  <2>5. QED BY <1>2, <1>a, <2>4 DEF Start, disk
<1>3. ASSUME NEW p \in Processes, pc[p] # "idle",
             \A q \in Processes : q # p => pc'[q] = pc[q],
             pc'[p] \in {"scrape", "open"}, UNCHANGED disk
      PROVE  Goal
  BY <1>3, <1>a DEF disk
<1>4. ASSUME NEW p \in Processes, Open(p) PROVE Goal
  <2>1. PICK f \in IF tmp = None THEN NewInode ELSE {tmp} :
          /\ tmp' = f
          /\ fd' = [fd EXCEPT ![p] = f]
          /\ content' = [content EXCEPT ![f] = Empty]
    BY <1>4 DEF Open
  <2>2. f \in Inodes /\ f # published
    BY <2>1, <1>a DEF NewInode, Unused, TypeOK
  <2>3. \A q \in Processes : pc'[q] = (IF q = p THEN "write" ELSE pc[q])
    BY <1>4 DEF Open, TypeOK
  <2>4. \A q \in Processes : q # p => pc[q] = "idle"
    BY <1>4, <1>a DEF Open
  <2>5. published' = published /\ fd'[p] = f /\ content'[f] = Empty
    BY <1>4, <2>1, <2>2 DEF Open, TypeOK
  <2>6. published # None => content'[published] = content[published]
    BY <2>1, <2>2 DEF TypeOK
  <2>7. QED BY <1>a, <2>1, <2>2, <2>3, <2>4, <2>5, <2>6
<1>5. ASSUME NEW p \in Processes, Write(p) PROVE Goal
  <2>1. fd[p] = tmp /\ content[fd[p]] = Empty /\ tmp # None /\ tmp \in Inodes
    BY <1>5, <1>a DEF Write, TypeOK
  <2>2. content' = [content EXCEPT ![tmp] = Whole(prev[p])]
    BY <1>5, <2>1 DEF Write
  <2>3. content'[tmp].text = "whole"
    BY <2>1, <2>2 DEF Whole, TypeOK
  <2>4. published # None => content'[published] = content[published]
    BY <2>2, <1>a DEF TypeOK
  <2>5. \A q \in Processes : pc'[q] = (IF q = p THEN "replace" ELSE pc[q])
    BY <1>5 DEF Write, TypeOK
  <2>6. \A q \in Processes : q # p => pc[q] = "idle"
    BY <1>5, <1>a DEF Write
  <2>7. published' = published /\ tmp' = tmp
    BY <1>5 DEF Write
  <2>8. QED BY <1>a, <2>1, <2>3, <2>4, <2>5, <2>6, <2>7
<1>6. ASSUME NEW p \in Processes, Replace(p) PROVE Goal
  <2>1. tmp # None /\ content[tmp].text = "whole" /\ published' = tmp /\ tmp' = None
    BY <1>6, <1>a DEF Replace
  <2>2. tmp \in Inodes
    BY <2>1 DEF TypeOK
  <2>3. content'[tmp] = content[tmp]
    BY <1>6, <2>2 DEF Replace
  <2>4. \A q \in Processes : pc'[q] = (IF q = p THEN "scrape" ELSE pc[q])
    BY <1>6 DEF Replace, TypeOK
  <2>5. \A q \in Processes : q # p => pc[q] = "idle"
    BY <1>6, <1>a DEF Replace
  <2>6. QED BY <2>1, <2>3, <2>4, <2>5
<1>7. ASSUME NEW p \in Processes, SaveFails(p) PROVE Goal
  <2>1. \A q \in Processes : pc'[q] = (IF q = p THEN "scrape" ELSE pc[q])
    BY <1>7 DEF SaveFails, TypeOK
  <2>2. \A q \in Processes : q # p => pc[q] = "idle"
    BY <1>7, <1>a DEF SaveFails
  <2>3. fd[p] # None => fd[p] = tmp
    BY <1>a DEF TypeOK
  <2>4. published # None => content'[published] = content[published]
    BY <1>7, <1>a, <2>3 DEF SaveFails, Scraps, TypeOK
  <2>5. published' = published /\ tmp' = tmp
    BY <1>7 DEF SaveFails
  <2>6. QED BY <1>a, <2>1, <2>2, <2>4, <2>5
<1>8. CASE UNCHANGED vars
  BY <1>8, <1>a DEF vars, disk
<1>9. ASSUME NEW h \in Hosts, Reboot(h) PROVE Goal
  BY <1>9, <1>a DEF Reboot, disk
<1>10. ASSUME Restart PROVE Goal
  BY <1>10, <1>1 DEF Restart
<1>11. ASSUME NEW p \in Processes, Kill(p) PROVE Goal
  BY <1>11, <1>1 DEF Kill
<1>12. ASSUME NEW p \in Processes, Send(p) PROVE Goal
  BY <1>12, <1>1 DEF Send, disk
<1>13. ASSUME NEW p \in Processes, NEW h \in Hosts, Scrape(p, h) \/ Forget(p, h) PROVE Goal
  BY <1>13, <1>3 DEF Scrape, Forget, TypeOK
<1>14. QED
  BY <1>2, <1>4, <1>5, <1>6, <1>7, <1>8, <1>9, <1>10, <1>11, <1>12, <1>13 DEF Next

(* While no two collections overlap, kills, failed saves and restarts      *)
(* never publish a baseline that cannot be read.                           *)
THEOREM OnlyOverlapsTear == Spec => []OnlyOverlapTears
<1>1. Init => AloneInv
  BY DEF Init, AloneInv, Running, Empty
<1>2. RateInv => TypeOK
  BY DEF RateInv
<1>3. AloneInv => OnlyOverlapTears
  BY DEF AloneInv, OnlyOverlapTears
<1>4. QED BY <1>1, <1>2, <1>3, AloneStep, RateInvariant, PTL DEF Spec

-----------------------------------------------------------------------------
(* What a result can cost.  A baseline is good for h if its readings of h   *)
(* were taken in this boot of the collector and of the host.               *)
GoodAt(base, h, v, counted, boot, time) ==
  \A s \in OfHost(h) :
    /\ base[s] # None
    /\ base[s].epoch = boot
    /\ base[s].t <= time
    /\ base[s].total <= counted[s]
    /\ v[s] - base[s].v = counted[s] - base[s].total

GoodFor(base, h) == GoodAt(base, h, value, total, epoch, clock)

(* The result of p will be spoilt for h, if nothing else goes wrong. *)
Spoils(p, h) ==
  /\ h \in Scope[p]
  /\ IF h \in left[p] THEN ~GoodFor(prev[p], h) ELSE \E s \in OfHost(h) : ~Right(out[p][s])

(* p runs alone, and no other has left anything in its temporary file. *)
Clean(p) ==
  /\ Running = {p}
  /\ pc[p] = "write" => fd[p] = tmp /\ content[tmp] = Empty
  /\ pc[p] = "replace" => tmp # None /\ content[tmp] = Whole(prev[p])

(* Once everything has ended the published baseline is good for h. *)
Leaves(h) ==
  \/ Running = {} /\ GoodFor(Loaded, h)
  \/ \E p \in Running :
       /\ Clean(p)
       /\ h \notin left[p] =>
            /\ GoodFor(prev[p], h)
            /\ pc[p] = "scrape" => GoodFor(Loaded, h)

After(h) == IF Leaves(h) THEN 0 ELSE 1
Spared(h) == IF \E p \in Running : ~Spoils(p, h) THEN 1 ELSE 0

(* Every running collection has a spoilt result in store, except one at    *)
(* most, that began when none ran; so has the next, unless it finds a good *)
(* baseline.                                                               *)
Afforded(h) ==
  sent[h] + Cardinality(Running) + After(h) <= 1 + faults + overlaps + Spared(h)

Budget ==
  /\ IsFiniteSet(Running)
  /\ \A p \in Processes : left[p] \subseteq Scope[p]
  /\ published # None => published # tmp
  /\ \A h \in Hosts : Afforded(h)

LEMMA BudgetCounts ==
  ASSUME TypeOK, IsFiniteSet(Running), NEW h \in Hosts
  PROVE  /\ sent[h] \in Nat /\ faults \in Nat /\ overlaps \in Nat
         /\ Cardinality(Running) \in Nat /\ After(h) \in {0, 1} /\ Spared(h) \in {0, 1}
         /\ Spared(h) <= Cardinality(Running)
<1>1. sent[h] \in Nat /\ faults \in Nat /\ overlaps \in Nat
  BY DEF TypeOK
<1>2. Cardinality(Running) \in Nat /\ (Running # {} => Cardinality(Running) # 0)
  BY FS_CardinalityType, FS_EmptySet
<1>3. After(h) \in {0, 1} /\ Spared(h) \in {0, 1}
  BY DEF After, Spared
<1>4. Spared(h) = 1 => Running # {}
  BY DEF Spared
<1>5. QED BY <1>1, <1>2, <1>3, <1>4

(* Nothing that h has counted is forgotten. *)
Onward(h) ==
  /\ epoch' = epoch
  /\ clock' \in Nat /\ clock <= clock'
  /\ \A s \in OfHost(h) : /\ value'[s] \in Nat /\ total'[s] \in Nat /\ total[s] <= total'[s]
                         /\ value'[s] - value[s] = total'[s] - total[s]

LEMMA GoodStays ==
  ASSUME TypeOK, NEW h \in Hosts, Onward(h), NEW base \in Baselines, GoodFor(base, h)
  PROVE  GoodAt(base, h, value', total', epoch', clock')
<1> SUFFICES ASSUME NEW s \in OfHost(h)
             PROVE  /\ base[s] # None /\ base[s].epoch = epoch'
                    /\ base[s].t <= clock' /\ base[s].total <= total'[s]
                    /\ value'[s] - base[s].v = total'[s] - base[s].total
  BY DEF GoodAt
<1>1. s \in Series /\ base[s] # None
  BY DEF OfHost, GoodFor, GoodAt
<1>2. base[s] \in Entries
  BY <1>1 DEF Baselines
<1>3. /\ base[s].t \in Nat /\ base[s].v \in Nat /\ base[s].total \in Nat
      /\ value[s] \in Nat /\ total[s] \in Nat /\ clock \in Nat
  BY <1>1, <1>2 DEF TypeOK, Entries
<1>4. /\ base[s].epoch = epoch /\ base[s].t <= clock /\ base[s].total <= total[s]
      /\ value[s] - base[s].v = total[s] - base[s].total
  BY DEF GoodFor, GoodAt
<1>5. /\ epoch' = epoch /\ clock' \in Nat /\ clock <= clock'
      /\ value'[s] \in Nat /\ total'[s] \in Nat /\ total[s] <= total'[s]
      /\ value'[s] - value[s] = total'[s] - total[s]
  BY DEF Onward
<1>6. QED BY <1>1, <1>3, <1>4, <1>5

LEMMA LoadedType == TypeOK => Loaded \in Baselines
BY NoEntriesType DEF TypeOK, Loaded

(* Only the entries of h matter for h. *)
LEMMA GoodOfHost ==
  ASSUME NEW h, NEW base, NEW other, NEW v, NEW counted, NEW boot, NEW time,
         \A s \in OfHost(h) : other[s] = base[s], GoodAt(base, h, v, counted, boot, time)
  PROVE  GoodAt(other, h, v, counted, boot, time)
BY DEF GoodAt

(* A step that neither starts nor ends a collection: without a fault it    *)
(* keeps what h can expect, with one it keeps half of that.                *)
SparedKept(h) == \A p \in Running : ~Spoils(p, h) => ~Spoils(p, h)'
LeavesKept(h) == Leaves(h) => Leaves(h)'

LEMMA StillAfforded ==
  ASSUME TypeOK, Budget, NEW h \in Hosts, Afforded(h), Running' = Running,
         sent'[h] = sent[h], overlaps' = overlaps,
         \/ faults' = faults /\ SparedKept(h) /\ LeavesKept(h)
         \/ faults' = faults + 1 /\ (SparedKept(h) \/ LeavesKept(h))
  PROVE  Afforded(h)'
<1>1. /\ sent[h] \in Nat /\ faults \in Nat /\ overlaps \in Nat
      /\ Cardinality(Running) \in Nat /\ After(h) \in {0, 1} /\ Spared(h) \in {0, 1}
  BY BudgetCounts DEF Budget
<1>2. After(h)' \in {0, 1} /\ Spared(h)' \in {0, 1}
  BY DEF After, Spared
<1>3. SparedKept(h) => Spared(h) <= Spared(h)'
  BY DEF SparedKept, Spared
<1>4. LeavesKept(h) => After(h)' <= After(h)
  BY DEF LeavesKept, After
<1>5. Cardinality(Running)' = Cardinality(Running)
  OBVIOUS
<1>6. sent[h] + Cardinality(Running) + After(h) <= 1 + faults + overlaps + Spared(h)
  BY DEF Afforded
<1> DEFINE n == Cardinality(Running)
<1>7. sent'[h] + n + After(h)' <= 1 + faults' + overlaps' + Spared(h)'
  <2> HIDE DEF n
  <2>1. n \in Nat /\ sent[h] + n + After(h) <= 1 + faults + overlaps + Spared(h)
    BY <1>1, <1>6 DEF n
  <2>2. QED BY <1>1, <1>2, <1>3, <1>4, <2>1
<1>8. QED BY <1>5, <1>7 DEF Afforded

(* What a process that is not at it expects of h. *)
LEMMA OthersSpared ==
  ASSUME TypeOK, NEW h \in Hosts, Onward(h), NEW q \in Processes,
         left'[q] = left[q] \/ (h \in left'[q] <=> h \in left[q]),
         \A s \in OfHost(h) : prev'[q][s] = prev[q][s] /\ out'[q][s] = out[q][s],
         ~Spoils(q, h)
  PROVE  ~Spoils(q, h)'
<1>1. h \in left'[q] <=> h \in left[q]
  OBVIOUS
<1>2. CASE h \notin left[q]
  BY <1>1, <1>2 DEF Spoils, OfHost
<1>3. CASE h \in left[q] /\ h \in Scope[q]
  <2>1. GoodFor(prev[q], h) /\ prev[q] \in Baselines
    BY <1>3 DEF Spoils, TypeOK
  <2>2. GoodAt(prev[q], h, value', total', epoch', clock')
    BY <2>1, GoodStays
  <2>3. GoodFor(prev[q], h)'
    BY <2>2, GoodOfHost DEF GoodFor
  <2>4. QED BY <1>1, <1>3, <2>3 DEF Spoils
<1>4. CASE h \notin Scope[q]
  BY <1>4 DEF Spoils
<1>5. QED BY <1>2, <1>3, <1>4

(* A reading is a good baseline, and a good baseline gives the right rates. *)
LEMMA ScrapeOnward ==
  ASSUME TypeOK, NEW p \in Processes, NEW g \in Hosts, Scrape(p, g), NEW h \in Hosts
  PROVE  Onward(h) /\ clock' = clock + 1
<1>1. PICK grown \in [Series -> 0..1] : Counting(g, grown)
  BY DEF Scrape
<1>2. /\ value' = [s \in Series |-> value[s] + grown[s]]
      /\ total' = [s \in Series |-> total[s] + grown[s]]
  BY <1>1 DEF Counting
<1>3. \A s \in Series : value[s] \in Nat /\ total[s] \in Nat /\ grown[s] \in 0..1
  BY DEF TypeOK
<1>4. clock \in Nat /\ clock' = clock + 1 /\ epoch' = epoch
  BY DEF Scrape, TypeOK
<1>5. QED BY <1>2, <1>3, <1>4 DEF Onward, OfHost

LEMMA ReadingIsGood ==
  ASSUME TypeOK, NEW p \in Processes, NEW h \in Hosts, Scrape(p, h)
  PROVE  GoodFor(prev[p], h)'
<1>1. Onward(h)
  BY ScrapeOnward
<1>2. prev'[p] = Staged(p, h) /\ epoch' = epoch
  BY DEF Scrape, TypeOK
<1>3. ASSUME NEW s \in OfHost(h)
      PROVE  prev'[p][s] = [t |-> clock', v |-> value'[s], epoch |-> epoch, total |-> total'[s]]
  BY <1>2 DEF Staged, Reading, OfHost
<1>4. ASSUME NEW s \in OfHost(h)
      PROVE  /\ prev'[p][s] # None /\ prev'[p][s].epoch = epoch'
             /\ prev'[p][s].t <= clock' /\ prev'[p][s].total <= total'[s]
             /\ value'[s] - prev'[p][s].v = total'[s] - prev'[p][s].total
  <2>1. clock' \in Nat /\ value'[s] \in Nat /\ total'[s] \in Nat /\ epoch \in Nat
    BY <1>1 DEF Onward, TypeOK
  <2>2. prev'[p][s] = [t |-> clock', v |-> value'[s], epoch |-> epoch, total |-> total'[s]]
    BY <1>3
  <2>3. [t |-> clock', v |-> value'[s], epoch |-> epoch, total |-> total'[s]] \in Entries
    BY <2>1 DEF Entries
  <2>4. prev'[p][s] # None
    BY <2>2, <2>3, ConstantsOK
  <2>5. /\ prev'[p][s].epoch = epoch /\ prev'[p][s].t = clock'
        /\ prev'[p][s].total = total'[s] /\ prev'[p][s].v = value'[s]
    BY <2>2
  <2>6. QED BY <1>2, <2>1, <2>4, <2>5
<1>5. QED BY <1>4 DEF GoodFor, GoodAt, OfHost

LEMMA GoodGivesRight ==
  ASSUME TypeOK, NEW p \in Processes, NEW h \in Hosts, Scrape(p, h), GoodFor(prev[p], h),
         NEW s \in OfHost(h)
  PROVE  Right(out'[p][s])
<1> DEFINE e(x) == prev[p][x]
<1>1. Onward(h) /\ clock' = clock + 1
  BY ScrapeOnward
<1>2. ASSUME NEW x \in OfHost(h)
      PROVE  /\ e(x) # None /\ e(x) \in Entries
             /\ Elapsed(p, x) > 0 /\ Growth(p, x) \in Nat
             /\ Growth(p, x) = total'[x] - e(x).total /\ e(x).epoch = epoch
  <2>1. /\ e(x) # None /\ e(x).epoch = epoch /\ e(x).t <= clock /\ e(x).total <= total[x]
        /\ value[x] - e(x).v = total[x] - e(x).total
    BY DEF GoodFor, GoodAt
  <2>2. x \in Series /\ e(x) \in Entries
    BY <2>1 DEF OfHost, TypeOK, Baselines
  <2>3. /\ e(x).t \in Nat /\ e(x).v \in Nat /\ e(x).total \in Nat
        /\ value[x] \in Nat /\ total[x] \in Nat /\ clock \in Nat
    BY <2>2 DEF Entries, TypeOK
  <2>4. /\ value'[x] \in Nat /\ total'[x] \in Nat /\ total[x] <= total'[x]
        /\ value'[x] - value[x] = total'[x] - total[x]
    BY <1>1 DEF Onward
  <2>5. Elapsed(p, x) = clock' - e(x).t /\ Growth(p, x) = value'[x] - e(x).v
    BY DEF Elapsed, Growth, Reading
  <2>6. Elapsed(p, x) > 0
    BY <1>1, <2>1, <2>3, <2>5
  <2>7. Growth(p, x) = total'[x] - e(x).total /\ Growth(p, x) \in Nat
    BY <2>1, <2>3, <2>4, <2>5
  <2>8. QED BY <2>1, <2>2, <2>6, <2>7
<1>3. Comparable(p, h) = OfHost(h) /\ Resets(p, h) = {}
  BY <1>2 DEF Comparable, Resets
<1>4. ~Rebooted(p, h)
  BY <1>3, FS_EmptySet DEF Rebooted
<1>5. s \in Rated(p, h) /\ s \in Series
  BY <1>3, <1>4 DEF Rated, OfHost
<1>6. out'[p][s] = [dv |-> Growth(p, s), dt |-> Elapsed(p, s), base |-> prev[p][s], now |-> Reading(s)]
  BY <1>5 DEF Scrape, TypeOK, Rates
<1>7. Reading(s).total = total'[s] /\ Reading(s).epoch = epoch /\ Reading(s) \in Entries
  BY <1>1, <1>5 DEF Reading, Entries, Onward, TypeOK
<1>8. out'[p][s] \in Ratings
  <2>1. Elapsed(p, s) \in Int
    BY <1>1, <1>2 DEF Elapsed, Reading, Entries, Onward
  <2>2. QED BY <1>2, <1>6, <1>7, <2>1 DEF Ratings
<1>9. QED BY <1>2, <1>6, <1>7, <1>8, ConstantsOK DEF Right

LEMMA ScrapeAffords ==
  ASSUME TypeOK, Budget, NEW p \in Processes, NEW g \in Hosts, Scrape(p, g)
  PROVE  Budget'
<1>1. /\ pc[p] = "scrape" /\ g \in left[p] /\ g \in Scope[p]
      /\ left' = [left EXCEPT ![p] = @ \ {g}]
      /\ pc' = [pc EXCEPT ![p] = "open"]
      /\ UNCHANGED <<epoch, disk, fd, sent, faults, overlaps>>
  BY DEF Scrape, Budget
<1>2. Running' = Running /\ p \in Running
  BY <1>1 DEF Running, TypeOK
<1>3. ASSUME NEW h \in Hosts, NEW q \in Processes, q # p \/ h # g
      PROVE  /\ \A s \in OfHost(h) : prev'[q][s] = prev[q][s] /\ out'[q][s] = out[q][s]
             /\ h \in left'[q] <=> h \in left[q]
  <2>1. CASE q # p
    BY <1>1, <2>1 DEF Scrape, TypeOK
  <2>2. CASE q = p /\ h # g
    BY <1>1, <2>2
    DEF Scrape, TypeOK, Staged, Rates, Rated, Comparable, OfHost
  <2>3. QED BY <1>3, <2>1, <2>2
<1>4. ASSUME NEW h \in Hosts PROVE SparedKept(h)
  <2> SUFFICES ASSUME NEW q \in Running, ~Spoils(q, h) PROVE ~Spoils(q, h)'
    BY DEF SparedKept
  <2>0. q \in Processes
    BY DEF Running
  <2>1. CASE q # p \/ h # g
    BY <1>3, <2>0, <2>1, ScrapeOnward, OthersSpared
  <2>2. CASE q = p /\ h = g
    <3>1. GoodFor(prev[p], h)
      BY <1>1, <2>2 DEF Spoils
    <3>2. h \notin left'[p]
      BY <1>1, <2>2 DEF TypeOK
    <3>3. \A s \in OfHost(h) : Right(out'[p][s])
      BY <2>2, <3>1, GoodGivesRight
    <3>4. QED BY <2>2, <3>2, <3>3 DEF Spoils, OfHost
  <2>3. QED BY <2>1, <2>2
<1>5. ASSUME NEW h \in Hosts PROVE LeavesKept(h)
  <2> SUFFICES ASSUME Leaves(h) PROVE Leaves(h)'
    BY DEF LeavesKept
  <2>1. Clean(p) /\ (h \notin left[p] => GoodFor(prev[p], h))
    BY <1>2 DEF Leaves, Clean
  <2>2. pc'[p] = "open"
    BY <1>1 DEF TypeOK
  <2>3. Clean(p)'
    BY <1>2, <2>1, <2>2 DEF Clean
  <2>4. ASSUME h \notin left'[p] PROVE GoodFor(prev[p], h)'
    <3>1. CASE h = g
      BY <3>1, ReadingIsGood
    <3>2. CASE h # g
      <4>1. GoodFor(prev[p], h) /\ prev[p] \in Baselines
        BY <1>3, <2>1, <2>4, <3>2 DEF TypeOK
      <4>2. GoodAt(prev[p], h, value', total', epoch', clock')
        BY <4>1, ScrapeOnward, GoodStays
      <4>3. QED BY <1>3, <3>2, <4>2, GoodOfHost DEF GoodFor
    <3>3. QED BY <3>1, <3>2
  <2>5. QED BY <1>2, <2>2, <2>3, <2>4 DEF Leaves
<1>6. ASSUME NEW h \in Hosts PROVE Afforded(h)'
  BY <1>1, <1>2, <1>4, <1>5, StillAfforded DEF Budget
<1>7. \A q \in Processes : left'[q] \subseteq Scope[q]
  BY <1>1 DEF Budget, TypeOK
<1>8. QED BY <1>1, <1>2, <1>6, <1>7 DEF Budget, disk

-----------------------------------------------------------------------------
(* Saving goes on: what every host can expect stays. *)
LEMMA SavingAffords ==
  ASSUME TypeOK, Budget, NEW p \in Processes,
         pc[p] # "idle", \A q \in Processes : q # p => pc'[q] = pc[q], pc'[p] # "idle",
         UNCHANGED <<world, clock, epoch, prev, left, out, sent, overlaps>>,
         published' # None => published' # tmp',
         \/ faults' = faults + 1
         \/ faults' = faults /\ \A h \in Hosts : LeavesKept(h)
  PROVE  Budget'
<1>1. Running' = Running
  BY DEF Running
<1>2. ASSUME NEW h \in Hosts PROVE SparedKept(h)
  BY DEF SparedKept, Spoils, GoodFor, world
<1>3. ASSUME NEW h \in Hosts PROVE Afforded(h)'
  BY <1>1, <1>2, StillAfforded DEF Budget
<1>4. QED BY <1>1, <1>3 DEF Budget

LEMMA OpenAffords ==
  ASSUME TypeOK, Budget, NEW p \in Processes, Open(p)
  PROVE  Budget'
<1>1. PICK f \in IF tmp = None THEN NewInode ELSE {tmp} :
        /\ tmp' = f
        /\ fd' = [fd EXCEPT ![p] = f]
        /\ content' = [content EXCEPT ![f] = Empty]
  BY DEF Open
<1>2. f \in Inodes /\ (published # None => f # published)
  BY <1>1 DEF NewInode, Unused, TypeOK, Budget
<1>3. /\ pc[p] = "open" /\ pc' = [pc EXCEPT ![p] = "write"]
      /\ UNCHANGED <<world, clock, epoch, published, prev, left, out, sent, faults, overlaps>>
  BY DEF Open
<1>4. ASSUME NEW h \in Hosts PROVE LeavesKept(h)
  <2> SUFFICES ASSUME Leaves(h) PROVE Leaves(h)'
    BY DEF LeavesKept
  <2>1. Clean(p) /\ (h \notin left[p] => GoodFor(prev[p], h)) /\ Running = {p}
    BY <1>3 DEF Leaves, Clean, Running
  <2>2. pc'[p] = "write" /\ fd'[p] = tmp' /\ content'[tmp'] = Empty
    BY <1>1, <1>2, <1>3 DEF TypeOK
  <2>3. Running' = {p}
    BY <1>3, <2>1, <2>2 DEF Running, TypeOK
  <2>4. Clean(p)' /\ p \in Running'
    BY <2>2, <2>3 DEF Clean, Empty, NoEntries
  <2>5. QED BY <1>3, <2>1, <2>2, <2>4 DEF Leaves, GoodFor, world
<1>5. QED BY <1>1, <1>2, <1>3, <1>4, SavingAffords DEF TypeOK

LEMMA WriteAffords ==
  ASSUME TypeOK, Budget, NEW p \in Processes, Write(p)
  PROVE  Budget'
<1>1. /\ pc[p] = "write" /\ pc' = [pc EXCEPT ![p] = "replace"]
      /\ UNCHANGED <<world, clock, epoch, published, tmp, prev, left, out, sent, faults, overlaps>>
  BY DEF Write
<1>2. ASSUME NEW h \in Hosts PROVE LeavesKept(h)
  <2> SUFFICES ASSUME Leaves(h) PROVE Leaves(h)'
    BY DEF LeavesKept
  <2>1. Clean(p) /\ (h \notin left[p] => GoodFor(prev[p], h)) /\ Running = {p}
    BY <1>1 DEF Leaves, Clean, Running
  <2>2. fd[p] = tmp /\ tmp \in Inodes /\ tmp # None /\ content[fd[p]] = Empty
    BY <1>1, <2>1 DEF Clean, TypeOK
  <2>3. content'[tmp] = Whole(prev[p])
    BY <2>2 DEF Write, TypeOK
  <2>4. pc'[p] = "replace" /\ Running' = {p}
    BY <1>1, <2>1 DEF Running, TypeOK
  <2>5. Clean(p)' /\ p \in Running'
    BY <1>1, <2>2, <2>3, <2>4 DEF Clean, Whole
  <2>6. QED BY <1>1, <2>1, <2>4, <2>5 DEF Leaves, GoodFor, world
<1>3. QED BY <1>1, <1>2, SavingAffords DEF TypeOK, Budget

LEMMA ReplaceAffords ==
  ASSUME TypeOK, Budget, NEW p \in Processes, Replace(p)
  PROVE  Budget'
<1>1. /\ pc[p] = "replace" /\ pc' = [pc EXCEPT ![p] = "scrape"] /\ tmp' = None
      /\ UNCHANGED <<world, clock, epoch, prev, left, fd, out, sent, faults, overlaps>>
  BY DEF Replace
<1>2. ASSUME NEW h \in Hosts PROVE LeavesKept(h)
  <2> SUFFICES ASSUME Leaves(h) PROVE Leaves(h)'
    BY DEF LeavesKept
  <2>1. Clean(p) /\ (h \notin left[p] => GoodFor(prev[p], h)) /\ Running = {p}
    BY <1>1 DEF Leaves, Clean, Running
  <2>2. tmp # None /\ tmp \in Inodes /\ content[tmp] = Whole(prev[p])
    BY <1>1, <2>1 DEF Clean, TypeOK
  <2>3. published' = tmp /\ content'[tmp] = Whole(prev[p])
    BY <2>2 DEF Replace
  <2>4. Loaded' = prev[p]
    BY <2>2, <2>3 DEF Loaded, Whole
  <2>5. pc'[p] = "scrape" /\ Running' = {p}
    BY <1>1, <2>1 DEF Running, TypeOK
  <2>6. Clean(p)' /\ p \in Running'
    BY <2>5 DEF Clean
  <2>7. h \notin left[p] => GoodFor(prev[p], h)' /\ GoodFor(Loaded, h)'
    BY <1>1, <2>1, <2>4 DEF GoodFor, world
  <2>8. QED BY <1>1, <2>6, <2>7 DEF Leaves
<1>3. QED BY <1>1, <1>2, SavingAffords DEF TypeOK

LEMMA SaveFailsAffords ==
  ASSUME TypeOK, Budget, NEW p \in Processes, SaveFails(p)
  PROVE  Budget'
<1>1. /\ pc[p] # "idle" /\ pc' = [pc EXCEPT ![p] = "scrape"] /\ faults' = faults + 1
      /\ UNCHANGED <<world, clock, epoch, published, tmp, prev, left, out, sent, overlaps>>
  BY DEF SaveFails, Fault
<1>2. QED BY <1>1, SavingAffords DEF TypeOK, Budget

(* forget: only a host that the process does not scrape. *)
LEMMA ForgetAffords ==
  ASSUME TypeOK, Budget, NEW p \in Processes, NEW g \in Hosts, Forget(p, g)
  PROVE  Budget'
<1>1. /\ pc[p] = "scrape" /\ g \notin Scope[p] /\ faults' = faults + 1
      /\ prev' = [prev EXCEPT ![p] =
                    [s \in Series |-> IF HostOf[s] = g THEN None ELSE prev[p][s]]]
      /\ pc' = [pc EXCEPT ![p] = "open"]
      /\ UNCHANGED <<world, clock, epoch, disk, left, fd, out, sent, overlaps>>
  BY DEF Forget, Fault
<1>2. Running' = Running
  BY <1>1 DEF Running, TypeOK
<1>3. ASSUME NEW h \in Hosts PROVE SparedKept(h)
  <2> SUFFICES ASSUME NEW q \in Running, ~Spoils(q, h) PROVE ~Spoils(q, h)'
    BY DEF SparedKept
  <2>0. q \in Processes
    BY DEF Running
  <2>1. CASE q # p
    BY <1>1, <2>0, <2>1 DEF Spoils, GoodFor, world, TypeOK
  <2>2. CASE q = p /\ h = g
    BY <1>1, <2>2 DEF Spoils
  <2>3. CASE q = p /\ h # g
    <3>1. \A s \in OfHost(h) : prev'[p][s] = prev[p][s]
      BY <1>1, <2>3 DEF TypeOK, OfHost
    <3>2. GoodFor(prev[p], h) => GoodFor(prev[p], h)'
      BY <1>1, <3>1 DEF GoodFor, GoodAt, world
    <3>3. QED BY <1>1, <2>3, <3>2 DEF Spoils
  <2>4. QED BY <2>1, <2>2, <2>3
<1>4. ASSUME NEW h \in Hosts PROVE Afforded(h)'
  BY <1>1, <1>2, <1>3, StillAfforded DEF Budget
<1>5. QED BY <1>1, <1>2, <1>4 DEF Budget, disk

(* A reboot spoils what is to be read yet, or what has been read. *)
LEMMA RebootAffords ==
  ASSUME TypeOK, Budget, NEW g \in Hosts, Reboot(g)
  PROVE  Budget'
<1>1. /\ faults' = faults + 1
      /\ value' = [s \in Series |-> IF HostOf[s] = g THEN 0 ELSE value[s]]
      /\ UNCHANGED <<total, clock, epoch, disk, pc, prev, left, fd, out, sent, overlaps>>
  BY DEF Reboot, Fault
<1>2. Running' = Running
  BY <1>1 DEF Running
<1>3. ASSUME NEW h \in Hosts, h # g PROVE SparedKept(h)
  <2>1. Onward(h)
    BY <1>1, <1>3 DEF Onward, OfHost, TypeOK
  <2>2. ASSUME NEW q \in Running, ~Spoils(q, h) PROVE ~Spoils(q, h)'
    BY <1>1, <2>1, <2>2, OthersSpared DEF Running
  <2>3. QED BY <2>2 DEF SparedKept
<1>4. SparedKept(g) \/ LeavesKept(g)
  <2>1. CASE ~Leaves(g)
    BY <2>1 DEF LeavesKept
  <2>2. CASE Running = {}
    BY <2>2 DEF SparedKept
  <2>3. ASSUME NEW p \in Running, Clean(p), g \in left[p] PROVE LeavesKept(g)
    <3>1. Clean(p)' /\ p \in Running'
      BY <1>1, <1>2, <2>3 DEF Clean, disk, Empty, Whole, NoEntries
    <3>2. QED BY <1>1, <2>3, <3>1 DEF LeavesKept, Leaves
  <2>4. ASSUME NEW p \in Running, Clean(p), g \notin left[p] PROVE SparedKept(g)
    <3>1. Running = {p}
      BY <2>4 DEF Clean
    <3>2. Spoils(p, g)' <=> Spoils(p, g)
      BY <1>1, <2>4 DEF Spoils
    <3>3. QED BY <3>1, <3>2 DEF SparedKept
  <2>5. QED BY <2>1, <2>2, <2>3, <2>4 DEF Leaves
<1>5. ASSUME NEW h \in Hosts PROVE Afforded(h)'
  BY <1>1, <1>2, <1>3, <1>4, StillAfforded DEF Budget
<1>6. QED BY <1>1, <1>2, <1>5 DEF Budget, disk

(* A collection that begins alone takes on what the next result can cost;  *)
(* one that overlaps brings two of its own.                                *)
LEMMA StartAffords ==
  ASSUME TypeOK, Budget, NEW p \in Processes, Start(p)
  PROVE  Budget'
<1>1. /\ pc[p] = "idle" /\ pc' = [pc EXCEPT ![p] = "scrape"]
      /\ prev' = [prev EXCEPT ![p] = Loaded] /\ left' = [left EXCEPT ![p] = Scope[p]]
      /\ UNCHANGED <<world, clock, epoch, published, tmp, content, fd, out, sent>>
      /\ IF Running = {} THEN faults' = faults /\ overlaps' = overlaps
                        ELSE faults' = faults + 1 /\ overlaps' = overlaps + 1
  BY DEF Start, Fault, disk
<1>2. Running' = Running \cup {p} /\ p \notin Running
  BY <1>1 DEF Running, TypeOK
<1>3. IsFiniteSet(Running') /\ Cardinality(Running') = Cardinality(Running) + 1
  BY <1>2, FS_AddElement DEF Budget
<1>4. ASSUME NEW h \in Hosts PROVE Afforded(h)'
  <2> DEFINE n == Cardinality(Running)
  <2>1. /\ sent[h] \in Nat /\ faults \in Nat /\ overlaps \in Nat /\ n \in Nat
        /\ After(h) \in {0, 1} /\ Spared(h) \in {0, 1}
        /\ sent[h] + n + After(h) <= 1 + faults + overlaps + Spared(h)
    BY BudgetCounts DEF Budget, Afforded
  <2>2. After(h)' \in {0, 1} /\ Spared(h)' \in {0, 1}
    BY DEF After, Spared
  <2>3. sent'[h] = sent[h] /\ Cardinality(Running') = n + 1
    BY <1>1, <1>3
  <2>4. CASE Running # {}
    <3>1. Spared(h) <= Spared(h)'
      <4>1. ASSUME NEW q \in Running, ~Spoils(q, h) PROVE q \in Running' /\ ~Spoils(q, h)'
        BY <1>1, <1>2, <4>1 DEF Spoils, GoodFor, world, TypeOK, Running
      <4>2. QED BY <4>1 DEF Spared
    <3>2. faults' = faults + 1 /\ overlaps' = overlaps + 1
      BY <1>1, <2>4
    <3>3. sent'[h] + Cardinality(Running') + After(h)' <= 1 + faults' + overlaps' + Spared(h)'
      <4> HIDE DEF n
      <4>1. QED BY <2>1, <2>2, <2>3, <3>1, <3>2
    <3>4. QED BY <3>3 DEF Afforded
  <2>5. CASE Running = {}
    <3>1. n = 0 /\ Spared(h) = 0 /\ faults' = faults /\ overlaps' = overlaps
      BY <1>1, <2>5, FS_EmptySet DEF Spared
    <3>2. Running' = {p} /\ pc'[p] = "scrape" /\ prev'[p] = Loaded /\ left'[p] = Scope[p]
      BY <1>1, <1>2, <2>5 DEF TypeOK
    <3>3. Loaded' = Loaded /\ (GoodFor(Loaded, h) => GoodFor(Loaded, h)' /\ GoodFor(prev[p], h)')
      BY <1>1, <3>2 DEF Loaded, GoodFor, world
    <3>4. Clean(p)' /\ p \in Running'
      BY <3>2 DEF Clean
    <3>5. CASE h \in Scope[p]
      <4>1. Leaves(h)'
        BY <3>2, <3>4, <3>5 DEF Leaves
      <4>2. Leaves(h) => GoodFor(Loaded, h)
        BY <2>5 DEF Leaves
      <4>3. Leaves(h) => ~Spoils(p, h)'
        BY <3>2, <3>3, <3>5, <4>2 DEF Spoils
      <4>4. After(h)' = 0 /\ (After(h) = 0 => Spared(h)' = 1)
        BY <3>4, <4>1, <4>3 DEF After, Spared
      <4>5. sent'[h] + Cardinality(Running') + After(h)' <= 1 + faults' + overlaps' + Spared(h)'
        <5> HIDE DEF n
        <5>1. QED BY <2>1, <2>2, <2>3, <3>1, <4>4
      <4>6. QED BY <4>5 DEF Afforded
    <3>6. CASE h \notin Scope[p]
      <4>1. ~Spoils(p, h)'
        BY <3>6 DEF Spoils
      <4>2. Leaves(h) => GoodFor(Loaded, h)
        BY <2>5 DEF Leaves
      <4>3. Leaves(h) => Leaves(h)'
        BY <3>3, <3>4, <4>2 DEF Leaves
      <4>4. After(h)' <= After(h) /\ Spared(h)' = 1
        BY <3>4, <4>1, <4>3 DEF After, Spared
      <4>5. sent'[h] + Cardinality(Running') + After(h)' <= 1 + faults' + overlaps' + Spared(h)'
        <5> HIDE DEF n
        <5>1. QED BY <2>1, <2>2, <2>3, <3>1, <4>4
      <4>6. QED BY <4>5 DEF Afforded
    <3>7. QED BY <3>5, <3>6
  <2>6. QED BY <2>4, <2>5
<1>5. \A q \in Processes : left'[q] \subseteq Scope[q]
  BY <1>1 DEF Budget, TypeOK
<1>6. QED BY <1>1, <1>3, <1>4, <1>5 DEF Budget

(* What the end of some collections leaves of the others. *)
LEMMA EndLeaves ==
  ASSUME TypeOK, Budget, NEW P \in SUBSET Processes, Ended(P)
  PROVE  /\ Running' = Running \ P
         /\ \A q \in Processes : left'[q] \subseteq Scope[q]
         /\ \A q \in Running \ P : prev'[q] = prev[q] /\ left'[q] = left[q] /\ out'[q] = out[q]
<1>1. Running' = Running \ P
  BY DEF Ended, Running, TypeOK
<1>2. \A q \in Processes : left'[q] \subseteq Scope[q]
  BY DEF Ended, Budget, TypeOK
<1>3. \A q \in Running \ P : prev'[q] = prev[q] /\ left'[q] = left[q] /\ out'[q] = out[q]
  BY DEF Ended, Running, TypeOK
<1>4. QED BY <1>1, <1>2, <1>3

LEMMA KillAffords ==
  ASSUME TypeOK, Budget, NEW p \in Processes, Kill(p)
  PROVE  Budget'
<1>1. /\ pc[p] # "idle" /\ faults' = faults + 1 /\ Ended({p})
      /\ UNCHANGED <<published, tmp, sent, overlaps>>
  BY DEF Kill, Fault
<1>2. /\ Running' = Running \ {p} /\ p \in Running
      /\ \A q \in Processes : left'[q] \subseteq Scope[q]
  BY <1>1, EndLeaves DEF Running
<1>3. IsFiniteSet(Running') /\ Cardinality(Running') = Cardinality(Running) - 1
  BY <1>2, FS_RemoveElement DEF Budget
<1>4. ASSUME NEW h \in Hosts PROVE Afforded(h)'
  <2> DEFINE n == Cardinality(Running)
  <2>1. /\ sent[h] \in Nat /\ faults \in Nat /\ overlaps \in Nat /\ n \in Nat
        /\ After(h) \in {0, 1} /\ Spared(h) \in {0, 1}
        /\ sent[h] + n + After(h) <= 1 + faults + overlaps + Spared(h)
    BY BudgetCounts DEF Budget, Afforded
  <2>2. After(h)' \in {0, 1} /\ Spared(h)' \in {0, 1}
    BY DEF After, Spared
  <2>3. sent'[h] = sent[h] /\ Cardinality(Running') = n - 1 /\ faults' = faults + 1 /\ overlaps' = overlaps
    BY <1>1, <1>3
  <2>4. sent'[h] + Cardinality(Running') + After(h)' <= 1 + faults' + overlaps' + Spared(h)'
    <3> HIDE DEF n
    <3>1. QED BY <2>1, <2>2, <2>3
  <2>5. QED BY <2>4 DEF Afforded
<1>5. QED BY <1>1, <1>2, <1>3, <1>4 DEF Budget

LEMMA RestartAffords ==
  ASSUME TypeOK, Budget, Restart
  PROVE  Budget'
<1>1. /\ faults' = faults + 1 /\ Ended(Processes) /\ UNCHANGED <<published, tmp, sent, overlaps>>
  BY DEF Restart, Fault
<1>2. Running' = {} /\ \A q \in Processes : left'[q] \subseteq Scope[q]
  BY <1>1, EndLeaves DEF Running
<1>3. IsFiniteSet(Running') /\ Cardinality(Running') = 0
  BY <1>2, FS_EmptySet
<1>4. ASSUME NEW h \in Hosts PROVE Afforded(h)'
  <2> DEFINE n == Cardinality(Running)
  <2>1. /\ sent[h] \in Nat /\ faults \in Nat /\ overlaps \in Nat /\ n \in Nat
        /\ After(h) \in {0, 1} /\ Spared(h) \in {0, 1} /\ Spared(h) <= n
        /\ sent[h] + n + After(h) <= 1 + faults + overlaps + Spared(h)
    BY BudgetCounts DEF Budget, Afforded
  <2>2. After(h)' \in {0, 1} /\ Spared(h)' \in {0, 1}
    BY DEF After, Spared
  <2>3. sent'[h] = sent[h] /\ faults' = faults + 1 /\ overlaps' = overlaps
    BY <1>1
  <2>4. sent'[h] + Cardinality(Running') + After(h)' <= 1 + faults' + overlaps' + Spared(h)'
    <3> HIDE DEF n
    <3>1. QED BY <1>3, <2>1, <2>2, <2>3
  <2>5. QED BY <2>4 DEF Afforded
<1>5. QED BY <1>1, <1>2, <1>3, <1>4 DEF Budget

(* A spoilt result was in store. *)
LEMMA SendAffords ==
  ASSUME TypeOK, Budget, NEW p \in Processes, Send(p)
  PROVE  Budget'
<1>1. /\ pc[p] = "scrape" /\ left[p] = {} /\ Ended({p})
      /\ sent' = [h \in Hosts |-> IF h \in Spoilt(p) THEN sent[h] + 1 ELSE sent[h]]
      /\ UNCHANGED <<world, clock, epoch, published, tmp, content, faults, overlaps>>
  BY DEF Send, disk
<1>2. /\ Running' = Running \ {p} /\ p \in Running
      /\ \A q \in Processes : left'[q] \subseteq Scope[q]
      /\ \A q \in Running \ {p} : prev'[q] = prev[q] /\ left'[q] = left[q] /\ out'[q] = out[q]
  BY <1>1, EndLeaves DEF Running
<1>3. IsFiniteSet(Running') /\ Cardinality(Running') = Cardinality(Running) - 1
  BY <1>2, FS_RemoveElement DEF Budget
<1>4. ASSUME NEW h \in Hosts PROVE Afforded(h)'
  <2> DEFINE n == Cardinality(Running)
  <2>1. /\ sent[h] \in Nat /\ faults \in Nat /\ overlaps \in Nat /\ n \in Nat
        /\ After(h) \in {0, 1} /\ Spared(h) \in {0, 1}
        /\ sent[h] + n + After(h) <= 1 + faults + overlaps + Spared(h)
    BY BudgetCounts DEF Budget, Afforded
  <2>2. After(h)' \in {0, 1} /\ Spared(h)' \in {0, 1}
    BY DEF After, Spared
  <2>3. After(h)' <= After(h)
    <3>1. ASSUME Leaves(h) PROVE Leaves(h)'
      <4>1. Running = {p} /\ GoodFor(Loaded, h)
        BY <1>1, <1>2, <3>1 DEF Leaves, Clean
      <4>2. Running' = {} /\ GoodFor(Loaded, h)'
        BY <1>1, <1>2, <4>1 DEF GoodFor, Loaded, world
      <4>3. QED BY <4>2 DEF Leaves
    <3>2. QED BY <3>1 DEF After
  <2>4. h \in Spoilt(p) <=> Spoils(p, h)
    BY <1>1 DEF Spoilt, Spoils
  <2>5. Spoils(p, h) => Spared(h) <= Spared(h)'
    <3>1. ASSUME NEW q \in Running \ {p}, ~Spoils(q, h) PROVE q \in Running' /\ ~Spoils(q, h)'
      BY <1>1, <1>2, <3>1 DEF Spoils, GoodFor, world
    <3>2. QED BY <3>1 DEF Spared
  <2>6. /\ sent'[h] = IF Spoils(p, h) THEN sent[h] + 1 ELSE sent[h]
        /\ Cardinality(Running') = n - 1 /\ faults' = faults /\ overlaps' = overlaps
    BY <1>1, <1>3, <2>4
  <2>7. sent'[h] + Cardinality(Running') + After(h)' <= 1 + faults' + overlaps' + Spared(h)'
    <3> HIDE DEF n
    <3>1. CASE Spoils(p, h)
      BY <2>1, <2>2, <2>3, <2>5, <2>6, <3>1
    <3>2. CASE ~Spoils(p, h)
      BY <2>1, <2>2, <2>3, <2>6, <3>2
    <3>3. QED BY <3>1, <3>2
  <2>8. QED BY <2>7 DEF Afforded
<1>5. QED BY <1>1, <1>2, <1>3, <1>4 DEF Budget

LEMMA BudgetInit == Init => Budget
<1> SUFFICES ASSUME Init PROVE Budget
  OBVIOUS
<1>1. Running = {} /\ published = None /\ \A p \in Processes : left[p] = {}
  BY DEF Init, Running
<1>2. Cardinality(Running) = 0 /\ IsFiniteSet(Running)
  BY <1>1, FS_EmptySet
<1>3. \A h \in Hosts : sent[h] = 0 /\ After(h) \in {0, 1} /\ Spared(h) = 0
  BY <1>1 DEF Init, After, Spared
<1>4. faults = 0 /\ overlaps = 0
  BY DEF Init
<1>5. QED BY <1>1, <1>2, <1>3, <1>4 DEF Budget, Afforded

LEMMA BudgetStep == TypeOK /\ Budget /\ [Next]_vars => Budget'
<1> SUFFICES ASSUME TypeOK, Budget, [Next]_vars PROVE Budget'
  OBVIOUS
<1>1. CASE UNCHANGED vars
  <2>1. Running' = Running /\ UNCHANGED <<sent, faults, overlaps, left, published, tmp>>
    BY <1>1 DEF vars, disk, Running
  <2>2. \A h \in Hosts : SparedKept(h) /\ LeavesKept(h)
    BY <1>1, <2>1 DEF vars, disk, world, SparedKept, LeavesKept, Spoils, Leaves, Clean, GoodFor,
                      Loaded, Empty, Whole, NoEntries
  <2>3. QED BY <2>1, <2>2, StillAfforded DEF Budget
<1>2. QED
  BY <1>1, RebootAffords, RestartAffords, KillAffords, StartAffords, ScrapeAffords, ForgetAffords,
     OpenAffords, WriteAffords, ReplaceAffords, SaveFailsAffords, SendAffords DEF Next

(* vsanmetrics.py:171: the first result of a host is spoilt, and one more  *)
(* for whatever goes wrong (a reboot, a restart, a kill, a failed save);   *)
(* a collection that overlaps another costs two.                           *)
THEOREM OneIntervalIsLost == Spec => []OneIntervalEach
<1>1. TypeOK /\ Budget => OneIntervalEach
  <2> SUFFICES ASSUME TypeOK, Budget, NEW h \in Hosts PROVE sent[h] <= 1 + faults + overlaps
    BY DEF OneIntervalEach
  <2> DEFINE n == Cardinality(Running)
  <2>1. /\ sent[h] \in Nat /\ faults \in Nat /\ overlaps \in Nat /\ n \in Nat
        /\ After(h) \in {0, 1} /\ Spared(h) \in {0, 1} /\ Spared(h) <= n
        /\ sent[h] + n + After(h) <= 1 + faults + overlaps + Spared(h)
    BY BudgetCounts DEF Budget, Afforded
  <2> HIDE DEF n
  <2>2. QED BY <2>1
<1>2. QED BY <1>1, BudgetInit, BudgetStep, TypeCorrect, PTL DEF Spec
=============================================================================
