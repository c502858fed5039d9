------------------------------- MODULE MCReading -------------------------------
(* What is made of what sources return: the endpoint of a host              *)
(* (Exposition), the answers of the Performance Service (Answers), and the  *)
(* tables metrics are defined by (Labels).  They share no state: a          *)
(* behaviour follows one of them, the others stay as they were.             *)
EXTENDS Exposition, Answers, Labels, TLC

CONSTANTS default, ops, rx, tx, q0, q1

VARIABLE source  \* which one is followed

-----------------------------------------------------------------------------
(* Exposition: one label of each sort and two values for each label.        *)
OfLabel == [stack |-> {default, ops}, io_type |-> {rx, tx}, queue |-> {q0, q1}]
Interchangeable ==
  {f @@ g @@ h : f \in Permutations({default, ops}), g \in Permutations({rx, tx}),
                 h \in Permutations({q0, q1})}

(* Answers: two hosts of one drive each, whose LUNs have one key.           *)
OneCluster == [esx1 |-> "cluster", esx2 |-> "cluster"]
OwnHost == [drive1 |-> "esx1", drive2 |-> "esx2"]
OneLun == [drive1 |-> "lun0", drive2 |-> "lun0"]
TwoMachines == <<"vm1", "vm2">>
WithSlash == [path |-> "/path"]
FourTypes == [cpu |-> <<"host_uuid", "cpu">>, vm |-> <<"vm_uuid">>,
              disk |-> <<"disk_uuid">>, vdisk |-> <<"vdisk_uuid">>]
KindSuffix == [cpu |-> "CPU (all)", vm |-> "VM", disk |-> "Disk", vdisk |-> ""]

(* Labels: every pair of metrics named by up to two of three words, and     *)
(* some others.                                                             *)
Tokens == {"avg", "read", "latency"}
Named == {<<t>> : t \in Tokens} \cup (Tokens \X Tokens)
       \cup {<<"drops">>, <<"drops", "actual">>, <<"drops", "raw">>, <<"latency", "actual">>,
             <<"latency", "iops">>, <<"mem", "bytes">>, <<"mem", "pct">>, <<"avg", "lat">>,
             <<"avg", "read", "latency">>, <<"read", "latency", "avg">>, <<"latency", "avg", "read">>}
Pairs == {{m, n} : m \in Named, n \in Named}
ByToken == [t \in Tokens \cup {"actual", "raw", "drops", "mem", "pct", "lat", "iops", "bytes"} |->
              CASE t = "lat" -> "latency" [] t = "pct" -> "percent" [] OTHER -> t]
Holding == [w \in NameWords |-> {m \in Named : w \in ToSet(m)}]
Ending == [w \in NameWords |-> {m \in Named : Last(m) = w}]
Drops == {<<"drops">>}
InMilliseconds == [m \in {<<"read", "latency">>} |-> "milliseconds"]
MemPct == {<<"mem", "pct">>}

-----------------------------------------------------------------------------
(* What is not followed: nothing was trained, looked up or modelled. *)
NoScrape == /\ trained = {} /\ model = NoModel /\ scrape = {} /\ pending = {}
            /\ stored = {} /\ unknown = {} /\ props = {}
NoAnswers == /\ device = <<>> /\ uuid = <<>> /\ instance = <<>> /\ attached = <<>>
             /\ lookups = <<>> /\ failed = 0 /\ names = <<>> /\ versions = <<>>
             /\ driverFor = <<>> /\ hardware = <<>> /\ answered = {} /\ objects = {}
NoLabels == /\ modelled = {} /\ official = {} /\ permille = {} /\ charted = <<>>
            /\ converted = {} /\ labels = <<>> /\ units = <<>> /\ fresh = FALSE /\ edits = 0

ReadingInit ==
  \/ source = "endpoint" /\ Init /\ NoAnswers /\ NoLabels
  \/ source = "answers" /\ InitAnswers /\ NoScrape /\ NoLabels
  \/ source = "labels" /\ InitLabels /\ NoScrape /\ NoAnswers

ReadingNext ==
  \/ source = "endpoint" /\ Next /\ UNCHANGED <<source, answersVars, labelsVars>>
  \/ source = "answers" /\ NextAnswers /\ UNCHANGED <<source, vars, labelsVars>>
  \/ source = "labels" /\ NextLabels /\ UNCHANGED <<source, vars, answersVars>>

ReadingSpec == ReadingInit /\ [][ReadingNext]_<<source, vars, answersVars, labelsVars>>
=============================================================================
