--------------------------------- MODULE Capture ---------------------------------
(***************************************************************************)
(* capture_cpu_load.py asks the Performance Service every minute for the    *)
(* last twenty and appends what it has not seen yet to a file, while        *)
(* samples are published late, queries fail, and the capture is stopped,    *)
(* killed and started again on the same file.  Time is counted in samples;  *)
(* metrics and values are left out: a series is a metric of an object.      *)
(***************************************************************************)
EXTENDS Naturals, FiniteSets

CONSTANTS
  Series,
  EntityOf,   \* series -> the entity type that is queried for it
  ObjectOf,   \* series -> the first 36 characters of its object, and its metric
  Window,     \* samples a query reaches back
  MaxTime,    \* bound: samples of a series
  MaxStarts   \* bound: captures

Entities == {EntityOf[s] : s \in Series}
Times == 1..MaxTime

VARIABLES
  now,
  published,  \* samples, <<series, time>>, the service has
  pc,         \* "off"; "idle": between polls; "poll"
  asked,      \* the time a poll asks up to
  left,       \* entity types it has not queried yet
  got,        \* samples it was given
  seen,       \* keys this capture wrote
  file,       \* rows: key, sample and the capture that wrote it
  header,     \* "none": there is no file; "buffered"; "missing"; "there"
  delivered,  \* history: samples an answer held
  lost,       \* history: samples a kill or an error took before they were written
  beheaded,   \* history: a capture was killed before it flushed the header
  starts

service == <<now, published>>
polling == <<asked, left, got>>
disk == <<seen, file, header>>
history == <<delivered, lost, beheaded, starts>>
captureVars == <<service, pc, polling, disk, history>>

Key(x) == <<EntityOf[x[1]], ObjectOf[x[1]], x[2]>>

Init ==
  /\ now = 0 /\ published = {}
  /\ pc = "off"
  /\ asked = 0 /\ left = {} /\ got = {}
  /\ seen = {} /\ file = {} /\ header = "none"
  /\ delivered = {} /\ lost = {} /\ beheaded = FALSE /\ starts = 0

-----------------------------------------------------------------------------
(* The service: samples come late, but within twenty minutes. *)

Tick ==
  /\ now < MaxTime
  /\ now' = now + 1
  /\ UNCHANGED <<published, pc, polling, disk, history>>

Publish(s, t) ==
  /\ t <= now /\ <<s, t>> \notin published
  /\ published' = published \cup {<<s, t>>}
  /\ UNCHANGED <<now, pc, polling, disk, history>>

-----------------------------------------------------------------------------
(* The file is opened for appending; whether it is new is asked first. *)

New == header = "none"

Start ==
  /\ pc = "off" /\ starts < MaxStarts
  /\ pc' = "idle" /\ seen' = {} /\ starts' = starts + 1
  /\ header' = IF New THEN "buffered" ELSE IF header = "none" THEN "missing" ELSE header
  /\ UNCHANGED <<service, polling, file, delivered, lost, beheaded>>

BeginPoll ==
  /\ pc = "idle"
  /\ pc' = "poll" /\ asked' = now /\ left' = Entities /\ got' = {}
  /\ UNCHANGED <<service, disk, history>>

Answer(e) == {x \in published : EntityOf[x[1]] = e /\ asked - x[2] < Window}

Query(e) ==
  /\ pc = "poll" /\ e \in left
  /\ left' = left \ {e}
  /\ got' = got \cup Answer(e)
  /\ delivered' = delivered \cup Answer(e)
  /\ UNCHANGED <<service, pc, asked, disk, lost, beheaded, starts>>

(* Any error of a query is told and the next entity type asked. *)
QueryFails(e) ==
  /\ pc = "poll" /\ e \in left
  /\ left' = left \ {e}
  /\ UNCHANGED <<service, pc, asked, got, disk, history>>

(* Of two samples with one key the first that is met is written, the other *)
(* taken for it.                                                            *)
Row(x) == [key |-> Key(x), of |-> x, capture |-> starts]

Fresh == {x \in got : Key(x) \notin seen}

Choices == {S \in SUBSET Fresh : /\ {Key(x) : x \in S} = {Key(x) : x \in Fresh}
                               /\ \A x, y \in S : Key(x) = Key(y) => x = y}

Store ==
  /\ pc = "poll" /\ left = {}
  /\ \E S \in Choices : file' = file \cup {Row(x) : x \in S}
  /\ seen' = seen \cup {Key(x) : x \in Fresh}
  /\ header' = IF header = "buffered" THEN "there" ELSE header
  /\ pc' = "idle" /\ got' = {}
  /\ UNCHANGED <<service, asked, left, history>>

(* The time is over, or an answer is not what it should be: the file is     *)
(* closed.                                                                  *)
Stop ==
  /\ pc \in {"idle", "poll"}
  /\ pc' = "off" /\ got' = {} /\ left' = {}
  /\ lost' = lost \cup got
  /\ header' = IF header = "buffered" THEN "there" ELSE header
  /\ UNCHANGED <<service, asked, seen, file, delivered, beheaded, starts>>

(* Of what was written and not flushed, the beginning may be in the file. *)
Kill ==
  /\ pc # "off"
  /\ \E S \in (IF pc = "poll" /\ left = {} THEN UNION {SUBSET C : C \in Choices} ELSE {{}}),
        spilt \in BOOLEAN :
       /\ S # {} => spilt
       /\ file' = file \cup {Row(x) : x \in S}
       /\ header' = IF header # "buffered" THEN header ELSE IF spilt THEN "there" ELSE "missing"
       /\ beheaded' = (beheaded \/ (header = "buffered" /\ ~spilt))
  /\ lost' = lost \cup got
  /\ pc' = "off" /\ got' = {} /\ left' = {}
  /\ UNCHANGED <<service, asked, seen, delivered, starts>>

Next ==
  \/ Tick \/ (\E s \in Series, t \in Times : Publish(s, t))
  \/ Start \/ BeginPoll \/ (\E e \in Entities : Query(e) \/ QueryFails(e)) \/ Store
  \/ Stop \/ Kill

Spec == Init /\ [][Next]_captureVars

-----------------------------------------------------------------------------
(* A capture writes a key once, however often its polls overlap and         *)
(* whatever comes late; one that is started again on a file may write it    *)
(* again (capture_cpu_load.py:98, 107-109).                                 *)
OncePerCapture ==
  \A q, r \in file : q.key = r.key /\ q.capture = r.capture => q = r

(* What an answer held is in the file after the poll, by its entity type,   *)
(* name and time, unless the capture ended before it was written: neither   *)
(* what came late nor what an earlier poll of another time brought hides    *)
(* it (capture_cpu_load.py:90, 107-109).                                    *)
NothingMissed ==
  pc = "idle" =>
    \A x \in delivered \ lost :
      \E r \in file : /\ EntityOf[r.of[1]] = EntityOf[x[1]]
                     /\ ObjectOf[r.of[1]] = ObjectOf[x[1]]
                     /\ r.of[2] = x[2]

(* A file that was flushed has its header, but one whose first capture was  *)
(* killed before that: such a file never gets one, and report cannot read   *)
(* it (capture_cpu_load.py:99-103, 118-119).                                *)
Readable == header = "missing" => beheaded

=============================================================================
