-------------------------------- MODULE PtyBuild --------------------------------
(***************************************************************************)
(* mp_build_pty.py runs mp-build, which wants a terminal, behind a pseudo-  *)
(* terminal: it reads what the build writes, looks now and then whether it  *)
(* has ended, and kills it when the terminal closes or half an hour is      *)
(* over.  The build writes, waits for room in the terminal, closes it,      *)
(* hangs or ends whenever it likes.  What the captured text is stripped of  *)
(* and which lines are dropped is left out.                                 *)
(***************************************************************************)
EXTENDS Naturals

CONSTANTS
  Codes,      \* exit codes of a build
  Killed,     \* how a process ends on signal 9
  None,       \* it has not ended
  Room,       \* bound: chunks the terminal holds
  MaxOutput   \* bound: chunks a build writes

VARIABLES
  pc,        \* where the wrapper is
  late,      \* TIMEOUT is over
  status,    \* what waitpid gave
  captured,  \* chunks read
  how,       \* history: why the loop was left
  ended,     \* how the build ended
  open,      \* something still holds the build's side of the terminal
  written,   \* chunks the build wrote
  hung       \* history: the build closed its terminal before it ended

ptyVars == <<pc, late, status, captured, how, ended, open, written, hung>>
wrapper == <<pc, status, captured, how>>
child == <<ended, open, written, hung>>

Unread == written - captured

Init ==
  /\ pc = "loop" /\ late = FALSE /\ status = None /\ captured = 0 /\ how = "none"
  /\ ended = None /\ open = TRUE /\ written = 0 /\ hung = FALSE

-----------------------------------------------------------------------------
(* mp-build and what it starts. *)

Write ==
  /\ ended = None /\ open /\ written < MaxOutput /\ Unread < Room
  /\ written' = written + 1
  /\ UNCHANGED <<wrapper, late, ended, open, hung>>

Detach ==
  /\ ended = None /\ open
  /\ open' = FALSE /\ hung' = TRUE
  /\ UNCHANGED <<wrapper, late, ended, written>>

(* Something it started may keep the terminal. *)
End(c) ==
  /\ ended = None
  /\ ended' = c
  /\ open' \in {FALSE, open}
  /\ UNCHANGED <<wrapper, late, written, hung>>

(* Half an hour is over. *)
TimeUp ==
  /\ ~late
  /\ late' = TRUE
  /\ UNCHANGED <<wrapper, child>>

-----------------------------------------------------------------------------
(* The loop. *)

LeaveLoop(why) == pc' = "after" /\ how' = why

(* The time is looked at between two rounds only. *)
Expire ==
  /\ pc = "loop" /\ late
  /\ LeaveLoop("late")
  /\ UNCHANGED <<status, captured, late, child>>

(* select finds the terminal readable, or gives up after two seconds. *)
Select ==
  /\ pc = "loop" /\ ~late
  /\ pc' = IF Unread > 0 \/ ~open THEN "read" ELSE "look"
  /\ UNCHANGED <<status, captured, how, late, child>>

(* Some of what is there, all of it or not. *)
ReadSome ==
  /\ pc = "read" /\ Unread > 0
  /\ \E n \in 1..Unread : captured' = captured + n
  /\ pc' = "look"
  /\ UNCHANGED <<status, how, late, child>>

(* EIO or nothing: the other side is closed and everything was read. *)
ReadEnd ==
  /\ pc = "read" /\ Unread = 0 /\ ~open
  /\ LeaveLoop("closed")
  /\ UNCHANGED <<status, captured, late, child>>

(* waitpid(WNOHANG). *)
Waited == ended

Look ==
  /\ pc = "look"
  /\ status' = Waited
  /\ IF Waited = None THEN pc' = "loop" /\ UNCHANGED how ELSE LeaveLoop("ended")
  /\ UNCHANGED <<captured, late, child>>

-----------------------------------------------------------------------------
(* Behind it: a build whose status is not known is killed, which does       *)
(* nothing to one that has ended, and waited for.                           *)

(* Mutant: its status is taken to be that of the kill. *)
SignalStatus == Killed
Fate == IF ended = None THEN Killed ELSE ended

Kill ==
  /\ pc = "after" /\ status = None
  /\ status' = Fate
  /\ ended' = IF ended = None THEN Killed ELSE ended
  /\ open' \in {FALSE, open}
  /\ pc' = "done"
  /\ UNCHANGED <<captured, how, late, written, hung>>

Known ==
  /\ pc = "after" /\ status # None
  /\ pc' = "done"
  /\ UNCHANGED <<status, captured, how, late, child>>

Loop == Expire \/ Select \/ ReadSome \/ ReadEnd \/ Look
Next ==
  \/ Write \/ Detach \/ (\E c \in Codes : End(c)) \/ TimeUp
  \/ Loop \/ Kill \/ Known

Spec == Init /\ [][Next]_ptyVars

(* The wrapper goes on and the clock with it; of the build nothing is       *)
(* assumed, it may hang for ever.                                           *)
Fairness == WF_ptyVars(Loop \/ Kill \/ Known) /\ WF_ptyVars(TimeUp)
FairSpec == Spec /\ Fairness

-----------------------------------------------------------------------------
(* "The exit status is the child's rather than this wrapper's": it is the   *)
(* code the build ended with, and a build is only killed that was still     *)
(* running when its time was over or it had closed its terminal             *)
(* (mp_build_pty.py:16-17, 64-66).                                          *)
StatusIsTheBuilds ==
  pc = "done" =>
    /\ status = ended /\ ended # None
    /\ ended = Killed => (how = "late" /\ late) \/ (how = "closed" /\ hung)

(* "Then hangs until something kills it" is over: the wrapper ends whatever *)
(* the build does (mp_build_pty.py:6-13, 50).                               *)
AlwaysEnds == <>(pc = "done")
=============================================================================
