-------------------------------- MODULE PakVerify ---------------------------------
(***************************************************************************)
(* verify_pak.py: checks, one after the other, that collect failures and    *)
(* count what they looked at, and a report that takes a count of zero for a *)
(* failure.  Identifiers are looked for by a pattern that expects their key *)
(* ahead of their type.                                                     *)
(***************************************************************************)
EXTENDS Naturals, FiniteSets

CONSTANTS
  Views, Dashboards,
  Unbound,   \* what a widget without a view is bound to
  MaxIdents  \* bound: identifiers of a pak

VARIABLES
  pak,
  pc,        \* the check that is next; "told"
  examined,  \* checks that looked at something
  asked,     \* checks that were made
  failures,  \* what failed
  verdict    \* "none", "passed", "failed"

verifyVars == <<pak, pc, examined, asked, failures, verdict>>

(* An identifier of an object kind or of the adapter instance, whose type   *)
(* is 1, part of the key, or 2, and which is written key first or not.      *)
Identifiers == [of : {"object", "instance"}, type : {1, 2}, first : {"key", "type"}]

Widget == [binds : Views \cup {Unbound}, overlaps : BOOLEAN]
NoDashboard == [widgets |-> {}, shared |-> TRUE, there |-> FALSE]

Paks ==
  [idents : {I \in SUBSET Identifiers : Cardinality(I) <= MaxIdents},
   owners : SUBSET {"ours", "another"},
   views : [Views -> {"absent", "empty", "columns"}],
   dashboards : [Dashboards -> {NoDashboard} \cup
                   [widgets : SUBSET Widget, shared : BOOLEAN, there : {TRUE}]],
   leak : BOOLEAN]

(* The checks in their order. *)
After == [identifiers |-> "objects", objects |-> "owners", owners |-> "views",
          views |-> "dashboards", dashboards |-> "references", references |-> "leaks",
          leaks |-> "report"]

NotBegun ==
  pc = "identifiers" /\ examined = {} /\ asked = {} /\ failures = {} /\ verdict = "none"
Init == pak \in Paks /\ NotBegun

-----------------------------------------------------------------------------
Read(i) == i.first = "key"

Fail(what, bad) == failures' = IF bad THEN failures \cup {what} ELSE failures

Check(what, looked, bad) ==
  /\ pc = what /\ pc' = After[what]
  /\ asked' = asked \cup {what}
  /\ examined' = IF looked THEN examined \cup {what} ELSE examined
  /\ Fail(what, bad)
  /\ UNCHANGED <<pak, verdict>>

IdentifiersKnown == Check("identifiers", \E i \in pak.idents : Read(i), FALSE)

OfObject(i) == Read(i) /\ i.of = "object"

ObjectIdentifiers ==
  Check("objects", \E i \in pak.idents : OfObject(i), \E i \in pak.idents : OfObject(i) /\ i.type # 1)

Owners == Check("owners", pak.owners # {}, "another" \in pak.owners)

Shipped == {v \in Views : pak.views[v] # "absent"}
ViewColumns == Check("views", \E v \in Views : pak.views[v] = "columns",
                     \E v \in Views : pak.views[v] = "empty")

There == {d \in Dashboards : pak.dashboards[d].there}
Bindings(d) == {w.binds : w \in pak.dashboards[d].widgets}

Panels == Check("dashboards", \E d \in There : Bindings(d) # {},
  \E d \in There : \/ Unbound \in Bindings(d)
                  \/ \E w \in pak.dashboards[d].widgets : w.overlaps
                  \/ ~pak.dashboards[d].shared)

Used == UNION {Bindings(d) : d \in There} \ {Unbound}
References == Check("references", TRUE, Used # Shipped)

Leaks == Check("leaks", TRUE, pak.leak)

Vacuous == asked \ examined

Report ==
  /\ pc = "report" /\ pc' = "told"
  /\ failures' = failures \cup Vacuous
  /\ verdict' = IF failures' = {} THEN "passed" ELSE "failed"
  /\ UNCHANGED <<pak, examined, asked>>

Next ==
  \/ IdentifiersKnown \/ ObjectIdentifiers \/ Owners \/ ViewColumns \/ Panels \/ References
  \/ Leaks \/ Report

Spec == Init /\ [][Next]_verifyVars

-----------------------------------------------------------------------------
Sound ==
  /\ \E i \in pak.idents : OfObject(i)
  /\ pak.owners = {"ours"}
  /\ There # {} /\ Used # {} /\ Used = Shipped
  /\ \A v \in Views : pak.views[v] # "empty"
  /\ \A d \in There : /\ pak.dashboards[d].shared
                      /\ \A w \in pak.dashboards[d].widgets : w.binds # Unbound /\ ~w.overlaps
  /\ ~pak.leak

(* A pak that passes has what the checks are about, and nothing wrong with  *)
(* it, but for identifiers that are not written key first: dashboards, with *)
(* views that are there and have columns, no view that none of them uses,   *)
(* no owner but the known one, and no identifier of an object that stopped  *)
(* being part of its key (verify_pak.py:59-69, 90-199).                     *)
PassedIsSound ==
  verdict = "passed" =>
    Sound /\ \A i \in pak.idents : Read(i) /\ i.of = "object" => i.type = 1

(* A pak that is refused has something wrong with it or lacks something; an *)
(* informational identifier of the adapter instance is neither              *)
(* (verify_pak.py:97-108).                                                  *)
RefusedForCause ==
  verdict = "failed" =>
    \/ ~\E i \in pak.idents : Read(i) /\ i.of = "object"
    \/ \E i \in pak.idents : Read(i) /\ i.of = "object" /\ i.type = 2
    \/ ~Sound

=============================================================================
