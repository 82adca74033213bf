----------------------------- MODULE PathManager -----------------------------
(***************************************************************************)
(* Bearer selection of a dual-path sandbox                                 *)
(* (internal/module/devsandbox/path/manager.go).  The Manager's fields are *)
(* a record: `current` is the committed bearer ("none" before Init) and    *)
(* `leftBlocked` remembers that the last outage was a blockage.  Every     *)
(* method runs under the Manager's own mutex, so each is one operator.     *)
(***************************************************************************)

Bearers == {"satellite", "terrestrial"}

LossReasons == {"satellite_coverage_lost", "satellite_blocked"}
GainReasons == {"satellite_coverage_gained", "satellite_unblocked"}

Paths == [current : Bearers \cup {"none"}, leftBlocked : BOOLEAN]

Handovers == [from : Bearers, to : Bearers, reason : LossReasons \cup GainReasons]

NewManager == [current |-> "none", leftBlocked |-> FALSE]

Desired(inCoverage) == IF inCoverage THEN "satellite" ELSE "terrestrial"

InitPath(inCoverage) == [current |-> Desired(inCoverage), leftBlocked |-> FALSE]

\* The Manager after TransitionTo(want, inBlockage).
TransitionTo(p, want, inBlockage) ==
  LET blocked == want = "terrestrial" /\ inBlockage
  IN  IF p.current = want
        THEN [p EXCEPT !.leftBlocked = @ \/ blocked]
        ELSE [current |-> want, leftBlocked |-> blocked]

TransitionReason(to, inBlockage, leftBlocked) ==
  CASE to = "terrestrial" /\ inBlockage  -> "satellite_blocked"
    [] to = "terrestrial" /\ ~inBlockage -> "satellite_coverage_lost"
    [] to = "satellite" /\ leftBlocked   -> "satellite_unblocked"
    [] OTHER                             -> "satellite_coverage_gained"

\* The Transition that TransitionTo(want, inBlockage) returns when the bearer changes.
HandoverOf(p, want, inBlockage) ==
  [from   |-> p.current,
   to     |-> want,
   reason |-> TransitionReason(want, inBlockage, p.leftBlocked)]
==============================================================================
