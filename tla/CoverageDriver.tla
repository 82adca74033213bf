---------------------------- MODULE CoverageDriver ----------------------------
(***************************************************************************)
(* A driver loop over a condition engine: the loop ticks every few         *)
(* seconds, evaluates coverage and link state of a profile, and tells the  *)
(* subscribers of the bus.  What they are told must match what happens,    *)
(* although the loop sees coverage only at its ticks: a short window, gap  *)
(* or blockage can begin and end between two of them.                      *)
(***************************************************************************)
EXTENDS DriverLoop

CONSTANTS
  Profiles,  \* profiles an evaluator is made for
  MaxGap     \* the longest time between two ticks

ASSUME CoverageDriverAssumption ==
  /\ Profiles \subseteq Profile
  /\ MaxGap \in Nat \ {0}

VARIABLES
  profile,   \* the evaluator's profile
  cyclePos,  \* the position of the last tick in the cycle
  heard,     \* what subscribers heard since the last edge, that edge included (history)
  shown      \* the link state they received last (history)

vars == <<profile, cyclePos, heard, shown, loopVars>>

CoverageNow == Coverage(profile, cyclePos)

TypeOK ==
  /\ profile \in Profiles
  /\ cyclePos \in Positions(profile)
  /\ heard \subseteq Edges \cup Notices
  /\ shown \in LinkStates \cup {Silent}
  /\ LoopTypeOK

\* NewEvaluator refuses other profiles.  The session may start anywhere in the
\* cycle: the epoch is the evaluator's, not the loop's.
Init ==
  /\ profile \in {p \in Profiles : Valid(p)}
  /\ cyclePos \in Positions(profile)
  /\ heard = {}
  /\ shown = Silent
  /\ LoopInit

\* The wall clock has moved on by gap, and the loop ticks.
DriverTick(gap) ==
  LET now == Later(profile, cyclePos, gap) IN
  /\ cyclePos' = now
  /\ Tick(LinkState(profile, now), Coverage(profile, now), profile.lookahead, gap)
  /\ heard' = (IF published'.edge # None THEN {published'.edge} ELSE heard)
                \cup ({published'.notice} \ {None})
  /\ shown' = (IF published'.link # Silent THEN published'.link ELSE shown)
  /\ UNCHANGED profile

Next == \E gap \in 1 .. MaxGap : DriverTick(gap)

Spec == Init /\ [][Next]_vars

-----------------------------------------------------------------------------
(* What subscribers may rely on *)

\* Outages do not touch each other: no blockage begins with the cycle or where
\* another one ends.
Separate(p) ==
  \A i \in DOMAIN p.blockages :
    /\ p.blockages[i].offset > 0
    /\ \A j \in DOMAIN p.blockages : p.blockages[j].offset # End(p.blockages[i])

\* And every blockage that takes effect clears while the schedule has coverage.
Isolated(p) ==
  /\ Separate(p)
  /\ \A i \in DOMAIN p.blockages :
       p.blockages[i].offset < CurveRange(p) => End(p.blockages[i]) < CurveRange(p)

\* A window_closing notice of a periodic profile announces the scheduled end of
\* the window, never a blockage, and that end comes within the lookahead
\* (loop.go: lookahead notices; scheduler.go: until the next transition).  A
\* window_opening notice is followed by coverage within the lookahead, when
\* every blockage clears inside the window.
NoticesTruthful ==
  /\ published.notice = "window_closing" /\ Periodic(profile) =>
       \E sec \in 1 .. profile.lookahead :
         ~ScheduledCoverage(profile, Later(profile, cyclePos, sec)).inCoverage
  /\ published.notice = "window_opening" /\ Isolated(profile) =>
       \E sec \in 1 .. profile.lookahead :
         Coverage(profile, Later(profile, cyclePos, sec)).inCoverage

\* Edges alternate, whatever the ticks jump over.  If the loop ticks at
\* least once in every lookahead interval, every opening but the first was
\* announced since the last closing, and every scheduled closing since the last
\* opening (loop.go: the two flags and their reset at each transition).
EventsInOrder ==
  [][/\ published'.edge \notin heard
     /\ profile.lookahead >= MaxGap /\ heard # {} =>
          /\ published'.edge = "window_opened" => "window_opening" \in heard
          /\ published'.edge = "window_closed" /\ ~CoverageNow'.inBlockage
               => "window_closing" \in heard]_vars

\* In coverage, subscribers hold a link state that is recent and close to the
\* true one, also after an outage and under a slow drift (bus.go: the throttle
\* compares with the state last published).
LinkFresh ==
  prevInCoverageSet /\ CoverageNow.inCoverage =>
    /\ shown # Silent
    /\ ~Significant(shown, LinkState(profile, cyclePos))
    /\ lastAge < Interval

\* The lookahead of a periodic profile names the window the device is in, or the
\* first instant coverage resumes, and always a scheduled closing
\* (lookahead_periodic.go: a gap and a blockage predict differently).
PredictionHolds ==
  Periodic(profile) =>
    LET l == Lookahead(profile, cyclePos)
        At(sec) == Later(profile, cyclePos, sec)
    IN /\ At(l.close) = profile.window % profile.period
       /\ l.close > 0 /\ l.close > l.open /\ l.close - l.open <= profile.window
       /\ CoverageNow.inCoverage => At(l.open) = 0
       /\ ~CoverageNow.inCoverage /\ Separate(profile) =>
            /\ Coverage(profile, At(l.open)).inCoverage
            /\ \A sec \in 0 .. l.open - 1 : ~Coverage(profile, At(sec)).inCoverage
=============================================================================
