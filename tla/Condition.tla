------------------------------ MODULE Condition ------------------------------
(***************************************************************************)
(* The condition engine (internal/kernel/condition) over validated         *)
(* profiles (internal/kernel/profile): what coverage and link a device has *)
(* at a position of the profile's cycle, and what the lookahead predicts.  *)
(* Seconds are integers, and an instant is its position in the cycle:      *)
(* nothing the engine computes depends on more.  A predicted instant is a  *)
(* number of seconds from now.                                             *)
(***************************************************************************)
EXTENDS Integers, Sequences

CONSTANT Impairments  \* the curves of a profile: delay, jitter, loss, bandwidth

Blockage == [offset : Int, duration : Int]
Point == [offset : Int, value : Int]

\* Any other word is unknown.
Mode == {"periodic", "continuous", "unknown"}

Profile == [mode : Mode, period : Int, window : Int, lookahead : Int,
            blockages : Seq(Blockage), curves : [Impairments -> Seq(Point)]]

Periodic(p) == p.mode = "periodic"

End(b) == b.offset + b.duration

-----------------------------------------------------------------------------
(* Profile.Validate *)

ValidSchedule(p) ==
  /\ p.mode \in {"periodic", "continuous"}
  /\ p.period > 0
  /\ p.lookahead >= 0
  /\ Periodic(p) => /\ p.window > 0
                    /\ p.window <= p.period
                    /\ p.lookahead <= p.period - p.window

ValidBlockages(p) ==
  \A i \in DOMAIN p.blockages :
    LET b == p.blockages[i] IN
    /\ b.offset >= 0
    /\ b.duration > 0
    /\ End(b) <= p.period
    /\ i > 1 => b.offset >= End(p.blockages[i - 1])

CurveRange(p) == IF Periodic(p) THEN p.window ELSE p.period

ValidCurve(points, maxOffset, isPercent) ==
  /\ points # <<>>
  /\ points[1].offset = 0
  /\ \A i \in DOMAIN points :
       /\ points[i].value >= 0
       /\ isPercent => points[i].value <= 100
       /\ points[i].offset <= maxOffset
       /\ i > 1 => points[i].offset > points[i - 1].offset
  /\ Len(points) > 1 => points[Len(points)].offset = maxOffset

Valid(p) ==
  /\ ValidSchedule(p)
  /\ ValidBlockages(p)
  /\ \A c \in Impairments : ValidCurve(p.curves[c], CurveRange(p), c = "loss")

-----------------------------------------------------------------------------
(* Coverage *)

Positions(p) == 0 .. p.period - 1

\* A bug: the position is never wrapped.
LaterUnwrapped(p, pos, sec) == pos + sec

\* positiveMod: the position of an instant sec seconds after position pos.
Later(p, pos, sec) == (pos + sec) % p.period

ScheduledCoverage(p, pos) ==
  LET open == IF Periodic(p) THEN p.window ELSE p.period IN
  IF pos < open
  THEN [inCoverage |-> TRUE, elapsed |-> pos, until |-> open - pos, inBlockage |-> FALSE]
  ELSE [inCoverage |-> FALSE, elapsed |-> pos - open, until |-> p.period - pos,
        inBlockage |-> FALSE]

ActiveBlockages(p, pos) ==
  {b \in {p.blockages[i] : i \in DOMAIN p.blockages} : b.offset <= pos /\ pos < End(b)}

\* A bug: the time until the next transition reveals the next blockage.
CoverageForeseen(p, pos) ==
  LET scheduled == ScheduledCoverage(p, pos)
      ahead == {b \in {p.blockages[i] : i \in DOMAIN p.blockages} :
                  pos < b.offset /\ b.offset < pos + scheduled.until}
      next == CHOOSE a \in ahead : \A b \in ahead : a.offset <= b.offset
  IN IF scheduled.inCoverage /\ ActiveBlockages(p, pos) = {} /\ ahead # {}
     THEN [scheduled EXCEPT !.until = next.offset - pos]
     ELSE IF scheduled.inCoverage /\ ActiveBlockages(p, pos) # {}
     THEN LET b == CHOOSE a \in ActiveBlockages(p, pos) : TRUE IN
          [inCoverage |-> FALSE, elapsed |-> pos - b.offset, until |-> End(b) - pos,
           inBlockage |-> TRUE]
     ELSE scheduled

\* A blockage matters only while the schedule has coverage.
Coverage(p, pos) ==
  LET scheduled == ScheduledCoverage(p, pos) IN
  IF scheduled.inCoverage /\ ActiveBlockages(p, pos) # {}
  THEN LET b == CHOOSE a \in ActiveBlockages(p, pos) : TRUE IN
       [inCoverage |-> FALSE, elapsed |-> pos - b.offset, until |-> End(b) - pos,
        inBlockage |-> TRUE]
  ELSE scheduled

-----------------------------------------------------------------------------
(* Link state *)

\* Linear interpolation.  The division is exact in every profile considered.
EvaluateCurve(points, offset) ==
  LET last == points[Len(points)] IN
  IF offset >= last.offset
  THEN last.value
  ELSE LET i == CHOOSE k \in 1 .. Len(points) - 1 :
                  points[k].offset <= offset /\ offset < points[k + 1].offset
           prev == points[i]
           curr == points[i + 1]
       IN prev.value + ((offset - prev.offset) * (curr.value - prev.value))
                         \div (curr.offset - prev.offset)

\* The value of Evaluate out of coverage, where every field is NaN.
NaN == [c \in Impairments |-> -1]

LinkStates == [Impairments -> Nat]

LinkState(p, pos) ==
  LET cov == Coverage(p, pos) IN
  IF cov.inCoverage
  THEN [c \in Impairments |-> EvaluateCurve(p.curves[c], cov.elapsed)]
  ELSE NaN

-----------------------------------------------------------------------------
\* A bug: any outage is taken for a gap between two windows.
LookaheadOfGaps(p, pos) ==
  LET cov == Coverage(p, pos) IN
  IF cov.inCoverage THEN [open |-> -cov.elapsed, close |-> cov.until]
  ELSE [open |-> cov.until, close |-> cov.until + p.window]

(* Lookahead: when the window opens and closes.  Periodic profiles only; in *)
(* continuous mode it predicts nothing.                                    *)
Lookahead(p, pos) ==
  LET cov == Coverage(p, pos)
      scheduled == ScheduledCoverage(p, pos)
  IN
  CASE cov.inCoverage ->
         [open |-> -cov.elapsed, close |-> cov.until]
    [] ~cov.inCoverage /\ ~scheduled.inCoverage ->
         [open |-> cov.until, close |-> cov.until + p.window]
    [] ~cov.inCoverage /\ scheduled.inCoverage /\ cov.until < scheduled.until ->
         [open |-> cov.until, close |-> scheduled.until]
    [] OTHER ->
         LET nextOpen == scheduled.until + (p.period - p.window) IN
         [open |-> nextOpen, close |-> nextOpen + p.window]
=============================================================================
