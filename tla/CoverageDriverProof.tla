------------------------- MODULE CoverageDriverProof -------------------------
(***************************************************************************)
(* Theorems about the driver loop over any validated profiles.  The lemmas *)
(* on profiles rest on the least-number principle: what Validate checks of *)
(* neighbours in a list holds of any two, and a curve has a segment for    *)
(* every offset.  The inductive invariant relates the loop's memory (the   *)
(* previous coverage, the two flags, the last published link state) to     *)
(* what subscribers have heard.                                            *)
(***************************************************************************)
EXTENDS CoverageDriver, TLAPS, WellFoundedInduction

-----------------------------------------------------------------------------
(* Arithmetic *)

\* A set of natural numbers has a least element.
LEMMA LeastNatural ==
  ASSUME NEW T \in SUBSET Nat, T # {}
  PROVE  \E n \in T : \A m \in T : n <= m
<1> DEFINE R == {mn \in Nat \X Nat : mn[1] < mn[2]}
<1>1. IsWellFoundedOn(R, Nat)
  <2>1. OpToRel(<, Nat) = R
    BY DEF OpToRel
  <2> QED
    BY <2>1, NatLessThanWellFounded, Zenon
<1> HIDE DEF R
<1>2. PICK n \in T : \A m \in T : ~(<<m, n>> \in R)
  BY <1>1, WFMin
<1>3. \A i, j \in Nat : <<i, j>> \in R <=> i < j
  BY DEF R
<1>4. n \in Nat /\ \A m \in T : m \in Nat
  OBVIOUS
<1>5. \A m \in T : ~(m < n)
  BY <1>2, <1>3, <1>4
<1> QED
  BY <1>4, <1>5

\* Division with remainder.
LEMMA Division ==
  ASSUME NEW n \in Int, NEW d \in Nat \ {0}
  PROVE  /\ n \div d \in Int
         /\ n % d \in 0 .. d - 1
         /\ n = d * (n \div d) + (n % d)
OBVIOUS

\* Interpolating between two natural numbers, inside the segment, gives one.
LEMMA InterpolationNat ==
  ASSUME NEW x \in Nat, NEW d \in Nat, x < d, NEW v \in Nat, NEW w \in Nat
  PROVE  v + (x * (w - v)) \div d \in Nat
<1> DEFINE n == x * (w - v)
           q == n \div d
<1>1. n \in Int /\ q \in Int /\ n = d * q + (n % d) /\ n % d < d
  BY Division
<1>2. x * w >= 0 /\ x * v <= d * v
  OBVIOUS
<1>3. n = x * w - x * v
  OBVIOUS
<1>4. d * q > -(d * v) - d
  BY <1>1, <1>2, <1>3
<1>5. d * (q + v + 1) > 0
  BY <1>1, <1>4
<1>6. q + v + 1 > 0
  BY <1>1, <1>5
<1> QED
  BY <1>1, <1>6

\* A later position, before and at the end of the cycle.
LEMMA LaterPosition ==
  ASSUME NEW p, p.period \in Nat \ {0}, NEW pos \in Positions(p), NEW sec \in Nat
  PROVE  /\ Later(p, pos, sec) \in Positions(p)
         /\ pos + sec < p.period => Later(p, pos, sec) = pos + sec
         /\ pos + sec = p.period => Later(p, pos, sec) = 0
BY DEF Later, Positions

-----------------------------------------------------------------------------
(* Profiles *)

\* What Validate guarantees of the numbers of a profile.
LEMMA ValidFacts ==
  ASSUME NEW p \in Profile, Valid(p)
  PROVE  /\ p.period \in Nat \ {0}
         /\ p.lookahead \in Nat
         /\ CurveRange(p) \in 1 .. p.period
         /\ Periodic(p) \in BOOLEAN
         /\ Periodic(p) => /\ p.window = CurveRange(p)
                           /\ p.lookahead <= p.period - p.window
         /\ \A i \in DOMAIN p.blockages :
              /\ p.blockages[i] \in Blockage
              /\ p.blockages[i].offset >= 0
              /\ p.blockages[i].duration > 0
              /\ End(p.blockages[i]) \in Int
              /\ End(p.blockages[i]) <= p.period
              /\ p.blockages[i].offset < End(p.blockages[i])
<1>1. p.period \in Int /\ p.window \in Int /\ p.lookahead \in Int /\ p.blockages \in Seq(Blockage)
  BY DEF Profile
<1>2. \A i \in DOMAIN p.blockages : p.blockages[i] \in Blockage
  BY <1>1
<1>3. \A i \in DOMAIN p.blockages :
        /\ p.blockages[i].offset \in Int /\ p.blockages[i].duration \in Int
  BY <1>2 DEF Blockage
<1> QED
  BY <1>1, <1>2, <1>3 DEF Valid, ValidSchedule, ValidBlockages, CurveRange, Periodic, End

\* Blockages are in ascending order and do not overlap: that each begins after
\* the previous one ends, which Validate checks, is enough for any two.
LEMMA BlockagesDisjoint ==
  ASSUME NEW p \in Profile, Valid(p),
         NEW i \in DOMAIN p.blockages, NEW j \in DOMAIN p.blockages, i < j
  PROVE  End(p.blockages[i]) <= p.blockages[j].offset
<1> DEFINE B == p.blockages
           T == {k \in DOMAIN B : i < k /\ B[k].offset < End(B[i])}
<1>1. DOMAIN B = 1 .. Len(B) /\ Len(B) \in Nat
  BY DEF Profile
<1>2. \A k \in DOMAIN B : /\ B[k].offset \in Int /\ End(B[k]) \in Int
                          /\ B[k].offset < End(B[k])
                          /\ k > 1 => B[k].offset >= End(B[k - 1])
  BY ValidFacts DEF Valid, ValidBlockages, Blockage
<1>3. SUFFICES ASSUME T # {} PROVE FALSE
  BY <1>2
<1>4. T \in SUBSET Nat
  BY <1>1
<1>5. PICK k \in T : \A m \in T : k <= m
  BY <1>3, <1>4, LeastNatural
<1>6. k \in DOMAIN B /\ k - 1 \in DOMAIN B /\ i <= k - 1 /\ k > 1
  BY <1>1, <1>5
<1>7. CASE k - 1 = i
  BY <1>2, <1>5, <1>6, <1>7
<1>8. CASE k - 1 # i
  <2>1. k - 1 \notin T
    BY <1>1, <1>5, <1>6
  <2>2. B[k - 1].offset >= End(B[i])
    BY <1>1, <1>2, <1>6, <1>8, <2>1
  <2> QED
    BY <1>2, <1>5, <1>6, <2>2
<1> QED
  BY <1>7, <1>8

\* At any position at most one blockage is active (the comment of activeBlockage
\* in scheduler.go), so which one the search finds does not matter.
THEOREM AtMostOneBlockage ==
  ASSUME NEW p \in Profile, Valid(p), NEW pos \in Positions(p),
         NEW a \in ActiveBlockages(p, pos), NEW b \in ActiveBlockages(p, pos)
  PROVE  a = b
<1>1. PICK i \in DOMAIN p.blockages : a = p.blockages[i]
  BY DEF ActiveBlockages
<1>2. PICK j \in DOMAIN p.blockages : b = p.blockages[j]
  BY DEF ActiveBlockages
<1>3. i \in Int /\ j \in Int
  BY DEF Profile
<1>4. /\ a.offset <= pos /\ pos < End(a) /\ b.offset <= pos /\ pos < End(b)
  BY DEF ActiveBlockages
<1>5. /\ a.offset \in Int /\ End(a) \in Int /\ b.offset \in Int /\ End(b) \in Int
      /\ pos \in Int
  BY <1>1, <1>2, ValidFacts DEF Blockage, Positions
<1>6. ~(i < j)
  <2>1. SUFFICES ASSUME i < j PROVE FALSE
    OBVIOUS
  <2>2. End(a) <= b.offset
    BY <1>1, <1>2, <2>1, BlockagesDisjoint
  <2> QED
    BY <1>4, <1>5, <2>2
<1>7. ~(j < i)
  <2>1. SUFFICES ASSUME j < i PROVE FALSE
    OBVIOUS
  <2>2. End(b) <= a.offset
    BY <1>1, <1>2, <2>1, BlockagesDisjoint
  <2> QED
    BY <1>4, <1>5, <2>2
<1> QED
  BY <1>1, <1>2, <1>3, <1>6, <1>7

-----------------------------------------------------------------------------
(* Coverage *)

\* The schedule alone: in coverage up to the end of the window, or of the cycle.
LEMMA ScheduledFacts ==
  ASSUME NEW p \in Profile, Valid(p), NEW pos \in Positions(p)
  PROVE  LET s == ScheduledCoverage(p, pos) IN
         /\ s.inCoverage \in BOOLEAN
         /\ s.inCoverage <=> pos < CurveRange(p)
         /\ s.inCoverage => s.elapsed = pos /\ s.until = CurveRange(p) - pos
         /\ ~s.inCoverage => Periodic(p) /\ s.until = p.period - pos
         /\ s.elapsed \in Nat
         /\ ~s.inBlockage
BY ValidFacts DEF ScheduledCoverage, CurveRange, Positions

\* Coverage is the schedule's, unless a blockage cuts into it.
LEMMA CoverageCases ==
  ASSUME NEW p \in Profile, Valid(p), NEW pos \in Positions(p)
  PROVE  LET s == ScheduledCoverage(p, pos)
             c == Coverage(p, pos)
         IN \/ /\ c = s
               /\ ~s.inCoverage \/ ActiveBlockages(p, pos) = {}
            \/ /\ s.inCoverage
               /\ \E b \in ActiveBlockages(p, pos) :
                    c = [inCoverage |-> FALSE, elapsed |-> pos - b.offset,
                         until |-> End(b) - pos, inBlockage |-> TRUE]
<1> DEFINE A == ActiveBlockages(p, pos)
           b == CHOOSE a \in A : TRUE
<1>1. CASE ScheduledCoverage(p, pos).inCoverage /\ A # {}
  <2>1. b \in A
    BY <1>1
  <2> QED
    BY <1>1, <2>1 DEF Coverage
<1>2. CASE ~(ScheduledCoverage(p, pos).inCoverage /\ A # {})
  BY <1>2 DEF Coverage
<1> QED
  BY <1>1, <1>2

\* An active blockage is one of the profile's, and the position lies inside it.
LEMMA ActiveFacts ==
  ASSUME NEW p \in Profile, Valid(p), NEW pos \in Positions(p),
         NEW b \in ActiveBlockages(p, pos)
  PROVE  /\ b.offset \in Nat /\ End(b) \in Nat
         /\ b.offset <= pos /\ pos < End(b) /\ End(b) <= p.period
         /\ \E i \in DOMAIN p.blockages : b = p.blockages[i]
BY ValidFacts DEF ActiveBlockages, Blockage, Positions

\* The fields of a coverage state: the next transition is never now.
LEMMA CoverageFacts ==
  ASSUME NEW p \in Profile, Valid(p), NEW pos \in Positions(p)
  PROVE  LET c == Coverage(p, pos) IN
         /\ c.inCoverage \in BOOLEAN
         /\ c.until \in Nat \ {0}
         /\ c.elapsed \in Nat
         /\ c.inCoverage => /\ ScheduledCoverage(p, pos).inCoverage
                            /\ ActiveBlockages(p, pos) = {}
                            /\ c.elapsed = pos /\ c.until = CurveRange(p) - pos
<1> DEFINE s == ScheduledCoverage(p, pos)
           c == Coverage(p, pos)
<1>1. pos \in Nat /\ CurveRange(p) \in Nat /\ p.period \in Nat /\ pos < p.period
  BY ValidFacts DEF Positions
<1>2. CASE c = s /\ (~s.inCoverage \/ ActiveBlockages(p, pos) = {})
  BY <1>1, <1>2, ScheduledFacts
<1>3. ASSUME s.inCoverage, NEW b \in ActiveBlockages(p, pos),
             c = [inCoverage |-> FALSE, elapsed |-> pos - b.offset,
                  until |-> End(b) - pos, inBlockage |-> TRUE]
      PROVE  c.inCoverage = FALSE /\ c.until \in Nat \ {0} /\ c.elapsed \in Nat
  BY <1>1, <1>3, ActiveFacts
<1> QED
  BY <1>2, <1>3, CoverageCases

\* A curve that Validate accepts has a natural value at every offset: the search
\* for the segment succeeds, and interpolation stays inside it.
LEMMA CurveNat ==
  ASSUME NEW points \in Seq(Point), NEW maxOffset \in Nat, NEW isPercent,
         ValidCurve(points, maxOffset, isPercent), NEW offset \in Nat
  PROVE  EvaluateCurve(points, offset) \in Nat
<1> DEFINE n == Len(points)
<1>1. n \in Nat /\ n >= 1 /\ DOMAIN points = 1 .. n
  BY DEF ValidCurve
<1>2. \A k \in 1 .. n : points[k].offset \in Int /\ points[k].value \in Nat
  <2>1. \A k \in 1 .. n : points[k] \in Point
    BY <1>1
  <2>2. \A k \in 1 .. n : points[k].value >= 0
    BY <1>1 DEF ValidCurve
  <2> QED
    BY <2>1, <2>2 DEF Point
<1>3. \A k \in 1 .. n : k > 1 => points[k].offset > points[k - 1].offset
  BY <1>1 DEF ValidCurve
<1>4. CASE offset >= points[n].offset
  <2>1. points[n].value \in Nat
    BY <1>1, <1>2
  <2>2. EvaluateCurve(points, offset) = points[n].value
    BY <1>4, Zenon DEF EvaluateCurve
  <2> QED
    BY <2>1, <2>2
<1>5. CASE offset < points[n].offset
  <2> DEFINE T == {k \in 1 .. n : offset < points[k].offset}
             S(k) == points[k].offset <= offset /\ offset < points[k + 1].offset
             i == CHOOSE k \in 1 .. n - 1 : S(k)
  <2>1. n \in T /\ T \in SUBSET Nat
    BY <1>1, <1>5
  <2>2. PICK k \in T : \A m \in T : k <= m
    BY <2>1, LeastNatural
  <2>3. k # 1
    BY <2>2, <1>1 DEF ValidCurve
  <2>4. k \in 2 .. n /\ k - 1 \in 1 .. n - 1 /\ k - 1 \notin T
    BY <1>1, <2>2, <2>3
  <2>5. S(k - 1)
    BY <1>1, <1>2, <2>2, <2>4
  <2>6. i \in 1 .. n - 1 /\ S(i)
    BY <2>4, <2>5
  <2> HIDE DEF i
  <2>7. /\ points[i].offset \in Int /\ points[i].value \in Nat
        /\ points[i + 1].offset \in Int /\ points[i + 1].value \in Nat
    BY <1>1, <1>2, <2>6
  <2> DEFINE x == offset - points[i].offset
             d == points[i + 1].offset - points[i].offset
             v == points[i].value
             w == points[i + 1].value
  <2>8. x \in Nat /\ d \in Nat /\ x < d /\ v \in Nat /\ w \in Nat
    <3>1. points[i].offset <= offset /\ offset < points[i + 1].offset
      BY <2>6
    <3> DEFINE a == points[i].offset
               b == points[i + 1].offset
    <3>2. a \in Int /\ b \in Int /\ a <= offset /\ offset < b /\ offset \in Int
      BY <2>7, <3>1
    <3> HIDE DEF a, b
    <3>3. offset - a \in Nat /\ b - a \in Nat /\ offset - a < b - a
      BY <3>2
    <3> QED
      BY <2>7, <3>3 DEF a, b
  <2>9. EvaluateCurve(points, offset) = v + (x * (w - v)) \div d
    <3>1. ~(offset >= points[n].offset)
      BY <1>1, <1>2, <1>5
    <3> QED
      BY <3>1, Zenon DEF EvaluateCurve, i
  <2> HIDE DEF x, d, v, w
  <2> QED
    BY <2>8, <2>9, InterpolationNat
<1> QED
  BY <1>1, <1>2, <1>4, <1>5

\* In coverage every impairment has a value: the loop never offers NaN to the bus.
LEMMA LinkStateReal ==
  ASSUME NEW p \in Profile, Valid(p), NEW pos \in Positions(p), Coverage(p, pos).inCoverage
  PROVE  LinkState(p, pos) \in LinkStates
<1>1. \A c \in Impairments : EvaluateCurve(p.curves[c], Coverage(p, pos).elapsed) \in Nat
  <2> TAKE c \in Impairments
  <2>1. p.curves[c] \in Seq(Point) /\ CurveRange(p) \in Nat
    BY ValidFacts DEF Profile
  <2>2. ValidCurve(p.curves[c], CurveRange(p), c = "loss")
    BY DEF Valid
  <2> QED
    BY <2>1, <2>2, CurveNat, CoverageFacts
<1> QED
  BY <1>1 DEF LinkState, LinkStates

\* While the next transition is further away than the time that passes, the
\* scheduled state stays, and an outage lasts.
LEMMA NothingHappensBefore ==
  ASSUME NEW p \in Profile, Valid(p), NEW pos \in Positions(p), NEW sec \in Nat,
         sec < Coverage(p, pos).until
  PROVE  LET now == Later(p, pos, sec) IN
         /\ Coverage(p, pos).inCoverage => ScheduledCoverage(p, now).inCoverage
         /\ ~Coverage(p, pos).inCoverage => ~Coverage(p, now).inCoverage
<1> DEFINE s == ScheduledCoverage(p, pos)
           c == Coverage(p, pos)
           now == Later(p, pos, sec)
<1>1. /\ pos \in Nat /\ pos < p.period /\ p.period \in Nat \ {0}
      /\ CurveRange(p) \in Nat /\ CurveRange(p) <= p.period
  BY ValidFacts DEF Positions
<1>2. now \in Positions(p) /\ (pos + sec < p.period => now = pos + sec)
  BY <1>1, LaterPosition
<1>3. CASE c.inCoverage
  <2>1. sec < CurveRange(p) - pos
    BY <1>3, CoverageFacts
  <2>2. now = pos + sec /\ now < CurveRange(p)
    BY <1>1, <1>2, <2>1
  <2> QED
    BY <1>2, <1>3, <2>2, ScheduledFacts
<1>4. CASE c = s /\ ~s.inCoverage
  <2>1. sec < p.period - pos /\ ~(pos < CurveRange(p))
    BY <1>4, ScheduledFacts
  <2>2. now = pos + sec /\ ~(now < CurveRange(p))
    BY <1>1, <1>2, <2>1
  <2>3. ~ScheduledCoverage(p, now).inCoverage
    BY <1>2, <2>2, ScheduledFacts
  <2> QED
    BY <1>2, <1>4, <2>3, CoverageFacts
<1>5. ASSUME NEW b \in ActiveBlockages(p, pos),
             c = [inCoverage |-> FALSE, elapsed |-> pos - b.offset,
                  until |-> End(b) - pos, inBlockage |-> TRUE]
      PROVE  ~Coverage(p, now).inCoverage
  <2>1. /\ b.offset \in Nat /\ End(b) \in Nat /\ b.offset <= pos /\ End(b) <= p.period
        /\ sec < End(b) - pos
    BY <1>5, ActiveFacts
  <2>2. now = pos + sec /\ b.offset <= now /\ now < End(b)
    BY <1>1, <1>2, <2>1
  <2>3. b \in ActiveBlockages(p, now)
    BY <2>2 DEF ActiveBlockages
  <2> QED
    BY <1>2, <2>3, CoverageFacts
<1>6. c.inCoverage \in BOOLEAN
  BY CoverageFacts
<1> QED
  BY <1>3, <1>4, <1>5, <1>6, CoverageCases

-----------------------------------------------------------------------------
(* The ends of outages *)

\* A cycle begins in coverage, unless a blockage begins with it.
LEMMA CycleStartCovered ==
  ASSUME NEW p \in Profile, Valid(p), Separate(p)
  PROVE  0 \in Positions(p) /\ Coverage(p, 0).inCoverage
<1>1. 0 \in Positions(p) /\ 0 < CurveRange(p)
  BY ValidFacts DEF Positions
<1>2. ActiveBlockages(p, 0) = {}
  <2>1. SUFFICES ASSUME NEW b \in ActiveBlockages(p, 0) PROVE FALSE
    OBVIOUS
  <2>2. b.offset \in Nat /\ b.offset <= 0 /\ b.offset > 0
    BY <1>1, ActiveFacts DEF Separate
  <2> QED
    BY <2>2
<1> QED
  BY <1>1, <1>2, ScheduledFacts, CoverageCases

\* A blockage that clears before the schedule's coverage ends gives way to
\* coverage, if no other begins at that instant.
LEMMA BlockageClears ==
  ASSUME NEW p \in Profile, Valid(p), Separate(p), NEW pos \in Positions(p),
         NEW b \in ActiveBlockages(p, pos), End(b) < CurveRange(p)
  PROVE  /\ End(b) - pos \in Nat
         /\ Later(p, pos, End(b) - pos) = End(b)
         /\ Coverage(p, End(b)).inCoverage
<1>1. /\ b.offset \in Nat /\ End(b) \in Nat /\ b.offset < End(b) /\ pos \in Nat /\ pos < End(b)
      /\ p.period \in Nat \ {0} /\ End(b) < p.period
  BY ActiveFacts, ValidFacts DEF Positions
<1>2. End(b) - pos \in Nat /\ End(b) \in Positions(p)
  BY <1>1 DEF Positions
<1>3. Later(p, pos, End(b) - pos) = End(b)
  <2>1. pos + (End(b) - pos) = End(b)
    BY <1>1
  <2> QED
    BY <1>1, <1>2, <2>1, LaterPosition
<1>4. PICK i \in DOMAIN p.blockages : b = p.blockages[i]
  BY ActiveFacts
<1>5. ActiveBlockages(p, End(b)) = {}
  <2>1. SUFFICES ASSUME NEW a \in ActiveBlockages(p, End(b)) PROVE FALSE
    OBVIOUS
  <2>2. a.offset \in Nat /\ End(a) \in Nat /\ a.offset <= End(b) /\ End(b) < End(a)
    BY <1>2, ActiveFacts
  <2>3. PICK j \in DOMAIN p.blockages : a = p.blockages[j]
    BY <1>2, ActiveFacts
  <2>4. i \in Nat /\ j \in Nat
    BY DEF Profile
  <2>5. a.offset # End(b)
    BY <1>4, <2>3 DEF Separate
  <2>6. CASE i < j
    BY <1>1, <1>4, <2>2, <2>3, <2>5, <2>6, BlockagesDisjoint
  <2>7. CASE j < i
    BY <1>1, <1>4, <2>2, <2>3, <2>7, BlockagesDisjoint
  <2>8. CASE i = j
    BY <1>4, <2>2, <2>3, <2>8
  <2> QED
    BY <2>4, <2>6, <2>7, <2>8
<1> QED
  BY <1>2, <1>3, <1>5, ScheduledFacts, CoverageCases

\* When every blockage clears inside the window, an outage ends when Coverage
\* says it does (scheduler.go: UntilNextTransitionSec).
LEMMA OutageEnds ==
  ASSUME NEW p \in Profile, Valid(p), Isolated(p), NEW pos \in Positions(p),
         ~Coverage(p, pos).inCoverage
  PROVE  Coverage(p, Later(p, pos, Coverage(p, pos).until)).inCoverage
<1> DEFINE s == ScheduledCoverage(p, pos)
           c == Coverage(p, pos)
<1>1. Separate(p)
  BY DEF Isolated
<1>2. pos \in Nat /\ pos < p.period /\ p.period \in Nat \ {0}
  BY ValidFacts DEF Positions
<1>3. CASE ~s.inCoverage
  <2>1. c = s /\ c.until = p.period - pos /\ c.until \in Nat
    BY <1>2, <1>3, ScheduledFacts, CoverageCases
  <2>2. Later(p, pos, c.until) = 0
    BY <1>2, <2>1, LaterPosition
  <2> QED
    BY <1>1, <2>2, CycleStartCovered
<1>4. CASE s.inCoverage
  <2>1. PICK b \in ActiveBlockages(p, pos) : c.until = End(b) - pos
    BY <1>4, CoverageCases
  <2>2. b.offset \in Nat /\ b.offset <= pos /\ pos < CurveRange(p) /\ CurveRange(p) \in Nat
    BY <1>4, ActiveFacts, ScheduledFacts, ValidFacts
  <2>3. b.offset < CurveRange(p)
    BY <1>2, <2>2
  <2>4. End(b) < CurveRange(p)
    BY <2>3, ActiveFacts DEF Isolated
  <2> QED
    BY <1>1, <2>1, <2>4, BlockageClears
<1> QED
  BY <1>3, <1>4, ScheduledFacts

\* One cycle more does not change a position.
LEMMA WrapOnce ==
  ASSUME NEW n \in Nat \ {0}, NEW a \in 0 .. n
  PROVE  (n + a) % n = a % n /\ 0 % n = 0
OBVIOUS

\* The prediction of Lookahead for an outage: the first instant of coverage.
LEMMA NextOpening ==
  ASSUME NEW p \in Profile, Valid(p), Periodic(p), Separate(p), NEW pos \in Positions(p),
         ~Coverage(p, pos).inCoverage
  PROVE  LET open == Lookahead(p, pos).open IN
         /\ Coverage(p, Later(p, pos, open)).inCoverage
         /\ \A sec \in 0 .. open - 1 : ~Coverage(p, Later(p, pos, sec)).inCoverage
<1> DEFINE s == ScheduledCoverage(p, pos)
           c == Coverage(p, pos)
           w == p.window
<1>1. /\ pos \in Nat /\ pos < p.period /\ p.period \in Nat \ {0} /\ c.until \in Nat
      /\ w \in 1 .. p.period /\ w = CurveRange(p)
  BY ValidFacts, CoverageFacts DEF Positions
<1>2. \A sec \in 0 .. c.until - 1 : ~Coverage(p, Later(p, pos, sec)).inCoverage
  BY <1>1, NothingHappensBefore
<1>3. /\ Coverage(p, Later(p, pos, p.period - pos)).inCoverage
      /\ p.period - pos \in Nat
  BY <1>1, LaterPosition, CycleStartCovered
<1>4. CASE ~s.inCoverage
  <2>1. Lookahead(p, pos).open = c.until
    BY <1>4 DEF Lookahead
  <2>2. c.until = p.period - pos
    BY <1>4, ScheduledFacts, CoverageCases
  <2> QED
    BY <1>2, <1>3, <2>1, <2>2
<1>5. CASE s.inCoverage /\ c.until < s.until
  <2>1. Lookahead(p, pos).open = c.until
    BY <1>5 DEF Lookahead
  <2>2. PICK b \in ActiveBlockages(p, pos) : c.until = End(b) - pos
    BY <1>5, CoverageCases
  <2>3. End(b) \in Nat /\ s.until = w - pos
    BY <1>1, <1>5, ActiveFacts, ScheduledFacts
  <2>4. End(b) < CurveRange(p)
    BY <1>1, <1>5, <2>2, <2>3
  <2> QED
    BY <1>2, <2>1, <2>2, <2>4, BlockageClears
<1>6. CASE s.inCoverage /\ ~(c.until < s.until)
  <2>1. Lookahead(p, pos).open = s.until + (p.period - w)
    BY <1>6 DEF Lookahead
  <2>2. PICK b \in ActiveBlockages(p, pos) : c.until = End(b) - pos
    BY <1>6, CoverageCases
  <2>3. /\ End(b) \in Nat /\ s.until = w - pos /\ b.offset \in Nat /\ b.offset <= pos
    BY <1>1, <1>6, ActiveFacts, ScheduledFacts
  <2>4. End(b) >= w /\ Lookahead(p, pos).open = p.period - pos
    BY <1>1, <1>6, <2>1, <2>2, <2>3
  <2>5. ASSUME NEW sec \in 0 .. p.period - pos - 1
        PROVE  ~Coverage(p, Later(p, pos, sec)).inCoverage
    <3>1. Later(p, pos, sec) = pos + sec /\ pos + sec \in Positions(p)
      <4>1. sec \in Nat /\ pos + sec < p.period /\ pos + sec \in Nat
        BY <1>1
      <4>2. Later(p, pos, sec) = pos + sec
        BY <1>1, <4>1, LaterPosition
      <4> QED
        BY <1>1, <4>1, <4>2 DEF Positions
    <3>2. CASE pos + sec < w
      <4>1. b \in ActiveBlockages(p, pos + sec)
        BY <1>1, <2>3, <2>4, <3>2 DEF ActiveBlockages
      <4> QED
        BY <3>1, <4>1, CoverageFacts
    <3>3. CASE ~(pos + sec < w)
      <4>1. ~ScheduledCoverage(p, pos + sec).inCoverage
        BY <1>1, <3>1, <3>3, ScheduledFacts
      <4> QED
        BY <3>1, <4>1, CoverageFacts
    <3> QED
      BY <3>2, <3>3
  <2> QED
    BY <1>3, <2>4, <2>5
<1> QED
  BY <1>4, <1>5, <1>6, ScheduledFacts

\* The prediction of Lookahead for the scheduled closing.
LEMMA NextClosing ==
  ASSUME NEW p \in Profile, Valid(p), Periodic(p), NEW pos \in Positions(p)
  PROVE  LET l == Lookahead(p, pos) IN
         /\ Later(p, pos, l.close) = p.window % p.period
         /\ l.close > 0 /\ l.close > l.open /\ l.close - l.open <= p.window
         /\ Coverage(p, pos).inCoverage => Later(p, pos, l.open) = 0
<1> DEFINE s == ScheduledCoverage(p, pos)
           c == Coverage(p, pos)
           w == p.window
           l == Lookahead(p, pos)
<1>1. /\ pos \in Nat /\ pos < p.period /\ p.period \in Nat \ {0}
      /\ c.until \in Nat \ {0} /\ c.inCoverage \in BOOLEAN /\ s.inCoverage \in BOOLEAN
      /\ w \in 1 .. p.period /\ w = CurveRange(p)
  BY ValidFacts, CoverageFacts, ScheduledFacts DEF Positions
<1>2. (p.period + w) % p.period = w % p.period /\ 0 % p.period = 0
  <2>1. w \in 0 .. p.period
    BY <1>1
  <2> QED
    BY <1>1, <2>1, WrapOnce
<1>3. CASE c.inCoverage
  <2>1. l = [open |-> -c.elapsed, close |-> c.until]
    BY <1>3 DEF Lookahead
  <2>2. c.elapsed = pos /\ c.until = w - pos
    BY <1>1, <1>3, CoverageFacts
  <2>3. pos + l.close = w /\ pos + l.open = 0
    BY <1>1, <2>1, <2>2
  <2> QED
    BY <1>1, <1>2, <2>1, <2>2, <2>3 DEF Later
<1>4. CASE ~c.inCoverage /\ s.inCoverage /\ c.until < s.until
  <2>1. l = [open |-> c.until, close |-> s.until]
    BY <1>4 DEF Lookahead
  <2>2. s.until = w - pos
    BY <1>1, <1>4, ScheduledFacts
  <2>3. pos + l.close = w
    BY <1>1, <2>1, <2>2
  <2> QED
    BY <1>1, <1>4, <2>1, <2>2, <2>3 DEF Later
<1>5. CASE ~c.inCoverage /\ ~(s.inCoverage /\ c.until < s.until)
  <2>1. l = [open |-> p.period - pos, close |-> p.period - pos + w]
    <3>1. CASE ~s.inCoverage
      <4>1. c.until = p.period - pos
        BY <3>1, ScheduledFacts, CoverageCases
      <4> QED
        BY <1>5, <3>1, <4>1 DEF Lookahead
    <3>2. CASE s.inCoverage
      <4>1. s.until = w - pos
        BY <1>1, <3>2, ScheduledFacts
      <4>2. s.until + (p.period - w) = p.period - pos
        BY <1>1, <4>1
      <4> QED
        BY <1>5, <3>2, <4>2 DEF Lookahead
    <3> QED
      BY <1>1, <3>1, <3>2
  <2>2. pos + l.close = p.period + w
    BY <1>1, <2>1
  <2> QED
    BY <1>1, <1>2, <1>5, <2>1, <2>2 DEF Later
<1> QED
  BY <1>1, <1>3, <1>4, <1>5

-----------------------------------------------------------------------------
(* The driver *)

\* The loop remembers the coverage it has announced.
PrevCurrent ==
  prevInCoverageSet =>
    /\ prevInCoverage = CoverageNow.inCoverage
    /\ heard \cap Edges = {IF prevInCoverage THEN "window_opened" ELSE "window_closed"}

\* Before the first tick nothing has been said.
NothingYet ==
  ~prevInCoverageSet =>
    /\ heard = {} /\ lastVal = Silent
    /\ published.notice = None

\* The flags are the notices heard since the last edge.
FlagsMatchHeard ==
  /\ lookaheadCloseFired <=> "window_closing" \in heard
  /\ lookaheadOpenFired <=> "window_opening" \in heard

\* A transition that is near has been announced.
ImminentIsFired ==
  prevInCoverageSet /\ Imminent(CoverageNow, profile.lookahead) =>
    IF CoverageNow.inCoverage THEN lookaheadCloseFired ELSE lookaheadOpenFired

\* A notice is published only when its transition is near.
NoticeIsImminent ==
  /\ published.notice = "window_closing" =>
       CoverageNow.inCoverage /\ Imminent(CoverageNow, profile.lookahead)
  /\ published.notice = "window_opening" =>
       ~CoverageNow.inCoverage /\ Imminent(CoverageNow, profile.lookahead)

\* The inductive invariant.
IInv ==
  /\ TypeOK
  /\ Valid(profile)
  /\ PrevCurrent
  /\ NothingYet
  /\ FlagsMatchHeard
  /\ ImminentIsFired
  /\ NoticeIsImminent
  /\ shown = lastVal
  /\ LinkFresh

-----------------------------------------------------------------------------
(* The initial states and every tick establish the invariant *)

\* The loop starts in the invariant.
LEMMA InitInv == Init => IInv
<1> SUFFICES ASSUME Init PROVE IInv
  OBVIOUS
<1>1. profile \in Profile /\ profile \in Profiles /\ Valid(profile)
  BY CoverageDriverAssumption DEF Init
<1>2. TypeOK
  <2>1. ThrottleTypeOK
    BY ThrottleAssumption DEF Init, LoopInit, ThrottleInit, ThrottleTypeOK
  <2>2. published \in [edge : Edges \cup {None}, notice : Notices \cup {None},
                       link : LinkStates \cup {Silent}]
    BY DEF Init, LoopInit
  <2> QED
    BY <1>1, <2>1, <2>2 DEF Init, LoopInit, TypeOK, LoopTypeOK
<1>3. PrevCurrent /\ NothingYet /\ FlagsMatchHeard /\ ImminentIsFired /\ NoticeIsImminent
  BY DEF Init, LoopInit, ThrottleInit, PrevCurrent, NothingYet, FlagsMatchHeard,
         ImminentIsFired, NoticeIsImminent, None
<1>4. shown = lastVal /\ LinkFresh
  BY DEF Init, LoopInit, ThrottleInit, LinkFresh
<1> QED
  BY <1>1, <1>2, <1>3, <1>4 DEF IInv

\* What one tick does, once the position it evaluates has a name.
LEMMA TickFacts ==
  ASSUME IInv, NEW gap \in 1 .. MaxGap, DriverTick(gap)
  PROVE  /\ profile' = profile /\ profile \in Profile /\ profile \in Profiles
         /\ cyclePos \in Positions(profile) /\ cyclePos' \in Positions(profile)
         /\ cyclePos' = Later(profile, cyclePos, gap)
         /\ gap \in Nat \ {0} /\ gap <= MaxGap /\ MaxGap \in Nat
         /\ CoverageNow' = Coverage(profile, cyclePos')
         /\ Tick(LinkState(profile, cyclePos'), CoverageNow', profile.lookahead, gap)
         /\ CoverageNow'.inCoverage \in BOOLEAN
         /\ profile.lookahead \in Nat
<1>1. profile \in Profile /\ profile \in Profiles /\ Valid(profile)
      /\ cyclePos \in Positions(profile)
  BY CoverageDriverAssumption DEF IInv, TypeOK
<1>2. gap \in Nat \ {0} /\ gap <= MaxGap /\ MaxGap \in Nat
  BY CoverageDriverAssumption
<1>3. cyclePos' = Later(profile, cyclePos, gap) /\ profile' = profile
  BY DEF DriverTick
<1>4. cyclePos' \in Positions(profile) /\ profile.lookahead \in Nat
  BY <1>1, <1>2, <1>3, ValidFacts, LaterPosition
<1>5. CoverageNow' = Coverage(profile, cyclePos')
  BY <1>3 DEF CoverageNow
<1>6. CoverageNow'.inCoverage \in BOOLEAN
  BY <1>1, <1>4, <1>5, CoverageFacts
<1> QED
  BY <1>1, <1>2, <1>3, <1>4, <1>5, <1>6 DEF DriverTick

\* The throttle's part of a tick: in coverage the state offered is published, or
\* close enough to one published less than Interval ago.
LEMMA LinkStep ==
  ASSUME IInv, NEW gap \in 1 .. MaxGap, DriverTick(gap)
  PROVE  /\ ThrottleTypeOK'
         /\ published'.link \in LinkStates \cup {Silent}
         /\ shown' = lastVal'
         /\ LinkFresh'
<1> DEFINE link == LinkState(profile, cyclePos')
           cov == CoverageNow'
<1>1. /\ lastVal \in LinkStates \cup {Silent} /\ lastAge \in 0 .. Interval
      /\ Interval \in Nat \ {0} /\ Silent \notin LinkStates /\ gap \in Nat \ {0}
      /\ shown = lastVal /\ profile' = profile
  BY ThrottleAssumption, TickFacts DEF IInv, TypeOK, LoopTypeOK, ThrottleTypeOK
<1>2. Aged(gap) \in 0 .. Interval
  BY <1>1 DEF Aged
<1>3. /\ published'.link = (IF cov.inCoverage /\ Passes(link, gap) THEN link ELSE Silent)
      /\ IF cov.inCoverage THEN Offer(link, gap) ELSE Idle(gap)
  <2>1. Tick(link, cov, profile.lookahead, gap)
    BY TickFacts
  <2> HIDE DEF link, cov
  <2> QED
    BY <2>1 DEF Tick
<1>4. shown' = (IF published'.link # Silent THEN published'.link ELSE shown)
  BY DEF DriverTick
<1>5. CASE ~cov.inCoverage
  <2>1. lastVal' = lastVal /\ lastAge' = Aged(gap) /\ published'.link = Silent
    BY <1>3, <1>5 DEF Idle
  <2> QED
    BY <1>1, <1>2, <1>4, <1>5, <2>1 DEF ThrottleTypeOK, LinkFresh
<1>6. CASE cov.inCoverage
  <2>1. link \in LinkStates /\ ~HasNaN(link)
    <3>1. link \in LinkStates
      BY <1>6, LinkStateReal, TickFacts DEF IInv
    <3>2. \A c \in Impairments : ~(link[c] < 0)
      BY <3>1 DEF LinkStates
    <3> QED
      BY <3>1, <3>2 DEF HasNaN
  <2>2. ~Significant(link, link)
    BY DEF Significant, Differs
  <2>3. LinkState(profile, cyclePos)' = link
    BY <1>1 DEF LinkState
  <2>4. CASE Passes(link, gap)
    <3>1. lastVal' = link /\ lastAge' = 0 /\ published'.link = link
      BY <1>3, <1>6, <2>4 DEF Offer
    <3> QED
      BY <1>1, <1>4, <2>1, <2>2, <2>3, <3>1 DEF ThrottleTypeOK, LinkFresh
  <2>5. CASE ~Passes(link, gap)
    <3>1. lastVal' = lastVal /\ lastAge' = Aged(gap) /\ published'.link = Silent
      BY <1>3, <1>6, <2>5 DEF Offer
    <3>2. ~ShouldPublish(link, gap)
      BY <2>1, <2>5 DEF Passes
    <3>3. lastVal # Silent /\ Aged(gap) < Interval /\ ~Significant(lastVal, link)
      BY <1>1, <1>2, <3>2 DEF ShouldPublish
    <3> QED
      BY <1>1, <1>2, <1>4, <2>3, <3>1, <3>3 DEF ThrottleTypeOK, LinkFresh
  <2> QED
    BY <2>4, <2>5
<1> QED
  BY <1>5, <1>6, TickFacts

\* Between two ticks that are at most a lookahead apart, a scheduled closing and
\* an opening were imminent at the first.
LEMMA ChangeWasImminent ==
  ASSUME NEW p \in Profile, Valid(p), NEW pos \in Positions(p),
         NEW gap \in Nat \ {0}, gap <= p.lookahead
  PROVE  LET now == Later(p, pos, gap) IN
         /\ Coverage(p, pos).inCoverage /\ ~ScheduledCoverage(p, now).inCoverage
              => Imminent(Coverage(p, pos), p.lookahead)
         /\ ~Coverage(p, pos).inCoverage /\ Coverage(p, now).inCoverage
              => Imminent(Coverage(p, pos), p.lookahead)
<1>1. Coverage(p, pos).until \in Nat /\ p.lookahead \in Nat
  BY CoverageFacts, ValidFacts
<1>2. CASE gap < Coverage(p, pos).until
  BY <1>2, NothingHappensBefore
<1>3. CASE ~(gap < Coverage(p, pos).until)
  BY <1>1, <1>3 DEF Imminent
<1> QED
  BY <1>2, <1>3

\* The events of a tick: a transition resets both flags before the notices.
LEMMA EventStep ==
  ASSUME IInv, NEW gap \in 1 .. MaxGap, DriverTick(gap)
  PROVE  /\ PrevCurrent' /\ NothingYet' /\ FlagsMatchHeard' /\ ImminentIsFired'
         /\ NoticeIsImminent'
         /\ prevInCoverageSet' \in BOOLEAN /\ prevInCoverage' \in BOOLEAN
         /\ lookaheadOpenFired' \in BOOLEAN /\ lookaheadCloseFired' \in BOOLEAN
         /\ published'.edge \in Edges \cup {None}
         /\ published'.notice \in Notices \cup {None}
         /\ heard' \subseteq Edges \cup Notices
         /\ published' = [edge |-> published'.edge, notice |-> published'.notice,
                          link |-> published'.link]
<1> DEFINE cov == CoverageNow'
           soon == Imminent(cov, profile.lookahead)
           edge == published'.edge
           notice == published'.notice
<1>1. /\ cov.inCoverage \in BOOLEAN /\ soon \in BOOLEAN /\ profile' = profile
      /\ soon = Imminent(CoverageNow, profile.lookahead)'
  BY TickFacts DEF Imminent
<1>2. Tick(LinkState(profile, cyclePos'), cov, profile.lookahead, gap)
  BY TickFacts
<1>3. /\ prevInCoverageSet \in BOOLEAN /\ prevInCoverage \in BOOLEAN
      /\ lookaheadOpenFired \in BOOLEAN /\ lookaheadCloseFired \in BOOLEAN
      /\ heard \subseteq Edges \cup Notices
  BY DEF IInv, TypeOK, LoopTypeOK
<1>4. heard' = (IF edge # None THEN {edge} ELSE heard) \cup ({notice} \ {None})
  BY DEF DriverTick
<1> HIDE DEF cov, soon
<1>5. /\ prevInCoverageSet' = TRUE /\ prevInCoverage' = cov.inCoverage
      /\ lookaheadCloseFired' = (Fired(lookaheadCloseFired, cov) \/ Closing(cov, profile.lookahead))
      /\ lookaheadOpenFired' = (Fired(lookaheadOpenFired, cov) \/ Opening(cov, profile.lookahead))
      /\ edge = Edge(cov) /\ notice = Notice(cov, profile.lookahead)
      /\ published' = [edge |-> edge, notice |-> notice, link |-> published'.link]
  BY <1>2 DEF Tick
<1>6. /\ Closing(cov, profile.lookahead) <=> cov.inCoverage /\ ~Fired(lookaheadCloseFired, cov) /\ soon
      /\ Opening(cov, profile.lookahead) <=> ~cov.inCoverage /\ ~Fired(lookaheadOpenFired, cov) /\ soon
  BY Zenon DEF Closing, Opening, soon
<1>7. CASE Transition(cov)
  <2>1. ~Fired(lookaheadCloseFired, cov) /\ ~Fired(lookaheadOpenFired, cov)
    BY <1>3, <1>7 DEF Fired, IInv, NothingYet, FlagsMatchHeard
  <2>2. /\ lookaheadCloseFired' = (cov.inCoverage /\ soon)
        /\ lookaheadOpenFired' = (~cov.inCoverage /\ soon)
    BY <1>1, <1>5, <1>6, <2>1
  <2>3. edge = IF cov.inCoverage THEN "window_opened" ELSE "window_closed"
    BY <1>5, <1>7 DEF Edge
  <2>4. notice = IF soon THEN (IF cov.inCoverage THEN "window_closing" ELSE "window_opening")
                 ELSE None
    BY <1>1, <1>5, <1>6, <2>1 DEF Notice
  <2>5. heard' = {edge} \cup ({notice} \ {None})
    BY <1>4, <2>3 DEF None
  <2>6. PrevCurrent' /\ heard' \subseteq Edges \cup Notices
    BY <1>1, <1>5, <2>3, <2>4, <2>5 DEF PrevCurrent, Edges, Notices, None, cov
  <2>7. FlagsMatchHeard'
    BY <1>1, <2>2, <2>3, <2>4, <2>5 DEF FlagsMatchHeard, None
  <2>8. ImminentIsFired' /\ NoticeIsImminent'
    BY <1>1, <2>2, <2>4 DEF ImminentIsFired, NoticeIsImminent, None, cov
  <2> QED
    BY <1>1, <1>5, <2>2, <2>3, <2>4, <2>6, <2>7, <2>8 DEF NothingYet, Edges, Notices, None
<1>8. CASE ~Transition(cov)
  <2>1. prevInCoverageSet /\ prevInCoverage = cov.inCoverage
    BY <1>1, <1>3, <1>8 DEF Transition
  <2>2. /\ Fired(lookaheadCloseFired, cov) = lookaheadCloseFired
        /\ Fired(lookaheadOpenFired, cov) = lookaheadOpenFired
    BY <1>3, <1>8 DEF Fired
  <2>3. /\ lookaheadCloseFired' = (lookaheadCloseFired \/ (cov.inCoverage /\ soon))
        /\ lookaheadOpenFired' = (lookaheadOpenFired \/ (~cov.inCoverage /\ soon))
    BY <1>1, <1>3, <1>5, <1>6, <2>2
  <2>4. edge = None
    BY <1>5, <1>8 DEF Edge
  <2>5. notice = IF cov.inCoverage /\ ~lookaheadCloseFired /\ soon THEN "window_closing"
                 ELSE IF ~cov.inCoverage /\ ~lookaheadOpenFired /\ soon THEN "window_opening"
                 ELSE None
    BY <1>1, <1>3, <1>5, <1>6, <2>2 DEF Notice
  <2>6. heard' = heard \cup ({notice} \ {None})
    BY <1>4, <2>4
  <2>7. heard \cap Edges = {IF prevInCoverage THEN "window_opened" ELSE "window_closed"}
    BY <2>1 DEF IInv, PrevCurrent
  <2>8. heard' \cap Edges = heard \cap Edges /\ heard' \subseteq Edges \cup Notices
    BY <1>3, <2>5, <2>6 DEF Edges, Notices, None
  <2>9. PrevCurrent'
    BY <1>1, <1>5, <2>1, <2>7, <2>8 DEF PrevCurrent, cov
  <2>10. FlagsMatchHeard'
    BY <1>1, <1>3, <2>3, <2>5, <2>6 DEF FlagsMatchHeard, None, IInv
  <2>11. ImminentIsFired' /\ NoticeIsImminent'
    BY <1>1, <1>3, <2>3, <2>5 DEF ImminentIsFired, NoticeIsImminent, None, cov
  <2> QED
    BY <1>1, <1>3, <1>5, <2>3, <2>4, <2>5, <2>8, <2>9, <2>10, <2>11
       DEF NothingYet, Edges, Notices, None
<1> QED
  BY <1>7, <1>8

\* Every step keeps the invariant.
LEMMA StepInv == IInv /\ [Next]_vars => IInv'
<1> SUFFICES ASSUME IInv, [Next]_vars PROVE IInv'
  OBVIOUS
<1>1. ASSUME NEW gap \in 1 .. MaxGap, DriverTick(gap)
      PROVE  IInv'
  <2>1. profile' \in Profiles /\ cyclePos' \in Positions(profile') /\ Valid(profile')
    BY <1>1, TickFacts DEF IInv
  <2>2. published' \in [edge : Edges \cup {None}, notice : Notices \cup {None},
                        link : LinkStates \cup {Silent}]
    BY <1>1, EventStep, LinkStep
  <2>3. LoopTypeOK'
    BY <1>1, <2>2, EventStep, LinkStep DEF LoopTypeOK
  <2>4. shown' \in LinkStates \cup {Silent}
    BY <1>1, LinkStep DEF ThrottleTypeOK
  <2>5. TypeOK'
    BY <1>1, <2>1, <2>3, <2>4, EventStep DEF TypeOK
  <2> QED
    BY <1>1, <2>1, <2>5, EventStep, LinkStep DEF IInv
<1>2. CASE UNCHANGED vars
  BY <1>2 DEF IInv, vars, loopVars, throttleVars, TypeOK, LoopTypeOK, ThrottleTypeOK,
              PrevCurrent, NothingYet, FlagsMatchHeard, ImminentIsFired, NoticeIsImminent,
              LinkFresh, CoverageNow
<1> QED
  BY <1>1, <1>2 DEF Next

\* Every reachable state satisfies the inductive invariant.
LEMMA Invariance == Spec => []IInv
BY InitInv, StepInv, PTL DEF Spec

-----------------------------------------------------------------------------
(* Theorems *)

\* All variables keep their types, for any set of profiles and any gap between
\* ticks (loop.go, throttle.go).
THEOREM TypeCorrect == Spec => []TypeOK
<1>1. IInv => TypeOK
  BY DEF IInv
<1> QED
  BY <1>1, Invariance, PTL

\* In coverage, what subscribers hold is recent and close to the true link state
\* (bus.go: PublishLinkStateEvent).
THEOREM LinkStaysFresh == Spec => []LinkFresh
<1>1. IInv => LinkFresh
  BY DEF IInv
<1> QED
  BY <1>1, Invariance, PTL

\* Every notice announces what happens within the lookahead (loop.go: lookahead
\* notices, driven by UntilNextTransitionSec of scheduler.go).
THEOREM NoticesAreTruthful == Spec => []NoticesTruthful
<1>1. IInv => NoticesTruthful
  <2> SUFFICES ASSUME IInv PROVE NoticesTruthful
    OBVIOUS
  <2>1. profile \in Profile /\ Valid(profile) /\ cyclePos \in Positions(profile)
    BY CoverageDriverAssumption DEF IInv, TypeOK
  <2>2. /\ profile.lookahead \in Nat /\ CoverageNow.until \in Nat \ {0}
        /\ profile.period \in Nat \ {0} /\ cyclePos \in Nat /\ cyclePos < profile.period
    BY <2>1, ValidFacts, CoverageFacts DEF CoverageNow, Positions
  <2> DEFINE sec == CoverageNow.until
             now == Later(profile, cyclePos, sec)
  <2>3. ASSUME published.notice = "window_closing", Periodic(profile)
        PROVE  sec \in 1 .. profile.lookahead /\ ~ScheduledCoverage(profile, now).inCoverage
    <3>1. CoverageNow.inCoverage /\ sec <= profile.lookahead
      BY <2>3 DEF IInv, NoticeIsImminent, Imminent
    <3>2. sec = profile.window - cyclePos /\ profile.window = CurveRange(profile)
          /\ profile.window \in Nat /\ profile.lookahead <= profile.period - profile.window
      BY <2>1, <2>3, <3>1, CoverageFacts, ValidFacts DEF CoverageNow
    <3>3. cyclePos + sec = profile.window /\ profile.window < profile.period
      BY <2>2, <3>1, <3>2
    <3>4. now = profile.window /\ now \in Positions(profile)
      BY <2>1, <2>2, <3>3, LaterPosition
    <3>5. ~(now < CurveRange(profile))
      BY <3>2, <3>4
    <3>6. ~ScheduledCoverage(profile, now).inCoverage
      BY <2>1, <3>4, <3>5, ScheduledFacts
    <3> QED
      BY <2>2, <3>1, <3>6
  <2>4. ASSUME published.notice = "window_opening", Isolated(profile)
        PROVE  sec \in 1 .. profile.lookahead /\ Coverage(profile, now).inCoverage
    <3>1. ~CoverageNow.inCoverage /\ sec <= profile.lookahead
      BY <2>4 DEF IInv, NoticeIsImminent, Imminent
    <3> QED
      BY <2>1, <2>2, <2>4, <3>1, OutageEnds DEF CoverageNow
  <2> QED
    BY <2>3, <2>4 DEF NoticesTruthful
<1> QED
  BY <1>1, Invariance, PTL

\* Edges alternate, and the foreseeable ones are announced (loop.go: tick), for any
\* profile and any sequence of gaps between ticks.
THEOREM EventsComeInOrder == Spec => EventsInOrder
<1> DEFINE A == /\ published'.edge \notin heard
                /\ profile.lookahead >= MaxGap /\ heard # {} =>
                     /\ published'.edge = "window_opened" => "window_opening" \in heard
                     /\ published'.edge = "window_closed" /\ ~CoverageNow'.inBlockage
                          => "window_closing" \in heard
<1>1. ASSUME IInv, NEW gap \in 1 .. MaxGap, DriverTick(gap)
      PROVE  A
  <2> DEFINE cov == CoverageNow'
  <2>1. /\ prevInCoverageSet \in BOOLEAN /\ heard \subseteq Edges \cup Notices
        /\ profile \in Profile /\ Valid(profile) /\ cyclePos \in Positions(profile)
        /\ cyclePos' \in Positions(profile) /\ profile' = profile
        /\ cyclePos' = Later(profile, cyclePos, gap) /\ gap \in Nat \ {0} /\ gap <= MaxGap
        /\ MaxGap \in Nat /\ profile.lookahead \in Nat
        /\ cov = Coverage(profile, cyclePos') /\ cov.inCoverage \in BOOLEAN
    BY <1>1, TickFacts DEF IInv, TypeOK, LoopTypeOK
  <2>2. published'.edge = Edge(cov)
    <3>1. Tick(LinkState(profile, cyclePos'), cov, profile.lookahead, gap)
      BY <1>1, TickFacts
    <3> HIDE DEF cov
    <3> QED
      BY <3>1 DEF Tick
  <2>3. prevInCoverageSet => /\ prevInCoverage = CoverageNow.inCoverage
                             /\ heard \cap Edges = {IF prevInCoverage THEN "window_opened"
                                                    ELSE "window_closed"}
    BY <1>1 DEF IInv, PrevCurrent
  <2>4. ~prevInCoverageSet => heard = {}
    BY <1>1 DEF IInv, NothingYet
  <2>5. CoverageNow = Coverage(profile, cyclePos) /\ CoverageNow.inCoverage \in BOOLEAN
    BY <2>1, CoverageFacts DEF CoverageNow
  <2> HIDE DEF cov
  <2>6. /\ published'.edge = None
        \/ /\ published'.edge = (IF cov.inCoverage THEN "window_opened" ELSE "window_closed")
           /\ prevInCoverageSet => cov.inCoverage # CoverageNow.inCoverage
    BY <2>1, <2>2, <2>3, <2>5 DEF Edge, Transition
  <2>7. published'.edge \notin heard
    BY <2>1, <2>3, <2>4, <2>5, <2>6 DEF Edges, Notices, None
  <2>8. ASSUME profile.lookahead >= MaxGap, heard # {}, published'.edge = "window_opened"
        PROVE  "window_opening" \in heard
    <3>1. prevInCoverageSet /\ cov.inCoverage /\ ~CoverageNow.inCoverage
      BY <2>1, <2>4, <2>5, <2>6, <2>8 DEF None
    <3>2. gap <= profile.lookahead
      BY <2>1, <2>8
    <3>3. Imminent(CoverageNow, profile.lookahead)
      BY <2>1, <2>5, <3>1, <3>2, ChangeWasImminent
    <3> QED
      BY <1>1, <3>1, <3>3 DEF IInv, ImminentIsFired, FlagsMatchHeard
  <2>9. ASSUME profile.lookahead >= MaxGap, heard # {}, published'.edge = "window_closed",
               ~cov.inBlockage
        PROVE  "window_closing" \in heard
    <3>1. prevInCoverageSet /\ ~cov.inCoverage /\ CoverageNow.inCoverage
      BY <2>1, <2>4, <2>5, <2>6, <2>9 DEF None
    <3>2. gap <= profile.lookahead
      BY <2>1, <2>9
    <3>3. ~ScheduledCoverage(profile, cyclePos').inCoverage
      BY <2>1, <2>9, <3>1, CoverageCases
    <3>4. Imminent(CoverageNow, profile.lookahead)
      BY <2>1, <2>5, <3>1, <3>2, <3>3, ChangeWasImminent
    <3> QED
      BY <1>1, <3>1, <3>4 DEF IInv, ImminentIsFired, FlagsMatchHeard
  <2> QED
    BY <2>7, <2>8, <2>9 DEF cov
<1>2. IInv /\ [Next]_vars => [A]_vars
  BY <1>1 DEF Next
<1> QED
  BY <1>2, Invariance, PTL DEF Spec, EventsInOrder

\* What Lookahead predicts comes true, for every periodic profile and instant
\* (lookahead_periodic.go).
THEOREM PredictionComesTrue == Spec => []PredictionHolds
<1>1. IInv => PredictionHolds
  <2>1. ASSUME IInv
        PROVE  profile \in Profile /\ Valid(profile) /\ cyclePos \in Positions(profile)
    BY <2>1, CoverageDriverAssumption DEF IInv, TypeOK
  <2> QED
    BY <2>1, NextOpening, NextClosing DEF PredictionHolds, CoverageNow
<1> QED
  BY <1>1, Invariance, PTL
=============================================================================
